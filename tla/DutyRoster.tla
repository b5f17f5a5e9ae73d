------------------------------ MODULE DutyRoster ------------------------------
(***************************************************************************)
(* One working day of attendance and duty coverage: attendance rows from   *)
(* the clock-in view (DTR) and from managers, the duty coverage rows that  *)
(* the five-minute reconciliation proposes and an administrator activates, *)
(* meeting reservations with their immediate relievers, duty exceptions,   *)
(* and the end-of-day finalizer that writes the duty log.                  *)
(* reconcileCoverage is a function from (attendance, coverage) to their    *)
(* next values, because many handlers call it.  Handlers that save two     *)
(* tables, or read a list and save its rows one by one, take several steps.*)
(***************************************************************************)
EXTENDS Naturals, Sequences, FiniteSets, Functions

CONSTANTS Techs,        \* technicians of the shared roster
          Order,        \* their sort order: a sequence of the technicians
          Late,         \* technicians whose clock-in is after the window
          OdOnly,       \* od_only members
          OdOverride,   \* odOverrideEnabled
          Meetings,     \* meeting reservations of the day
          Venue,        \* Venue[m], a meeting duty type
          Period,       \* Period[m], "AM", "PM" or "WHOLE_DAY"
          DUTY_PRIORITY,\* sequence of duty types, "OD" first
          None,
          MaxChanges, MaxCrashes   \* bounds: administrative changes, restarts

Types == Range(DUTY_PRIORITY)
OD    == <<"OD", "WHOLE_DAY">>
Slot(m) == <<Venue[m], Period[m]>>
Slots == {OD} \cup {Slot(m) : m \in Meetings}

ASSUME DutyConstants ==
  /\ Order \in Seq(Techs) /\ Range(Order) = Techs /\ IsInjective(Order) /\ None \notin Techs
  /\ Late \subseteq Techs /\ OdOnly \subseteq Techs /\ OdOverride \in BOOLEAN
  /\ DUTY_PRIORITY \in Seq(STRING) /\ DUTY_PRIORITY # <<>> /\ DUTY_PRIORITY[1] = "OD"
  /\ \A m \in Meetings : Venue[m] \in Types \ {"OD"} /\ Period[m] \in {"AM", "PM", "WHOLE_DAY"}
  /\ \A m, n \in Meetings : Slot(m) = Slot(n) => m = n
  /\ MaxChanges \in Nat /\ MaxCrashes \in Nat

VARIABLES
  att,      \* attendance row of the day: status, clock-in, override flag, duty note
  dtr,      \* technicians with a clock-in in the DTR view
  cov,      \* duty_daily_coverages, one row per (type, period)
  res,      \* status of each reservation
  rel,      \* immediate relievers of each reservation
  exc,      \* duty exceptions of the day: <<technician, type or None>>
  log,      \* duty_assignments written by the application, with multiplicity
  busy,     \* technicians with active tickets
  closed,   \* the configured end of the workday is past
  online,   \* isDtrViewOnline, after a successful synchronisation today
  sync,     \* DTR synchronisation under way: rows still to save, or None
  mark,     \* end-of-day marking under way: technicians found without a row, or None
  act,      \* activations under way: attendance saved, coverage not yet
  overlap,  \* one began while another was under way
  fin,      \* finalizer under way: coverage logged, not yet completed
  used      \* bounds

running == <<sync, mark, act, overlap, fin>>
dutyVars == <<att, dtr, cov, res, rel, exc, log, busy, closed, online, running, used>>

AttendanceRow(status, clock, manual, note) ==
  [status |-> status, clock |-> clock, manual |-> manual, note |-> note]
NoRow == AttendanceRow("none", FALSE, FALSE, None)
NoCoverage == [status |-> "none", primary |-> None, assigned |-> None, sub |-> FALSE,
               over |-> FALSE, pnote |-> None]
Attendance == {"none", "present", "absent", "half_day", "out_of_office"}
CoverageStatus == {"none", "active", "released", "completed", "cancelled", "intervention_required"}
Open == {"scheduled", "confirmed"}

InitWith(rows, present, statuses, coverage, changes) ==
  /\ att = rows /\ dtr = present /\ online = (present # {})
  /\ busy = {} /\ exc = {} /\ closed = FALSE
  /\ res = statuses /\ cov = coverage
  /\ rel = [m \in Meetings |-> {}]
  /\ log = [x \in (Slots \cup Meetings) \X Techs |-> 0]
  /\ sync = None /\ mark = None /\ act = {} /\ overlap = FALSE /\ fin = None
  /\ used = [changes |-> changes, crashes |-> 0]

\* The day begins with empty tables.
DutyInit == InitWith([t \in Techs |-> NoRow], {}, [m \in Meetings |-> "none"],
                 [s \in Slots |-> NoCoverage], 0)

Change == used.changes < MaxChanges /\ used' = [used EXCEPT !.changes = @ + 1]

----------------------------------------------------------------------------
\* Eligibility, selection and rotation.

isAttendanceRecordEligible(a, t, allowLate) ==
  /\ a[t].status = "present" /\ ~closed
  /\ a[t].clock \/ a[t].manual
  /\ a[t].clock => (allowLate \/ t \notin Late)

periodsOverlap(p, q) == p = "WHOLE_DAY" \/ q = "WHOLE_DAY" \/ p = q

coverageCandidateUserId(row) ==
  CASE row.status = "active" -> row.assigned
    [] row.status = "intervention_required" -> row.primary
    [] OTHER -> None

PeriodRank(p) == CASE p = "WHOLE_DAY" -> 0 [] p = "AM" -> 1 [] p = "PM" -> 2

\* selectedReservation: open reservations of the venue, whole day before AM before PM
selectedReservation(r, type) ==
  {m \in Meetings : /\ Venue[m] = type /\ r[m] \in Open
                    /\ \A x \in Meetings : (Venue[x] = type /\ r[x] \in Open)
                                             => PeriodRank(Period[m]) <= PeriodRank(Period[x])}

\* What a reconciliation reads beside attendance and coverage
World == [res |-> res, rel |-> rel, exc |-> exc, log |-> log]
Excluded(w, t, type) == <<t, None>> \in w.exc \/ <<t, type>> \in w.exc
ServedToday(w, t, type) ==
  \E x \in DOMAIN w.log : /\ x[2] = t /\ w.log[x] > 0
                          /\ type = (IF x[1] \in Slots THEN x[1][1] ELSE Venue[x[1]])
Position(t) == CHOOSE i \in DOMAIN Order : Order[i] = t

\* getRotation without the excluded: whoever served today comes after the
\* others (daysSince 0), then the sort order decides.
getRotation(w, type) ==
  {t \in Techs : /\ ~Excluded(w, t, type)
                 /\ OdOverride => (t \in OdOnly <=> type = "OD")}
Before(w, t, u, type) ==
  \/ ~ServedToday(w, t, type) /\ ServedToday(w, u, type)
  \/ (ServedToday(w, t, type) <=> ServedToday(w, u, type)) /\ Position(t) <= Position(u)

\* blockedTechnicianIds: a coverage blocks unless relievers override its type
blockedTechnicianIds ==
  LET open == {m \in Meetings : res[m] \in Open}
      overridden == {Venue[m] : m \in {x \in open : rel[x] # {}}}
  IN  {coverageCandidateUserId(cov[s]) :
         s \in {x \in Slots : /\ x[1] = "OD" \/ x[1] \in {Venue[m] : m \in open}
                              /\ x[1] \notin overridden}}
      \cup UNION {rel[m] : m \in open}

\* getPresentTechnicians and getAutoAssignmentTechnicians
getAutoAssignmentTechnicians ==
  {t \in Techs : /\ att[t].status = "present" /\ ~closed
                 /\ att[t].clock \/ att[t].manual
                 /\ t \notin blockedTechnicianIds}

----------------------------------------------------------------------------
\* restoreAttendance: the status before the activation is always PRESENT; the
\* row's manual flag stays as the activation set it.
restoreAttendance(a, row) ==
  IF row.assigned # None /\ row.over /\ a[row.assigned] # NoRow
    THEN [a EXCEPT ![row.assigned].status = "present", ![row.assigned].note = row.pnote]
    ELSE a

isActiveCoverageAttendanceEligible(a, row) ==
  \/ /\ row.over /\ a[row.assigned].status = "out_of_office" /\ a[row.assigned].note # None
  \/ isAttendanceRecordEligible(a, row.assigned, FALSE)

\* The stages of reconcileCoverage.  A state is [a, c, cur, done]: attendance,
\* coverage rows, whether the handler still holds the current row, and the
\* outcome once it has returned ("null", "row", "error").
Only(S) == CHOOSE x \in S : TRUE
Stage(a, c, cur, done) == [a |-> a, c |-> c, cur |-> cur, done |-> done]

ReservedByPriorDuty(c, type, period) ==
  LET prior == {DUTY_PRIORITY[i] : i \in {k \in DOMAIN DUTY_PRIORITY :
                   \A j \in DOMAIN DUTY_PRIORITY : DUTY_PRIORITY[j] = type => k < j}}
  IN  {s \in Slots : s[1] \in prior /\ periodsOverlap(s[2], period)
                     /\ coverageCandidateUserId(c[s]) # None}

\* Relievers take the venue: the coverage is cancelled and attendance restored.
ReplaceByRelievers(g, s) ==
  LET row == g.c[s] IN
  Stage(restoreAttendance(g.a, row),
        [g.c EXCEPT ![s] = IF row = NoCoverage THEN row
                           ELSE [row EXCEPT !.status = "cancelled", !.assigned = None,
                                            !.sub = FALSE, !.over = FALSE]],
        TRUE, "null")

\* The candidate already serves a duty of higher priority.
YieldToPriorDuty(g, s) ==
  LET row == g.c[s]
      t == coverageCandidateUserId(row)
      prior == {p \in ReservedByPriorDuty(g.c, s[1], s[2]) : coverageCandidateUserId(g.c[p]) = t}
  IN IF t = None \/ prior = {} THEN g
     ELSE Stage(IF row.over /\ g.a[t] # NoRow
                  THEN [g.a EXCEPT ![t].status = "out_of_office", ![t].manual = TRUE,
                                   ![t].note = (CHOOSE p \in prior : TRUE)[1]]
                  ELSE g.a,
                [g.c EXCEPT ![s].status = "cancelled", ![s].assigned = None, ![s].over = FALSE],
                TRUE, g.done)

\* An assigned technician with an exception or without eligible attendance.
\* The row is saved as cancelled and then forgotten, so a new row for the
\* same slot would violate its unique index: that insert fails.
DropUnavailable(w, g, s) ==
  LET row == g.c[s] IN
  IF /\ row.status = "active" /\ row.assigned # None
     /\ \/ \E e \in w.exc : e[1] = row.assigned
        \/ ~isActiveCoverageAttendanceEligible(g.a, row)
    THEN Stage(restoreAttendance(g.a, row), [g.c EXCEPT ![s].status = "cancelled"], FALSE, g.done)
    ELSE g

\* A substitute's coverage goes back to manual intervention.
RevokeSubstitute(g, s) ==
  LET row == g.c[s] IN
  IF g.cur /\ row.status = "active" /\ row.sub
    THEN Stage(restoreAttendance(g.a, row),
               [g.c EXCEPT ![s] = [row EXCEPT !.status = "intervention_required", !.assigned = None,
                                              !.sub = FALSE, !.over = FALSE]], TRUE, g.done)
    ELSE g

\* The first eligible member of the rotation becomes the proposed primary.
ProposePrimary(w, g, s, excludedIds) ==
  LET taken == {coverageCandidateUserId(g.c[p]) : p \in ReservedByPriorDuty(g.c, s[1], s[2])}
      rotation == getRotation(w, s[1])
      candidates == {t \in rotation : /\ isAttendanceRecordEligible(g.a, t, FALSE)
                                      /\ t \notin taken \cup excludedIds}
  IN CASE g.cur /\ g.c[s].status = "active" -> [g EXCEPT !.done = "row"]
       [] ~(g.cur /\ g.c[s].status = "active") /\ rotation = {} -> [g EXCEPT !.done = "error"]
       [] ~(g.cur /\ g.c[s].status = "active") /\ rotation # {} /\ candidates = {} ->
            Stage(g.a, IF g.cur /\ g.c[s].status = "intervention_required"
                         THEN [g.c EXCEPT ![s].status = "cancelled"] ELSE g.c, g.cur, "null")
       [] ~(g.cur /\ g.c[s].status = "active") /\ candidates # {} /\ ~g.cur -> [g EXCEPT !.done = "error"]
       [] OTHER ->
            Stage(g.a, [g.c EXCEPT ![s] =
                          [NoCoverage EXCEPT !.status = "intervention_required",
                             !.primary = CHOOSE t \in candidates :
                                           \A u \in candidates : Before(w, t, u, s[1])]],
                  TRUE, "row")

\* reconcileCoverage of one slot
ReconcileSlot(w, a, c, s, excludedIds) ==
  LET g0 == Stage(a, c, TRUE, None) IN
  IF s # OD /\ \E m \in Meetings : Slot(m) = s /\ w.res[m] \in Open /\ w.rel[m] # {}
    THEN ReplaceByRelievers(g0, s)
    ELSE Only({ProposePrimary(w, g, s, excludedIds) :
                 g \in {RevokeSubstitute(d, s) :
                 d \in {DropUnavailable(w, y, s) : y \in {YieldToPriorDuty(g0, s)}}}})

\* reconcileCoverage(date, type): the slot of the selected reservation, if any
reconcileCoverage(w, a, c, type, excludedIds) ==
  IF type = "OD" THEN ReconcileSlot(w, a, c, OD, excludedIds)
  ELSE IF selectedReservation(w.res, type) = {} THEN Stage(a, c, TRUE, "null")
  ELSE ReconcileSlot(w, a, c, Slot(CHOOSE m \in selectedReservation(w.res, type) : TRUE), excludedIds)

\* Mutant: notes are never cleared
keepOrphanedDutyAttendance(a, c) == a

\* restoreOrphanedDutyAttendance: a duty note without an active coverage
restoreOrphanedDutyAttendance(a, c) ==
  [t \in Techs |->
     IF /\ a[t].status = "out_of_office" /\ a[t].note # None
        /\ ~\E s \in Slots : c[s].status = "active" /\ c[s].assigned = t /\ c[s].over
       THEN [a[t] EXCEPT !.status = "present", !.note = None, !.manual = FALSE]
       ELSE a[t]]

\* reconcileToday: the types in order, stopping where one throws; upTo[n] is
\* the outcome of the first n.
ReconcileNext(w, g, type) ==
  IF g.done = "error" THEN g ELSE reconcileCoverage(w, g.a, g.c, type, {})
reconcileToday(w, a, c) ==
  LET upTo[n \in 0..Len(DUTY_PRIORITY)] ==
        IF n = 0 THEN Stage(restoreOrphanedDutyAttendance(a, c), c, TRUE, None)
        ELSE Only({ReconcileNext(w, g, DUTY_PRIORITY[n]) : g \in {upTo[n - 1]}})
  IN  upTo[Len(DUTY_PRIORITY)]

----------------------------------------------------------------------------
\* Attendance.

\* setAttendance: a manager's decision for today; without a note in the
\* request the row keeps the note it has.
setAttendance(t, status) ==
  /\ Change
  /\ \E note \in {None, att[t].note} :
       att' = [att EXCEPT ![t] = AttendanceRow(status, @.clock, TRUE, note)]
  /\ UNCHANGED <<dtr, cov, res, rel, exc, log, busy, closed, online, running>>

deleteAttendance(t) ==
  /\ Change /\ att[t] # NoRow
  /\ att' = [att EXCEPT ![t] = NoRow]
  /\ UNCHANGED <<dtr, cov, res, rel, exc, log, busy, closed, online, running>>

restoreAttendanceFromDtr(t) ==
  /\ Change
  /\ att[t].manual /\ online /\ t \in dtr
  /\ att' = [att EXCEPT ![t] = AttendanceRow("present", TRUE, FALSE, None)]
  /\ UNCHANGED <<dtr, cov, res, rel, exc, log, busy, closed, online, running>>

\* The time-keeping system records an arrival (external).
ClockIn(t) ==
  /\ t \notin dtr /\ ~closed
  /\ dtr' = dtr \cup {t}
  /\ UNCHANGED <<att, cov, res, rel, exc, log, busy, closed, online, running, used>>

\* syncAttendanceWithDTR reads the view and the existing rows once ...
SyncRead ==
  /\ sync = None
  /\ online' = TRUE
  /\ LET due == {t \in dtr : ~att[t].manual /\ (att[t].status # "present" \/ ~att[t].clock)}
     IN sync' = IF due = {} THEN None ELSE [t \in due |-> att[t]]
  /\ UNCHANGED <<att, dtr, cov, res, rel, exc, log, busy, closed, mark, act, overlap, fin, used>>

\* ... or the view does not answer ...
SyncFails ==
  /\ sync = None
  /\ online' = FALSE
  /\ UNCHANGED <<att, dtr, cov, res, rel, exc, log, busy, closed, running, used>>

\* ... and the rows are saved one by one: an update writes every column of
\* the row read (and inserts it again when it is gone); inserting a row that
\* somebody has added meanwhile fails and ends the pass as an outage.
SyncSave(t) ==
  /\ sync # None /\ t \in DOMAIN sync
  /\ LET clash == sync[t] = NoRow /\ att[t] # NoRow
         left == DOMAIN sync \ {t}
     IN /\ att' = IF clash THEN att ELSE [att EXCEPT ![t] = AttendanceRow("present", TRUE, sync[t].manual, None)]
        /\ sync' = IF left = {} \/ clash THEN None ELSE [x \in left |-> sync[x]]
        /\ online' = (online /\ ~clash)
  /\ UNCHANGED <<dtr, cov, res, rel, exc, log, busy, closed, mark, act, overlap, fin, used>>

\* markMissingAttendanceAsAbsent: whoever has no row when the job looks ...
MarkRead ==
  /\ closed /\ online /\ mark = None
  /\ LET missing == {t \in Techs : att[t] = NoRow}
     IN missing # {} /\ mark' = missing
  /\ UNCHANGED <<att, dtr, cov, res, rel, exc, log, busy, closed, online, sync, act, overlap, fin, used>>

\* Mutant: the absences are upserted
UpsertAbsences(missing) ==
  [t \in Techs |-> IF t \in missing THEN AttendanceRow("absent", FALSE, FALSE, None) ELSE att[t]]

\* ... gets an absence, all in one insert that fails on any existing row.
InsertAbsences(missing) ==
  [t \in Techs |-> IF t \in missing /\ \A u \in missing : att[u] = NoRow
                     THEN AttendanceRow("absent", FALSE, FALSE, None) ELSE att[t]]

MarkSave ==
  /\ mark # None
  /\ att' = InsertAbsences(mark)
  /\ mark' = None
  /\ UNCHANGED <<dtr, cov, res, rel, exc, log, busy, closed, online, sync, act, overlap, fin, used>>

----------------------------------------------------------------------------
\* Duty.

Apply(g) == \E h \in {g} : att' = h.a /\ cov' = h.c

\* The five-minute cron, and the administrator's manual reconciliation
Reconcile ==
  /\ \E g \in {reconcileToday(World, att, cov)} :
       <<g.a, g.c>> # <<att, cov>> /\ att' = g.a /\ cov' = g.c
  /\ UNCHANGED <<dtr, res, rel, exc, log, busy, closed, online, running, used>>

\* reservationRestrictions: no change of status while its duty runs or is logged
hasActiveDuty(m) ==
  \/ cov[Slot(m)].status = "active"
  \/ res[m] = "confirmed" /\ rel[m] # {}
hasDutyLogs(m) == \E t \in Techs : log[<<m, t>>] > 0 \/ log[<<Slot(m), t>>] > 0

\* saveReservation: a new meeting of today, or a change of status of one
\* without duty; both reconcile.  A cancelled meeting is never reopened.
saveReservation(m, status) ==
  /\ Change
  /\ res[m] \in Open => (res[m] # status /\ ~hasActiveDuty(m) /\ ~hasDutyLogs(m))
  /\ res[m] \in Open \cup {"none"}
  /\ ~\E x \in Meetings \ {m} : /\ Venue[x] = Venue[m] /\ res[x] \notin {"none", "cancelled"}
                                /\ periodsOverlap(Period[x], Period[m])
  /\ res' = [res EXCEPT ![m] = status]
  /\ Apply(reconcileToday([World EXCEPT !.res = res'], att, cov))
  /\ UNCHANGED <<dtr, rel, exc, log, busy, closed, online, running>>

CancelReservation(m) ==
  /\ Change /\ res[m] \in Open
  /\ ~hasActiveDuty(m) /\ ~hasDutyLogs(m)
  /\ res' = [res EXCEPT ![m] = "cancelled"]
  /\ UNCHANGED <<att, dtr, cov, rel, exc, log, busy, closed, online, running>>

deleteReservation(m) ==
  /\ Change /\ res[m] \notin {"none", "completed"}
  /\ ~hasActiveDuty(m) /\ ~hasDutyLogs(m)
  /\ res' = [res EXCEPT ![m] = "none"]
  /\ rel' = [rel EXCEPT ![m] = {}]
  /\ UNCHANGED <<att, dtr, cov, exc, log, busy, closed, online, running>>

replaceMeetingRelievers(m, chosen) ==
  /\ Change /\ res[m] \in Open
  /\ OdOverride => chosen \cap OdOnly = {}
  /\ \A s \in Slots : ~(/\ s[1] # Venue[m] /\ periodsOverlap(s[2], Period[m])
                        /\ coverageCandidateUserId(cov[s]) \in chosen)
  /\ \A x \in Meetings \ {m} : ~(/\ res[x] \notin {"none", "cancelled"} /\ chosen \cap rel[x] # {}
                                 /\ Venue[x] # Venue[m] /\ periodsOverlap(Period[x], Period[m]))
  /\ \A t \in chosen : isAttendanceRecordEligible(att, t, TRUE) /\ t \notin busy
  /\ rel' = [rel EXCEPT ![m] = chosen]
  /\ Apply(reconcileCoverage([World EXCEPT !.rel = rel'], att, cov, Venue[m], {}))
  /\ UNCHANGED <<dtr, res, exc, log, busy, closed, online, running>>

clearMeetingRelievers(m) ==
  /\ Change /\ rel[m] # {}
  /\ rel' = [rel EXCEPT ![m] = {}]
  /\ IF res[m] # "cancelled"
       THEN Apply(reconcileCoverage([World EXCEPT !.rel = rel'], att, cov, Venue[m], {}))
       ELSE UNCHANGED <<att, cov>>
  /\ UNCHANGED <<dtr, res, exc, log, busy, closed, online, running>>

\* saveException and deleteException reconcile at once
ChangeExceptions(e) ==
  /\ exc' = e
  /\ Apply(reconcileToday([World EXCEPT !.exc = e], att, cov))
  /\ UNCHANGED <<dtr, res, rel, log, busy, closed, online, running>>
saveException(t, type)   == Change /\ <<t, type>> \notin exc /\ ChangeExceptions(exc \cup {<<t, type>>})
deleteException(e)       == Change /\ e \in exc /\ ChangeExceptions(exc \ {e})

\* skipCoverage registers an exception of that duty type for a candidate
skipCoverage(s, t) ==
  /\ cov[s].status = "intervention_required"
  /\ t \in getRotation(World, s[1]) /\ isAttendanceRecordEligible(att, t, FALSE)
  /\ saveException(t, s[1])

\* activateCoverage, once its checks have passed: the attendance row is saved ...
BeginActivation(s, t) ==
  /\ act' = act \cup {[s |-> s, row |-> [cov[s] EXCEPT !.status = "active", !.assigned = t, !.over = TRUE,
                                            !.sub = (t # cov[s].primary), !.pnote = att[t].note]]}
  /\ overlap' = (overlap \/ act # {})
  /\ att' = [att EXCEPT ![t].status = "out_of_office", ![t].note = s[1], ![t].manual = TRUE]
  /\ UNCHANGED <<dtr, cov, res, rel, exc, log, busy, closed, online, sync, mark, fin>>

\* Mutant: no check for another duty of the technician
ActivateWithoutConflictCheck(s, t) ==
  /\ Change
  /\ cov[s].status = "intervention_required" /\ t \notin busy /\ att[t].status = "present"
  /\ BeginActivation(s, t)

ActivateAttendance(s, t) ==
  /\ Change
  /\ cov[s].status = "intervention_required"
  /\ ~\E x \in Slots \ {s} : coverageCandidateUserId(cov[x]) = t /\ periodsOverlap(x[2], s[2])
  /\ t \notin busy
  /\ att[t].status = "present"
  /\ BeginActivation(s, t)

\* ... and then the coverage row.
ActivateCoverage ==
  /\ \E x \in act : cov' = [cov EXCEPT ![x.s] = x.row] /\ act' = act \ {x}
  /\ UNCHANGED <<att, dtr, res, rel, exc, log, busy, closed, online, sync, mark, overlap, fin, used>>

\* recordCompletedCoverage and the relievers' log: one entry per pair
Record(l, key, t) == IF t = None \/ l[<<key, t>>] > 0 THEN l ELSE [l EXCEPT ![<<key, t>>] = @ + 1]

\* reservationId of a coverage: the reservation its slot was proposed for
ReservationOf(s) == {m \in Meetings : Slot(m) = s}
CompleteReservations(r, s) ==
  [m \in Meetings |-> IF m \in ReservationOf(s) /\ r[m] \in Open THEN "completed" ELSE r[m]]

\* completeReservation: relievers are logged, the next meeting is reconciled
completeReservation(m) ==
  /\ Change /\ res[m] \in Open /\ rel[m] # {}
  /\ log' = [x \in DOMAIN log |-> IF x[1] = m /\ x[2] \in rel[m] /\ log[x] = 0 THEN 1 ELSE log[x]]
  /\ res' = [res EXCEPT ![m] = "completed"]
  /\ Apply(reconcileCoverage([World EXCEPT !.res = res', !.log = log'], att, cov, Venue[m], {}))
  /\ UNCHANGED <<dtr, rel, exc, busy, closed, online, running>>

\* releaseCoverage of a meeting duty
ReleaseMeeting(s) ==
  /\ s # OD /\ cov[s].status = "active" /\ Change
  /\ log' = Record(log, s, cov[s].assigned)
  /\ res' = CompleteReservations(res, s)
  /\ Apply(reconcileCoverage([World EXCEPT !.res = res', !.log = log'],
                             restoreAttendance(att, cov[s]),
                             [cov EXCEPT ![s].status = "completed"], s[1], {}))
  /\ UNCHANGED <<dtr, rel, exc, busy, closed, online, running>>

\* releaseCoverage of the officer of the day: only with a replacement; without
\* one the coverage and the duty note are put back.
ReleaseOfficer ==
  /\ cov[OD].status = "active" /\ Change
  /\ cov[OD].assigned \notin busy
  /\ LET t == cov[OD].assigned
         a1 == restoreAttendance(att, cov[OD])
         g  == reconcileCoverage(World, a1, [cov EXCEPT ![OD].status = "released"], "OD", {t})
         ok == g.done = "row" /\ g.c[OD].status = "intervention_required"
     IN /\ cov' = IF ok THEN g.c ELSE [g.c EXCEPT ![OD] = cov[OD]]
        /\ att' = IF ok THEN g.a
                  ELSE [g.a EXCEPT ![t] = IF @ = NoRow THEN @
                                          ELSE AttendanceRow("out_of_office", @.clock, TRUE, "OD")]
        /\ log' = IF ok THEN Record(log, OD, t) ELSE log
  /\ UNCHANGED <<dtr, res, rel, exc, busy, closed, online, running>>

releaseCoverage(s) == ReleaseMeeting(s) \/ (s = OD /\ ReleaseOfficer)

\* finalizeToday: relievers who were present are logged; then each active or
\* released coverage whose duty took place is logged ...
dutyOccurred(s) == s = OD \/ \E m \in ReservationOf(s) : res[m] \in {"confirmed", "completed"}

FinalizeRelievers ==
  /\ closed
  /\ log' = [x \in DOMAIN log |->
               IF /\ x[1] \in Meetings /\ res[x[1]] \in {"confirmed", "completed"} /\ x[2] \in rel[x[1]]
                  /\ att[x[2]].status = "present" /\ x[2] \notin busy
                 THEN Record(log, x[1], x[2])[x] ELSE log[x]]
  /\ log' # log
  /\ UNCHANGED <<att, dtr, cov, res, rel, exc, busy, closed, online, running, used>>

FinalizeLog(s) ==
  /\ closed /\ fin = None
  /\ cov[s].status \in {"active", "released"} /\ cov[s].assigned # None /\ dutyOccurred(s)
  /\ log' = Record(log, s, cov[s].assigned)
  /\ fin' = [s |-> s, row |-> cov[s]]
  /\ UNCHANGED <<att, dtr, cov, res, rel, exc, busy, closed, online, sync, mark, act, overlap, used>>

\* ... completed together with its reservation, and its attendance restored;
\* the row saved is the one the finalizer read.
FinalizeCoverage ==
  /\ fin # None
  /\ cov' = [cov EXCEPT ![fin.s] = [fin.row EXCEPT !.status = "completed"]]
  /\ res' = CompleteReservations(res, fin.s)
  /\ att' = restoreAttendance(att, fin.row)
  /\ fin' = None
  /\ UNCHANGED <<dtr, rel, exc, log, busy, closed, online, sync, mark, act, overlap, used>>

\* A duty whose meeting was never confirmed: only the attendance is restored.
FinalizeUnmet(s) ==
  /\ closed /\ fin = None
  /\ cov[s].status = "active" /\ ~dutyOccurred(s)
  /\ att' = restoreAttendance(att, cov[s]) /\ att' # att
  /\ UNCHANGED <<dtr, cov, res, rel, exc, log, busy, closed, online, running, used>>

----------------------------------------------------------------------------
\* Tickets come and go, the workday ends, the service restarts.
TicketChanges(t) ==
  /\ Change
  /\ busy' = IF t \in busy THEN busy \ {t} ELSE busy \cup {t}
  /\ UNCHANGED <<att, dtr, cov, res, rel, exc, log, closed, online, running>>

WorkdayEnds ==
  /\ ~closed /\ closed' = TRUE
  /\ UNCHANGED <<att, dtr, cov, res, rel, exc, log, busy, online, running, used>>

Crash ==
  /\ used.crashes < MaxCrashes
  /\ act # {} \/ <<sync, mark, fin>> # <<None, None, None>>
  /\ used' = [used EXCEPT !.crashes = @ + 1]
  /\ sync' = None /\ mark' = None /\ act' = {} /\ fin' = None
  /\ UNCHANGED <<att, dtr, cov, res, rel, exc, log, busy, closed, online, overlap>>

DutyNext ==
  \/ \E t \in Techs :
       \/ \E status \in {"present", "absent", "out_of_office"} : setAttendance(t, status)
       \/ deleteAttendance(t) \/ restoreAttendanceFromDtr(t) \/ ClockIn(t)
       \/ SyncSave(t) \/ TicketChanges(t) \/ saveException(t, None)
       \/ \E s \in Slots : skipCoverage(s, t) \/ ActivateAttendance(s, t)
  \/ \E e \in exc : deleteException(e)
  \/ \E m \in Meetings :
       \/ \E status \in Open : saveReservation(m, status)
       \/ \E chosen \in (SUBSET Techs) \ {{}} : replaceMeetingRelievers(m, chosen)
       \/ CancelReservation(m) \/ deleteReservation(m)
       \/ clearMeetingRelievers(m) \/ completeReservation(m)
  \/ \E s \in Slots : releaseCoverage(s) \/ FinalizeLog(s) \/ FinalizeUnmet(s)
  \/ SyncRead \/ SyncFails \/ MarkRead \/ MarkSave \/ Reconcile \/ ActivateCoverage
  \/ FinalizeRelievers \/ FinalizeCoverage \/ WorkdayEnds \/ Crash

\* Running handlers finish; the crons run again and again; the day ends.
Fairness ==
  /\ WF_dutyVars(ActivateCoverage) /\ WF_dutyVars(FinalizeCoverage) /\ WF_dutyVars(Reconcile)
  /\ WF_dutyVars(\E s \in Slots : FinalizeLog(s)) /\ WF_dutyVars(WorkdayEnds)

DutySpec == DutyInit /\ [][DutyNext]_dutyVars /\ Fairness

----------------------------------------------------------------------------
\* Types of the rows; an active coverage names its technician.
DutyTypeOK ==
  /\ att \in [Techs -> [status : Attendance, clock : BOOLEAN, manual : BOOLEAN, note : Types \cup {None}]]
  /\ \A s \in Slots : /\ cov[s].status \in CoverageStatus
                      /\ {cov[s].primary, cov[s].assigned} \subseteq Techs \cup {None}
                      /\ cov[s].status = "active" => cov[s].assigned # None
  /\ res \in [Meetings -> Open \cup {"none", "cancelled", "completed"}]
  /\ rel \in [Meetings -> SUBSET Techs]
  /\ exc \subseteq Techs \X (Types \cup {None})
  /\ {dtr, busy} \subseteq SUBSET Techs /\ {closed, online} \subseteq BOOLEAN

\* No technician serves two duties whose periods overlap, although the
\* activation, the reconciliation and the finalizer interleave, unless two
\* activations were under way at once: neither sees the other's coverage
\* (activateCoverage, reconcileCoverage).
OneActiveDuty ==
  ~overlap =>
    \A s, x \in Slots :
      /\ s # x /\ cov[s].status = "active" /\ cov[x].status = "active"
      /\ periodsOverlap(s[2], x[2])
      => cov[s].assigned # cov[x].assigned

\* Each technician gets at most one log entry per coverage or meeting, also
\* when the finalizer is cut off between the log and the coverage and runs
\* again a minute later (recordCompletedCoverage, "retries remain idempotent").
LoggedOnce == \A x \in DOMAIN log : log[x] <= 1

\* A coverage that is completed has its log entry: the log is written first.
CompletedIsLogged ==
  \A s \in Slots : cov[s].status = "completed" => log[<<s, cov[s].assigned>>] > 0

\* Somebody on duty is not in the automatic assignment pool, not even when a
\* manager or the synchronisation sets the attendance back to present while
\* the duty runs, unless relievers serve a meeting of the same venue
\* (blockedTechnicianIds, getAutoAssignmentTechnicians).
OnDutyOutOfPool ==
  \A s \in Slots :
    /\ cov[s].status = "active"
    /\ s = OD \/ /\ \E m \in ReservationOf(s) : res[m] \in Open
                 /\ \A m \in Meetings : Venue[m] = s[1] /\ res[m] \in Open => rel[m] = {}
    => cov[s].assigned \notin getAutoAssignmentTechnicians

\* The end-of-day job never turns an existing attendance row into an absence,
\* whatever a manager or the synchronisation adds after it looked.
AbsenceOnlyFillsGap ==
  [][\A t \in Techs : (att'[t].status = "absent" /\ ~att'[t].manual /\ att'[t] # att[t])
                        => att[t] = NoRow]_dutyVars

\* A duty note without an active coverage behind it (an activation cut off
\* between its two saves, a cancelled coverage) does not stay: the
\* reconciliation clears it (restoreOrphanedDutyAttendance).
DutyNoteOf(t) == att[t].status = "out_of_office" /\ att[t].note # None
Covered(t) == \E s \in Slots : cov[s].status = "active" /\ cov[s].assigned = t /\ cov[s].over
OrphanedNotesClear == []<>(\A t \in Techs : DutyNoteOf(t) => Covered(t))

\* After the end of the workday every duty that took place is closed.
ActiveDutyEnds ==
  closed ~> \A s \in Slots : ~(cov[s].status = "active" /\ dutyOccurred(s))

\* The coverage rows, the attendance and the log tell the same story: one duty at
\* a time, logged once and before it counts as completed, and out of the pool.
DutiesAgree == DutyTypeOK /\ OneActiveDuty /\ LoggedOnce /\ CompletedIsLogged /\ OnDutyOutOfPool

\* What was cut off between two saves is put right by the minute's reconciliation.
DutySettles == OrphanedNotesClear /\ ActiveDutyEnds
=============================================================================
