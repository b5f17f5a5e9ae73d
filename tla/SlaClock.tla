------------------------------ MODULE SlaClock ------------------------------
(***************************************************************************)
(* The service clock of one ticket against the office calendar: starting,  *)
(* holding and restarting it, the minute job's schedule pauses, the global *)
(* and the technician's pause, overtime days, and what is computed from it *)
(* (deadline, credited pauses, the verdict on a resolved ticket).          *)
(*                                                                         *)
(* Time is counted in slots, DayLength a day; an instant is the begin of   *)
(* its slot.  Shifts give the hours of both schedule modes in slots.       *)
(***************************************************************************)
EXTENDS Integers, FiniteSets, FiniteSetsExt

CONSTANTS DayLength, LastDay,       \* later days are all office days
          LastSlot,                 \* the clock is followed up to here
          Shifts,                   \* per mode: in, resume (all present), out (calendar), stop (job)
          LunchStart, LunchEnd,
          SlaHours, PauseHours, FreezeHours,
          Never,                    \* no time
          MaxLate, MaxChanges, MaxRequests

ASSUME SlaAssumption ==
  /\ DayLength \in Nat \ {0} /\ LastDay \in Nat /\ LastSlot \in 1..((LastDay + 1) * DayLength)
  /\ SlaHours \in Nat \ {0} /\ PauseHours \in Nat
  /\ FreezeHours \in Nat \ {0} /\ MaxLate \in Nat /\ MaxChanges \in Nat /\ MaxRequests \in Nat
  /\ LunchStart \in 0..DayLength /\ LunchEnd \in LunchStart..DayLength
  /\ \A m \in DOMAIN Shifts : Shifts[m].in < LunchStart /\ LunchEnd < Shifts[m].out

VARIABLES
  now, mode,
  officeDays,   \* office days up to LastDay, overtime days not among them
  overtimeDays,
  recalcDue,    \* an office-day.changed event is still to be handled
  globalPause,  \* isFlagCeremonyPaused
  clockedIn,    \* when the technician clocked in today
  jobDue,       \* the minute job has not run in this slot
  late,         \* slots it missed altogether
  ticket,
  stopped,      \* history: slots within hours that passed while the clock stood
  calendarChanges, slaRequests
slaVars == <<now, mode, officeDays, overtimeDays, recalcDue, globalPause, clockedIn, jobDue, late,
             ticket, stopped, calendarChanges, slaRequests>>

Far == (LastDay + 10) * DayLength
day(t) == t \div DayLength
hour(t) == t % DayLength
shift == Shifts[mode]

----------------------------------------------------------------------------
(* The calendar                                                            *)

isOfficeDay(d) == d > LastDay \/ d \in officeDays

\* An overtime ticket's own day counts as an office day (ticketCalendar).
ticketDay(d, ot) == d = ot \/ isOfficeDay(d)

\* The working blocks of a day
Blocks == <<[start |-> shift.in, end |-> LunchStart], [start |-> LunchEnd, end |-> shift.out]>>

at(d, h) == d * DayLength + h
nextDayStart(t) == at(day(t) + 1, shift.in)
openBlocks(t) == {i \in {1, 2} : hour(t) < Blocks[i].end}
block(t) == Blocks[Min(openBlocks(t))]

\* calculateSlaDeadline: the walk over days and blocks.
calculateSlaDeadline(start, hours, ot) ==
  LET walk[t \in 0..Far, left \in 0..Far] ==
        IF left = 0 THEN t
        ELSE IF ~ticketDay(day(t), ot) \/ openBlocks(t) = {} THEN walk[nextDayStart(t), left]
        ELSE IF hour(t) < block(t).start THEN walk[at(day(t), block(t).start), left]
        ELSE IF left <= block(t).end - hour(t) THEN t + left
        ELSE walk[at(day(t), block(t).end), left - (block(t).end - hour(t))]
  IN  walk[start, hours]

\* calculateBusinessSeconds: the same walk up to an end.
businessHours(start, end, ot) ==
  LET walk[t \in 0..Far] ==
        IF t >= end THEN 0
        ELSE IF ~ticketDay(day(t), ot) \/ openBlocks(t) = {} THEN walk[nextDayStart(t)]
        ELSE IF hour(t) < block(t).start THEN walk[at(day(t), block(t).start)]
        ELSE LET endsHere == day(t) = day(end) /\ hour(end) <= block(t).end
             IN  IF endsHere THEN Max({hour(end) - hour(t), 0})
                 ELSE block(t).end - hour(t) + walk[at(day(t), block(t).end)]
  IN  walk[start]

\* The definition both walks should compute
inShift(t) == hour(t) \in (shift.in..(shift.out - 1)) \ (LunchStart..(LunchEnd - 1))
workingSlots(a, b, ot) == {t \in a..(b - 1) : ticketDay(day(t), ot) /\ inShift(t)}

----------------------------------------------------------------------------
(* The ticket's clock                                                      *)

NoLedger == [clock |-> Never, legacy |-> 0, intervals |-> {}]
Unstarted == [status |-> "assigned", started |-> Never, deadline |-> Never, paused |-> Never, credited |-> 0,
              ledger |-> NoLedger, waiting |-> FALSE, ot |-> Never, resolved |-> Never, verified |-> Never,
              reopened |-> FALSE, lost |-> FALSE]

creditSum(intervals) == MapThenSumSet(LAMBDA i : i.hours, intervals)

\* usablePauseLedger
usable(t) ==
  /\ t.ledger.clock # Never /\ t.ledger.clock = t.started
  /\ t.ledger.legacy + creditSum(t.ledger.intervals) = t.credited

ledgerOf(t) == IF usable(t) THEN t.ledger ELSE [clock |-> t.started, legacy |-> t.credited, intervals |-> {}]

\* creditTicketPause: once for each interval.
creditTicketPause(t, from, to, hours) ==
  LET ledger == ledgerOf(t) IN
  IF \E i \in ledger.intervals : i.from = from /\ i.to = to THEN t
  ELSE [t EXCEPT !.credited = @ + hours,
                 !.ledger = [ledger EXCEPT !.intervals = @ \cup {[from |-> from, to |-> to, hours |-> hours]}]]

\* capManualPauseBusinessSeconds
capped(status, hours) == IF status = "pause" THEN Min({hours, PauseHours}) ELSE hours

\* The deadline the credits call for
owed(t) == calculateSlaDeadline(t.started, SlaHours + t.credited, t.ot)

\* Mutant: the pauses of before are kept
restartKeepingCredit(t) ==
  [t EXCEPT !.status = "in_progress", !.waiting = FALSE, !.paused = Never, !.started = now,
            !.deadline = calculateSlaDeadline(now, SlaHours, t.ot), !.reopened = FALSE, !.lost = FALSE]

\* A clock that starts now: the first start, a promotion from the queue, a first look.
restart(t) ==
  [t EXCEPT !.status = "in_progress", !.waiting = FALSE, !.paused = Never, !.started = now, !.credited = 0,
            !.deadline = calculateSlaDeadline(now, SlaHours, t.ot), !.reopened = FALSE, !.lost = FALSE]

\* getTicketById gives a running ticket without a deadline one, from its first start.
enriched(t) ==
  IF t.status = "in_progress" /\ t.deadline = Never
    THEN [t EXCEPT !.deadline = calculateSlaDeadline(t.started, SlaHours, t.ot)] ELSE t

\* The end of a hold by updateTicket: the pause is credited and the deadline follows.
unheld(t) ==
  LET hours == capped(t.status, businessHours(t.paused, now, t.ot))
      after == creditTicketPause(t, t.paused, now, hours)
  IN  [after EXCEPT !.deadline = owed(after), !.paused = Never, !.waiting = FALSE]

\* applySlaResume: a breach from before the pause stays.
breachedBefore(t) == t.deadline # Never /\ t.deadline <= t.paused

\* Mutant: the pause is not credited
resumedUncredited(t, resumeAt) == [t EXCEPT !.paused = Never]

applySlaResume(t, resumeAt) ==
  IF t.paused = Never THEN t
  ELSE IF breachedBefore(t) THEN [t EXCEPT !.paused = Never]
  ELSE LET until == Max({t.paused, resumeAt})
           after == creditTicketPause(t, t.paused, until, businessHours(t.paused, until, t.ot))
       IN  [after EXCEPT !.paused = Never, !.deadline = IF t.deadline = Never THEN Never ELSE owed(after)]

running(t) == t.status = "in_progress" /\ ~t.waiting

\* pauseAllActiveTickets
pauseAll(t) == IF running(t) /\ t.started # Never /\ t.paused = Never THEN [t EXCEPT !.paused = now] ELSE t

\* resumeAllActiveTickets
resumeAll(t, resumeAt) == IF running(t) THEN applySlaResume(t, resumeAt) ELSE t

----------------------------------------------------------------------------
(* The minute job                                                          *)

lunch == hour(now) >= LunchStart /\ hour(now) < LunchEnd

\* processOvertimeSlaSchedule
overtimePass(t) ==
  IF ~running(t) THEN t
  ELSE IF t.ot = day(now) /\ hour(now) >= shift.in /\ hour(now) < shift.out /\ ~lunch THEN applySlaResume(t, now)
  ELSE pauseAll(t)

\* resumeCwwPresentTechnicianTickets: from the technician's clock-in, within the window.
presentPass(t) ==
  IF clockedIn = Never THEN t
  ELSE resumeAll(t, Max({at(day(now), shift.in), Min({clockedIn, at(day(now), shift.resume)})}))

\* processSlaSchedules
schedulePass(t) ==
  IF globalPause THEN t
  ELSE IF day(now) \in overtimeDays THEN overtimePass(t)
  ELSE IF ~isOfficeDay(day(now)) \/ lunch THEN pauseAll(t)
  ELSE IF hour(now) < shift.in \/ hour(now) >= shift.stop THEN pauseAll(t)
  ELSE IF hour(now) < shift.resume THEN presentPass(t)
  ELSE resumeAll(t, at(day(now), shift.resume))

\* processAutoUnpause
pauseLimitReached(t) ==
  t.status = "pause" /\ t.paused # Never /\ businessHours(t.paused, now, t.ot) >= PauseHours

autoUnpause(t) == IF pauseLimitReached(t) THEN [unheld(t) EXCEPT !.status = "in_progress"] ELSE t

MinuteJob ==
  /\ jobDue /\ jobDue' = FALSE
  /\ ticket' = autoUnpause(schedulePass(ticket))
  /\ UNCHANGED <<now, mode, officeDays, overtimeDays, recalcDue, globalPause, clockedIn, late, stopped, calendarChanges, slaRequests>>

\* Whether the slot that begins now passes with the clock standing
standing == ticket.started # Never /\ ticket.resolved = Never
            /\ (ticket.paused # Never \/ ticket.status # "in_progress")

\* Time goes on; a job that did not run in its slot is late.
Advance ==
  /\ now < LastSlot /\ now' = now + 1
  /\ jobDue => late < MaxLate
  /\ late' = IF jobDue THEN late + 1 ELSE late
  /\ jobDue' = TRUE
  /\ stopped' = IF standing /\ inShift(now) THEN stopped \cup {now} ELSE stopped
  /\ clockedIn' = IF day(now + 1) # day(now) THEN Never ELSE clockedIn
 
  /\ UNCHANGED <<mode, officeDays, overtimeDays, recalcDue, globalPause, ticket, calendarChanges, slaRequests>>

\* Present from now on; it matters before the resume time of compressed weeks only.
ClockIn ==
  /\ mode = "CWW" /\ hour(now) <= shift.resume
  /\ clockedIn = Never /\ ticket.resolved = Never /\ clockedIn' = now
  /\ UNCHANGED <<now, mode, officeDays, overtimeDays, recalcDue, globalPause, jobDue, late, ticket, stopped, calendarChanges, slaRequests>>

----------------------------------------------------------------------------
(* Requests                                                                *)

Request ==
  /\ slaRequests < MaxRequests /\ slaRequests' = slaRequests + 1
  /\ UNCHANGED <<now, mode, clockedIn, jobDue, late>>
calendarKept == UNCHANGED <<officeDays, overtimeDays, recalcDue, calendarChanges>>

\* setOfficeDay, for today or later, while the ticket is open; overtime days are not
\* office days.
SetOfficeDay(d, kind) ==
  /\ ticket.resolved = Never
  /\ d >= day(now) /\ kind # (IF d \in overtimeDays THEN "overtime" ELSE IF d \in officeDays THEN "office" ELSE "off")
  /\ calendarChanges < MaxChanges /\ calendarChanges' = calendarChanges + 1
  /\ slaRequests < MaxRequests /\ slaRequests' = slaRequests + 1
  /\ officeDays' = IF kind = "office" THEN officeDays \cup {d} ELSE officeDays \ {d}
  /\ overtimeDays' = IF kind = "overtime" THEN overtimeDays \cup {d} ELSE overtimeDays \ {d}
  /\ recalcDue' = TRUE
  /\ UNCHANGED <<now, mode, globalPause, clockedIn, jobDue, late, ticket, stopped>>

\* recalculateActiveSlaDeadlines, on the event and at the start of the service.
Recalculate ==
  /\ recalcDue /\ recalcDue' = FALSE
  /\ ticket' = IF ticket.status = "in_progress" /\ ticket.started # Never /\ ticket.paused = Never
               THEN [ticket EXCEPT !.deadline = owed(ticket)] ELSE ticket
  /\ UNCHANGED <<now, mode, officeDays, overtimeDays, globalPause, clockedIn, jobDue, late, stopped, calendarChanges, slaRequests>>

\* globalPauseTickets and globalResumeTickets
GlobalPause ==
  /\ ~globalPause /\ Request /\ globalPause' = TRUE /\ ticket' = pauseAll(ticket)
  /\ calendarKept /\ UNCHANGED stopped
GlobalResume ==
  /\ globalPause /\ Request /\ globalPause' = FALSE /\ ticket' = resumeAll(ticket, now)
  /\ calendarKept /\ UNCHANGED stopped

\* technicianPauseTickets; the next minute job may resume at once.
TechnicianPause ==
  /\ pauseAll(ticket) # ticket /\ Request /\ ticket' = pauseAll(ticket)
  /\ calendarKept /\ UNCHANGED <<globalPause, stopped>>

Updated(t) == /\ Request /\ ticket' = t /\ calendarKept /\ UNCHANGED <<globalPause, stopped>>

\* The first start, by a status change or an assignment to an idle technician; for
\* overtime also the ticket's day.
StartWork ==
  /\ ticket.status = "assigned" /\ ticket.started = Never
  /\ \E ot \in {ticket.ot} \cup (overtimeDays \cap {day(now)}) : Updated(restart([ticket EXCEPT !.ot = ot]))

\* A started ticket that waits is taken up by a status change: its pause is credited.
TakeUp ==
  /\ ticket.status = "assigned" /\ ticket.started # Never
  /\ LET t == IF ticket.waiting /\ ticket.paused # Never THEN unheld(ticket) ELSE ticket
     IN  Updated([t EXCEPT !.status = "in_progress", !.waiting = FALSE, !.paused = Never])

\* assignTicket to a busy technician: the clock stands in the queue.
Requeue ==
  /\ ticket.status = "in_progress"
  /\ Updated([ticket EXCEPT !.status = "assigned", !.waiting = TRUE,
                                       !.paused = IF ticket.paused = Never THEN now ELSE ticket.paused])

\* assignTicket to an idle one: a wait in the queue ends without credit, a pause by the
\* schedule goes on.
AssignIdle ==
  /\ ticket.status \in {"assigned", "open"} /\ ticket.started # Never
  /\ Updated([ticket EXCEPT !.status = "in_progress", !.waiting = FALSE,
                                      !.paused = IF ticket.waiting THEN Never ELSE ticket.paused,
                                      !.lost = ticket.lost \/ ticket.waiting])

\* The queue hands over, or the assignee looks at a ticket that does not wait.
Promote == ticket.status = "assigned" /\ ticket.waiting /\ Updated(restart(ticket))
View == ticket.status = "assigned" /\ ~ticket.waiting /\ Updated(restart(ticket))

\* Pause and freeze: the pause begins now even if the schedule had stopped the clock.
Hold(status) ==
  /\ ticket.status = "in_progress"
  /\ Updated([enriched(ticket) EXCEPT !.status = status, !.paused = now,
                                              !.lost = ticket.lost \/ ticket.paused # Never])

\* By the assignee, or by processAutoUnfreeze to the status before the freeze.
Unhold(status) ==
  /\ ticket.status \in {"pause", "freeze"} /\ (ticket.status = "pause" => status = "in_progress")
  /\ Updated([unheld(ticket) EXCEPT !.status = status])

\* Back to OPEN: the deadline and the credits go, the start stays.
Reopen ==
  /\ ticket.status \in {"assigned", "freeze"} /\ ticket.started # Never
  /\ Updated([ticket EXCEPT !.status = "open", !.waiting = FALSE, !.deadline = Never,
                                      !.credited = 0, !.paused = Never, !.reopened = TRUE])

\* Resolving credits an open pause.
Resolve ==
  /\ ticket.status \in {"in_progress", "pause", "freeze"}
  /\ LET e == enriched(ticket)
         t == IF e.paused = Never THEN e ELSE unheld(e)
     IN  Updated([t EXCEPT !.status = "resolved", !.resolved = now])

\* overrideResolutionTime: not before the start, not after the recorded time.
OverrideResolutionTime(at_) ==
  /\ ticket.status = "resolved" /\ ticket.verified = Never
  /\ at_ >= ticket.started /\ at_ <= ticket.resolved
  /\ Updated([ticket EXCEPT !.verified = at_])

----------------------------------------------------------------------------
(* What is shown                                                           *)

\* getScheduledSlaResumeAt
scheduledResumeAt(ot) ==
  LET d == day(now)
      days == {e \in (d + 1)..(d + 14) : ticketDay(e, ot)}
  IN  IF globalPause THEN Never
      ELSE IF ticketDay(d, ot) /\ hour(now) < shift.stop THEN at(d, shift.resume)
      ELSE at(Min(days), shift.resume)

schedulePaused(t) == running(t) /\ t.paused # Never /\ t.started # Never /\ ~breachedBefore(t)

statusPaused(t) == t.status \in {"pause", "freeze"} /\ t.paused # Never /\ ~t.waiting

\* projectTicketSlaState: the deadline shown while the clock stands.
shownDeadline(t) ==
  LET resumeAt == IF schedulePaused(t) THEN scheduledResumeAt(t.ot)
                  ELSE IF t.status = "pause" THEN calculateSlaDeadline(t.paused, PauseHours, t.ot)
                  ELSE IF t.status = "freeze" THEN t.paused + FreezeHours ELSE Never
      until == IF resumeAt # Never /\ resumeAt > now THEN resumeAt ELSE now
      hours == capped(t.status, businessHours(t.paused, until, t.ot))
  IN  IF t.started = Never \/ t.deadline = Never \/ t.paused = Never
         \/ ~(schedulePaused(t) \/ statusPaused(t) \/ t.waiting)
        THEN t.deadline
      ELSE calculateSlaDeadline(t.started, SlaHours + t.credited + hours, t.ot)

resolvedAt(t) == IF t.verified = Never THEN t.resolved ELSE t.verified

\* hasMetResolvedTicketSla
metSla(t) == resolvedAt(t) <= t.deadline

\* resolutionTiming: credits are cut at the end.
hoursWithin(t, i) ==
  LET from == Max({t.started, i.from})
      to == Min({resolvedAt(t), i.to})
  IN  IF to <= from THEN 0 ELSE Min({i.hours, businessHours(from, to, t.ot)})
activeHours(t) ==
  LET elapsed == businessHours(t.started, resolvedAt(t), t.ot)
      ledger == ledgerOf(t)
      credits == ledger.legacy + MapThenSumSet(LAMBDA i : hoursWithin(t, i), ledger.intervals)
  IN  elapsed - Min({elapsed, credits})

----------------------------------------------------------------------------
SlaInit ==
  /\ now = 1 /\ mode \in DOMAIN Shifts
  /\ \E off \in SUBSET {1} : officeDays = (0..LastDay) \ off
  /\ overtimeDays \in {{}, {1} \ officeDays}
  /\ recalcDue = FALSE /\ globalPause = FALSE /\ clockedIn = Never /\ jobDue = TRUE /\ late = 0
  /\ ticket = Unstarted /\ stopped = {} /\ calendarChanges = 0 /\ slaRequests = 0

SlaNext ==
  \/ Advance \/ MinuteJob \/ ClockIn \/ Recalculate
  \/ GlobalPause \/ GlobalResume \/ TechnicianPause
  \/ \E d \in 0..LastDay, k \in {"office", "off", "overtime"} : SetOfficeDay(d, k)
  \/ StartWork \/ TakeUp \/ Requeue \/ AssignIdle \/ Promote \/ View
  \/ \E s \in {"pause", "freeze"} : Hold(s)
  \/ \E s \in {"in_progress", "assigned"} : Unhold(s)
  \/ Reopen \/ Resolve
  \/ \E t \in 0..LastSlot : OverrideResolutionTime(t)

SlaSpec == SlaInit /\ [][SlaNext]_slaVars

----------------------------------------------------------------------------
SlaTypeOK ==
  /\ now \in 0..LastSlot /\ officeDays \cap overtimeDays = {} /\ stopped \subseteq 0..now
  /\ ticket.started # Never => ticket.started \in 0..now
  /\ ticket.paused # Never => ticket.started # Never /\ ticket.paused \in ticket.started..now
  /\ ticket.credited \in Nat

\* Both walks over the calendar compute the working hours: the interval's walk their
\* number, and the deadline's walk the end of the last hour owed.
WalksCountWorkingHours ==
  ticket.started # Never =>
    /\ businessHours(ticket.started, now, ticket.ot) = Cardinality(workingSlots(ticket.started, now, ticket.ot))
    /\ LET d == owed(ticket)
           slots == workingSlots(ticket.started, d, ticket.ot)
       IN  Cardinality(slots) = SlaHours + ticket.credited /\ d - 1 \in slots

\* No more is credited than hours of the shift that passed with the clock standing: no
\* interval twice, nothing of the nights, breaks and days off.
CreditIsEarned ==
  ticket.started # Never =>
    ticket.credited <= Cardinality({s \in stopped : s >= ticket.started})

\* A running clock that is not breached has the deadline its start and its credits call
\* for, whatever happened to the calendar, unless the event is still to be handled, the
\* ticket was reopened without a new start, or an assignment dropped its wait.
DeadlineMatchesCredit ==
  ticket.status = "in_progress" /\ ticket.paused = Never /\ ~ticket.reopened /\ ~ticket.lost /\ ~recalcDue =>
    ticket.deadline # Never /\ (ticket.deadline <= now \/ ticket.deadline = owed(ticket))

\* The badge and the hours of a resolved ticket tell the same: within the deadline it
\* took at most the service hours and the pauses credited after the verified end,
\* beyond it at least the service hours, where the deadline follows the calendar.
VerdictAgreesWithHours ==
  ticket.status = "resolved" /\ ticket.deadline = owed(ticket) =>
    LET later == MapThenSumSet(LAMBDA i : i.hours - hoursWithin(ticket, i), ledgerOf(ticket).intervals)
    IN  IF metSla(ticket) THEN activeHours(ticket) <= SlaHours + later ELSE activeHours(ticket) >= SlaHours

\* The overrun of a deadline in working hours, up to where the clock stopped
stoppedAt(t, n) == IF t.paused = Never THEN n ELSE t.paused
overrun(t, n) ==
  /\ t.started # Never /\ t.deadline # Never /\ t.resolved = Never
  /\ t.deadline < stoppedAt(t, n) /\ businessHours(t.deadline, stoppedAt(t, n), t.ot) > 0

restarted == ticket'.started # ticket.started
calendarMoved == <<officeDays, overtimeDays, recalcDue>>' # <<officeDays, overtimeDays, recalcDue>>

\* A breach stays one until the clock starts anew, the ticket is reopened, or the
\* calendar changes ("A work-schedule pause must never erase a breach").
BreachStays ==
  overrun(ticket, now) /\ ticket.deadline = owed(ticket) /\ ~restarted /\ ~calendarMoved /\ ticket'.status \notin {"open", "resolved"}
       => ticket'.deadline # Never /\ ticket'.deadline < now'

\* It stands with time left.
timeLeft(t) == t.paused # Never /\ t.deadline # Never /\ businessHours(t.paused, t.deadline, t.ot) > 0

\* A clock that stands with time left does not run into a breach, except when a hold on top of a pause
\* of the schedule, or an assignment out of the queue, dropped the pause so
\* far, or the clock goes on from an earlier time: the minute job was late, or the day
\* was made an office day too late.
StoppedClockKeepsItsTime ==
  timeLeft(ticket) /\ late = 0 /\ calendarChanges' = 0 /\ ~restarted /\ ~ticket'.lost
       /\ ticket'.deadline # Never
       => ~overrun(ticket', now')

\* When the clock goes on, its deadline is not later than the one shown before,
\* unless the calendar changed meanwhile.
ShownDeadlineHolds ==
  ticket.paused # Never /\ ticket'.paused = Never /\ ~restarted /\ ~ticket'.lost
       /\ ticket'.status # "resolved" /\ ticket'.deadline # Never /\ ticket.deadline = owed(ticket)
       => ticket'.deadline <= shownDeadline(ticket)

\* Start, credits, deadline and verdict of the clock agree in working hours.
ClockHolds ==
  SlaTypeOK /\ WalksCountWorkingHours /\ CreditIsEarned /\ DeadlineMatchesCredit /\ VerdictAgreesWithHours

\* No pause, resumption or minute job turns a breach into a kept deadline or a kept
\* one into a breach, and none gives more time than the page had shown.
ClockIsFair == [][BreachStays /\ StoppedClockKeepsItsTime /\ ShownDeadlineHolds]_slaVars
=============================================================================
