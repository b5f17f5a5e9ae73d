--------------------------- MODULE TicketFigures ---------------------------
(***************************************************************************)
(* What the reports say of the tickets: the statistics, the ticket report  *)
(* with its satisfaction and service-level figures, the performance        *)
(* ranking and metrics, the monthly report builder, and the cards and      *)
(* pages of tickets near or past their deadline.  Each report is the set   *)
(* of tickets it counts, as an operator over a ticket table that changes   *)
(* as in the ticket service: tickets are filed, started, held, resolved,   *)
(* corrected, rated, closed, reopened and dropped while months go by.      *)
(*                                                                         *)
(* Every instant is working time here (SlaClock has the calendar), and the *)
(* escalation clause of the overtime scope is left out.                    *)
(***************************************************************************)
EXTENDS Integers, Sequences, FiniteSets, FiniteSetsExt

CONSTANTS Kinds,                    \* ticket types
          Technicians, Manager, Admin, Requester,
          MonthLength, Months,
          AllowedHours,             \* slaHours of an issue that has them
          PauseAllowance,           \* allowablePauseHours
          Unset,
          Filings,                  \* the tickets that may be filed
          MaxFigSteps               \* per number of tickets: so many steps

ASSUME FigAssumption ==
  /\ MonthLength \in Nat \ {0} /\ Months \in Nat \ {0} /\ AllowedHours \in Nat \ {0}
  /\ PauseAllowance \in Nat /\ MaxFigSteps \in Seq(Nat)

VARIABLES figTickets, figNow, figSteps
figVars == <<figTickets, figNow, figSteps>>

Least(x, y) == IF x < y THEN x ELSE y
Most(x, y) == IF x < y THEN y ELSE x
Month(at) == at \div MonthLength
begin(m) == m * MonthLength
ThisMonth == Month(figNow)
Reported == IF figTickets = <<>> THEN {} ELSE 0..ThisMonth    \* months there is something to report of

----------------------------------------------------------------------------
(* One ticket                                                              *)

isDone(t) == t.st \in {"resolved", "closed"}
isHeld(t) == t.st \in {"pause", "freeze"}
hoursOf(t) == IF t.timed THEN AllowedHours ELSE 0
creditOf(t) == MapThenSumSet(LAMBDA k : t.holds[k].credit, DOMAIN t.holds)
clockStart(t) == IF t.started # Unset THEN t.started
                 ELSE IF t.assigned # Unset THEN t.assigned ELSE t.made

getEffectiveResolvedAt(t) == IF t.verified # Unset THEN t.verified ELSE t.done

\* Credited pauses up to the completion, not beyond what the hold lasted by then
creditedUntil(t, end) ==
  LET part(h) == Least(h.credit, Most(0, Least(end, h.to) - Most(t.started, h.from)))
  IN  MapThenSumSet(LAMBDA k : IF t.holds[k].to = Unset THEN 0 ELSE part(t.holds[k]), DOMAIN t.holds)

creditedHours(t, end) == Most(0, end - t.started - creditedUntil(t, end))

\* By the deadline; a ticket that has none by its active hours
hasMet(t, active, allowed) ==
  IF t.due # Unset THEN getEffectiveResolvedAt(t) <= t.due ELSE active <= allowed

----------------------------------------------------------------------------
(* The ticket table                                                        *)

Put(i, t) == /\ figTickets' = [figTickets EXCEPT ![i] = t]
             /\ figSteps' = figSteps + 1 /\ UNCHANGED figNow
may == figTickets # <<>> => figSteps < MaxFigSteps[Len(figTickets)]

startedNow(t) == [t EXCEPT !.st = "in_progress", !.started = figNow, !.paused = Unset,
                      !.due = IF t.timed THEN figNow + AllowedHours ELSE Unset,
                      !.holds = [k \in DOMAIN t.holds |-> [t.holds[k] EXCEPT !.credit = 0]]]

\* The end of a hold or of a schedule pause: the interruption is closed, the
\* pause credited, the deadline worked out anew.  Held while open, or taken
\* back, the pause is not dated.
closedHold(t) == IF isHeld(t) THEN [t EXCEPT !.holds[Len(t.holds)].to = figNow] ELSE t

creditedPause(t) ==
  LET spent == figNow - t.paused
      given == IF t.st = "pause" THEN Least(spent, PauseAllowance) ELSE spent
  IN  IF isHeld(t) THEN [closedHold(t).holds EXCEPT ![Len(t.holds)].credit = given]
      ELSE Append(t.holds, [kind |-> "schedule", from |-> t.paused, to |-> figNow, credit |-> given])

released(t, to) ==
  IF t.paused = Unset THEN [closedHold(t) EXCEPT !.st = to]
  ELSE LET credited == [t EXCEPT !.paused = Unset, !.holds = creditedPause(t)]
       IN  [credited EXCEPT !.st = to,
              !.due = IF t.timed /\ (to = "resolved" /\ ~isHeld(t) => t.due # Unset)
                      THEN clockStart(t) + AllowedHours + creditOf(credited) ELSE @]

File(f) ==
  /\ may /\ Len(figTickets) < Len(MaxFigSteps)
  /\ LET t == [st |-> IF f.owner = Unset THEN "open" ELSE "assigned",
               type |-> f.type, timed |-> f.timed, ot |-> f.ot, owner |-> f.owner,
               made |-> figNow, assigned |-> IF f.owner = Unset THEN Unset ELSE figNow,
               started |-> Unset, due |-> Unset, paused |-> Unset, done |-> Unset, verified |-> Unset,
               rating |-> Unset, rated |-> Unset, userClosed |-> FALSE, holds |-> <<>>]
     IN  figTickets' = Append(figTickets, IF f.begun THEN startedNow(t) ELSE t)
  /\ figSteps' = figSteps + 1 /\ UNCHANGED figNow

Assign(i, p) ==
  LET t == figTickets[i]
  IN  /\ may /\ t.st = "open"
      /\ Put(i, [t EXCEPT !.st = "assigned", !.owner = p, !.assigned = figNow])

StartIt(i) ==
  LET t == figTickets[i]
  IN  /\ may /\ t.st = "assigned"
      /\ Put(i, IF t.started = Unset THEN startedNow(t) ELSE [t EXCEPT !.st = "in_progress"])

HoldIt(i, kind) ==
  LET t == figTickets[i]
  IN  /\ may
      /\ t.st \in (IF kind = "pause" THEN {"in_progress"} ELSE {"open", "assigned", "in_progress"})
      /\ Put(i, [t EXCEPT !.st = kind, !.paused = IF t.st = "open" THEN @ ELSE figNow,
                          !.holds = Append(@, [kind |-> kind, from |-> figNow, to |-> Unset, credit |-> 0])])

UnholdIt(i) ==
  LET t == figTickets[i]
  IN  /\ may /\ isHeld(t)
      /\ Put(i, IF t.started = Unset THEN startedNow(closedHold(t)) ELSE released(t, "in_progress"))

ResolveIt(i) ==
  LET t == figTickets[i]
  IN  /\ may /\ (t.st = "in_progress" \/ isHeld(t))
      /\ Put(i, [released(t, "resolved") EXCEPT !.done = figNow])

\* The super administrator takes a ticket back: no deadline, no credit any more
ReopenIt(i) ==
  LET t == figTickets[i]
  IN  /\ may /\ t.st \in {"assigned", "freeze"}
      /\ Put(i, [closedHold(t) EXCEPT !.st = "open", !.owner = Unset, !.assigned = Unset, !.due = Unset, !.paused = Unset,
                             !.holds = [k \in DOMAIN @ |-> [@[k] EXCEPT !.credit = 0]]])

verifiable(t) == (IF t.started # Unset THEN t.started ELSE t.made)..t.done

Verify(i, at) ==
  LET t == figTickets[i]
  IN  /\ may /\ isDone(t) /\ t.verified = Unset /\ at \in verifiable(t)
      /\ Put(i, [t EXCEPT !.verified = at])

submitted(t, v) == [t EXCEPT !.rating = v, !.rated = figNow, !.st = "closed"]

Rate(i, v) == LET t == figTickets[i]
              IN  may /\ isDone(t) /\ t.rated = Unset /\ Put(i, submitted(t, v))

\* By the staff, or by the requester, whose closing is remembered
CloseIt(i, own) ==
  LET t == figTickets[i]
  IN  may /\ t.st = "resolved" /\ Put(i, [t EXCEPT !.st = "closed", !.userClosed = own])

Drop(i, st) ==
  LET t == figTickets[i]
  IN  may /\ t.st \in {"open", "assigned", "in_progress"} /\ Put(i, [t EXCEPT !.st = st, !.paused = Unset])

\* The schedule stops the running clocks, and starts them again
OfficeCloses(i) ==
  LET t == figTickets[i]
  IN  may /\ t.st = "in_progress" /\ t.paused = Unset /\ Put(i, [t EXCEPT !.paused = figNow])

OfficeOpens(i) ==
  LET t == figTickets[i]
  IN  may /\ t.st = "in_progress" /\ t.paused # Unset /\ Put(i, released(t, "in_progress"))

Passes == figNow < Months * MonthLength - 1 /\ figNow' = figNow + 1 /\ UNCHANGED <<figTickets, figSteps>>

FigInit == figTickets = <<>> /\ figNow = 0 /\ figSteps = 0

FigNext ==
  \/ Passes
  \/ \E f \in Filings : File(f)
  \/ \E i \in DOMAIN figTickets :
       \/ \E p \in Technicians : Assign(i, p)
       \/ \E kind \in {"pause", "freeze"} : HoldIt(i, kind)
       \/ \E v \in {4, Unset} : Rate(i, v)
       \/ \E own \in BOOLEAN : CloseIt(i, own)
       \/ \E st \in {"duplicate", "cancelled"} : Drop(i, st)
       \/ \E at \in 0..figNow : Verify(i, at)
       \/ StartIt(i) \/ UnholdIt(i) \/ ResolveIt(i) \/ ReopenIt(i) \/ OfficeCloses(i) \/ OfficeOpens(i)

FigSpec == FigInit /\ [][FigNext]_figVars

----------------------------------------------------------------------------
(* Who sees what                                                           *)

Managers == {Manager, Admin}
Reporters == Technicians \cup Managers
All == DOMAIN figTickets

\* Overtime tickets are the administrator's, the requester's and the assignee's
inOvertimeScope(v) == {i \in All : ~figTickets[i].ot \/ v \in {Admin, Requester, figTickets[i].owner}}

resolveTicketReportTechnicianId(v, asked) == IF v \in Managers THEN asked ELSE v

assignedTo(p) == {i \in All : p = Unset \/ figTickets[i].owner = p}
ofType(k) == {i \in All : k = Unset \/ figTickets[i].type = k}
madeIn(m) == {i \in All : Month(figTickets[i].made) = m}
Completed == {i \in All : isDone(figTickets[i])}
Dropped == {i \in All : figTickets[i].st \in {"duplicate", "cancelled"}}
SelfClosed == {i \in All : figTickets[i].userClosed}
Rated == {i \in All : figTickets[i].rating # Unset}

----------------------------------------------------------------------------
(* Statistics, overview, dashboards                                        *)

\* Of the month; tickets their requester closed are counted apart
getStatistics(v, m) ==
  LET seen == madeIn(m) \cap inOvertimeScope(v)
      kept == seen \ SelfClosed
  IN  [total |-> kept, userClosed |-> seen \cap SelfClosed, resolved |-> kept \cap Completed,
       ratings |-> kept \cap Completed \cap Rated]

\* Held in pause, a ticket is in the total only
getGeneralOverviewStats(v, m) ==
  LET seen == madeIn(m) \cap inOvertimeScope(v)
      in(st) == {i \in seen : figTickets[i].st = st}
  IN  [total |-> seen,
       byStatus |-> [st \in {"open", "assigned", "in_progress", "resolved", "closed", "freeze",
                             "duplicate", "cancelled"} |-> in(st)],
       ratings |-> seen \cap Rated]

getRatingsReport(v, asked, k, m) ==
  {i \in Rated \cap ofType(k) \cap inOvertimeScope(v) \cap assignedTo(resolveTicketReportTechnicianId(v, asked)) :
     Month(figTickets[i].rated) = m}

----------------------------------------------------------------------------
(* The ticket report, the ranking and the metrics                          *)

timeable == {i \in Completed : figTickets[i].started # Unset}
verdict(i) == LET t == figTickets[i]
              IN  hasMet(t, creditedHours(t, getEffectiveResolvedAt(t)), hoursOf(t))

reportSource(v, asked, k, m) == madeIn(m) \cap ofType(k) \cap inOvertimeScope(v)
                                  \cap assignedTo(resolveTicketReportTechnicianId(v, asked))

getTicketReports(v, asked, k, m) ==
  LET seen == reportSource(v, asked, k, m)
      done == seen \cap Completed
      judged == done \cap timeable
  IN  [total |-> seen, withRating |-> done \cap Rated,
       byType |-> [y \in Kinds |-> [count |-> seen \cap ofType(y), rated |-> seen \cap ofType(y) \cap Rated,
                                    resolved |-> seen \cap ofType(y) \cap Completed]],
       byTechnician |-> [p \in Technicians |-> [count |-> done \cap assignedTo(p),
                                                rated |-> done \cap assignedTo(p) \cap Rated]],
       met |-> {i \in judged : verdict(i)}, missed |-> {i \in judged : ~verdict(i)}]

\* Completed in the period, by anyone; not for every ticket there is a score
performanceSource(k, m) == {i \in Completed \cap ofType(k) : Month(getEffectiveResolvedAt(figTickets[i])) = m}
scored(k, m) == {i \in performanceSource(k, m) \cap timeable :
                   figTickets[i].owner # Unset /\ hoursOf(figTickets[i]) > 0}
getAssigneePerformance(k, m) ==
  [rows |-> [p \in Technicians |-> [count |-> scored(k, m) \cap assignedTo(p),
                                    met |-> {i \in scored(k, m) \cap assignedTo(p) : verdict(i)}]],
   excluded |-> performanceSource(k, m) \ scored(k, m)]

getPerformanceMetrics(v, asked, k, m) ==
  LET seen == reportSource(v, asked, k, m) \ Dropped
  IN  [seen |-> seen, met |-> {i \in seen \cap timeable : verdict(i)},
       missed |-> {i \in seen \cap timeable : ~verdict(i)}]

\* By issue, those whose issue has hours
getSlaInsights(m) == {i \in timeable : hoursOf(figTickets[i]) > 0
                        /\ Month(getEffectiveResolvedAt(figTickets[i])) = m}

----------------------------------------------------------------------------
(* The monthly report builder                                              *)

authorized(v, asked) == v \in Managers \/ asked \in {Unset, v}
cutoff(m) == Least(begin(m + 1), figNow)

inMonth(at, m) == at >= begin(m) /\ at < cutoff(m)

getMonthlyBuilderTickets(v, asked, k, m) ==
  IF ~authorized(v, asked) THEN {}
  ELSE {i \in ((ofType(k) \cap inOvertimeScope(v)
                  \cap assignedTo(IF v \in Managers THEN asked ELSE v)) \ Dropped) \ SelfClosed :
          /\ figTickets[i].made < cutoff(m)
          /\ i \in Completed => getEffectiveResolvedAt(figTickets[i]) >= begin(m)}

received(i, m) == inMonth(figTickets[i].made, m)
completedIn(i, m) == i \in Completed /\ inMonth(getEffectiveResolvedAt(figTickets[i]), m)

builderLifetimeEnd(i, m) == IF i \in Completed THEN getEffectiveResolvedAt(figTickets[i]) ELSE cutoff(m)

clipped(h, lo, hi) == Most(0, Least(IF h.to = Unset THEN hi ELSE h.to, hi) - Most(h.from, lo))
interrupted(i, kind, lo, hi) ==
  LET hs == figTickets[i].holds
  IN  MapThenSumSet(LAMBDA n : IF hs[n].kind = kind THEN clipped(hs[n], lo, hi) ELSE 0, DOMAIN hs)
minutes(i, kind, m) == interrupted(i, kind, begin(m), Least(cutoff(m), builderLifetimeEnd(i, m)))

\* Mutant: judged by the active hours although there is a deadline
judgedByHours(t, active) == IF hoursOf(t) > 0 /\ active # Unset
                            THEN (IF active <= hoursOf(t) THEN "Met" ELSE "Missed") ELSE "Unavailable"
getBuilderSlaResult(t, active) ==
  IF t.due # Unset \/ (active # Unset /\ hoursOf(t) > 0)
  THEN (IF hasMet(t, active, hoursOf(t)) THEN "Met" ELSE "Missed") ELSE "Unavailable"
builderVerdict(i) ==
  LET t == figTickets[i]
  IN  getBuilderSlaResult(t, IF t.started = Unset THEN Unset ELSE creditedHours(t, getEffectiveResolvedAt(t)))

----------------------------------------------------------------------------
(* The service-level cards, and the pages of tickets they open             *)

\* Out of its last two fifths
near(t) == (t.due - figNow) * 5 <= (IF t.timed THEN AllowedHours ELSE t.due - clockStart(t)) * 2

\* A clock the schedule stopped after its deadline passed goes on counting
stoppedBySchedule(t) == t.paused # Unset /\ t.started # Unset /\ ~(t.due # Unset /\ t.due <= t.paused)

cardScope(v) == {i \in inOvertimeScope(v) : v \in Managers \/ v \in {Requester, figTickets[i].owner}}
card(i) ==
  LET t == figTickets[i]
  IN  IF t.st # "in_progress" \/ t.started = Unset \/ stoppedBySchedule(t) THEN "none"
      ELSE IF t.due = Unset THEN "on_track"
      ELSE IF figNow > t.due THEN "overdue" ELSE IF near(t) THEN "nearing_sla" ELSE "on_track"
getSlaSummary(v) == [c \in {"overdue", "nearing_sla", "on_track"} |-> {i \in cardScope(v) : card(i) = c}]

onRunningClock(t) == t.st = "in_progress" /\ t.due # Unset /\ t.started # Unset /\ t.paused = Unset
applyActiveTicketSlaFilter(v, c) ==
  {i \in cardScope(v) : LET t == figTickets[i]
                        IN  onRunningClock(t) /\ c = (IF t.due <= figNow THEN "overdue"
                                               ELSE IF near(t) THEN "nearing_sla" ELSE "on_track")}

----------------------------------------------------------------------------
(* Properties                                                              *)

\* Times are ordered as work is: filed, begun, done, corrected to no earlier
\* than it began, rated.
FigTypeOK ==
  \A i \in All : LET t == figTickets[i]
                 IN  /\ t.made \in 0..figNow
                     /\ t.started # Unset => t.started \in t.made..figNow
                     /\ isDone(t) <=> t.done # Unset
                     /\ t.done # Unset => t.done \in t.made..figNow
                     /\ t.verified # Unset => t.verified \in (IF t.started # Unset THEN t.started ELSE t.made)..t.done
                     /\ t.rated # Unset => t.st = "closed"

\* Whoever may not manage reports gets figures of nobody's tickets but the own,
\* whichever technician the request names.
OwnFiguresOnly ==
  \A v \in Technicians, asked \in Technicians \cup {Unset}, m \in Reported :
    (getRatingsReport(v, asked, Unset, m) \cup reportSource(v, asked, Unset, m)
       \cup getMonthlyBuilderTickets(v, asked, Unset, m)) \subseteq assignedTo(v)

\* A finished ticket that has begun is judged alike by the ticket report, the
\* metrics, the ranking and the builder, and, where it has a deadline, as the
\* ticket's badge says; the builder leaves unjudged, and the ranking out, what
\* has no deadline and no hours.
SlaVerdictsAgree ==
  \A i \in timeable :
    LET t == figTickets[i]
    IN  /\ builderVerdict(i) # "Unavailable" => (builderVerdict(i) = "Met") = verdict(i)
        /\ t.due # Unset => (builderVerdict(i) = "Missed") = (getEffectiveResolvedAt(t) > t.due)
        /\ builderVerdict(i) = "Unavailable" =>
             i \in getAssigneePerformance(Unset, Month(getEffectiveResolvedAt(t))).excluded

\* Over the months the builder reports, each ticket is received once and, when
\* it is done, completed once.
MonthsPartition ==
  LET built == [m \in Reported |-> getMonthlyBuilderTickets(Admin, Unset, Unset, m)]
  IN  \A i \in (All \ Dropped) \ SelfClosed :
    LET of(Is(_, _)) == Cardinality({m \in Reported : i \in built[m] /\ Is(i, m)})
    IN  /\ figTickets[i].made < figNow => of(received) = 1
        /\ isDone(figTickets[i]) /\ getEffectiveResolvedAt(figTickets[i]) < figNow => of(completedIn) = 1

\* The interruptions the builder counts month by month add up to what they
\* lasted, until the ticket was completed.
MinutesAddUp ==
  LET built == [m \in Reported |-> getMonthlyBuilderTickets(Admin, Unset, Unset, m)]
  IN  \A i \in (All \ Dropped) \ SelfClosed, kind \in {"pause", "freeze"} :
    MapThenSumSet(LAMBDA m : IF i \in built[m] THEN minutes(i, kind, m) ELSE 0, Reported)
      = interrupted(i, kind, 0, IF i \in Completed THEN getEffectiveResolvedAt(figTickets[i]) ELSE figNow)

\* What the ranking scores or leaves out in a past month is what the builder
\* completes there, but for tickets their requester closed; and the insights
\* average none the ranking leaves out, unless nobody owns it.
RankingAgreesWithBuilder ==
  \A m \in Reported \ {ThisMonth} :
    LET ranked == getAssigneePerformance(Unset, m)
        rows == UNION {ranked.rows[p].count : p \in Technicians}
        built == getMonthlyBuilderTickets(Admin, Unset, Unset, m)
    IN  /\ (rows \cup ranked.excluded) \ SelfClosed = {i \in built : completedIn(i, m)}
        /\ \A i \in getSlaInsights(m) \cap ranked.excluded : figTickets[i].owner = Unset

\* The ticket report's figures by type add up to its totals, ratings included,
\* and its met and missed tickets are those of the metrics for the same filter.
TicketReportAddsUp ==
  \A v \in Reporters, m \in Reported :
    LET r == getTicketReports(v, Unset, Unset, m)
        x == getPerformanceMetrics(v, Unset, Unset, m)
        sum(f) == MapThenSumSet(LAMBDA y : Cardinality(r.byType[y][f]), Kinds)
    IN  /\ sum("count") = Cardinality(r.total) /\ sum("rated") = Cardinality(r.withRating)
        /\ r.met = x.met /\ r.missed = x.missed

\* Statistics, overview and ticket report of one month differ by the tickets
\* their requester closed, by those on pause, and by nothing else.
PopulationsReconcile ==
  \A v \in Managers, m \in Reported :
    LET s == getStatistics(v, m)
        o == getGeneralOverviewStats(v, m)
        r == getTicketReports(v, Unset, Unset, m)
        named == UNION {o.byStatus[st] : st \in DOMAIN o.byStatus}
    IN  /\ s.resolved \cup s.userClosed = o.byStatus["resolved"] \cup o.byStatus["closed"]
        /\ s.ratings = o.ratings \ s.userClosed /\ r.withRating = o.ratings
        /\ o.total \ named = {i \in o.total : figTickets[i].st = "pause"}
        /\ s.total = o.total \ s.userClosed

\* A ticket counted on a service-level card is on the page the card opens,
\* unless it has no deadline, its clock stands past the deadline, or the
\* deadline is this instant; and the pages hold no other.
SlaCardMatchesPage ==
  figTickets # <<>> => \A v \in Managers \cup {Requester}, c \in {"overdue", "nearing_sla", "on_track"} :
    LET exact(i) == figTickets[i].due = figNow
        odd(i) == figTickets[i].due = Unset \/ figTickets[i].paused # Unset
        cards == getSlaSummary(v)[c]
        page == applyActiveTicketSlaFilter(v, c)
    IN  (\A i \in cards \ page : odd(i) \/ exact(i)) /\ (\A i \in page \ cards : exact(i) /\ ~odd(i))

\* Statistics, overview, reports, ranking, builder and service-level pages tell the
\* same of the same tickets, but for the differences named in each part.
FiguresAgree ==
  /\ FigTypeOK /\ OwnFiguresOnly /\ SlaVerdictsAgree /\ MonthsPartition /\ MinutesAddUp
  /\ RankingAgreesWithBuilder /\ TicketReportAddsUp /\ PopulationsReconcile /\ SlaCardMatchesPage
=============================================================================
