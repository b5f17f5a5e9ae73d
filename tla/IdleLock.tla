------------------------------ MODULE IdleLock ------------------------------
(***************************************************************************)
(* The inactivity lock of one tab: the time of the last activity, the      *)
(* policy's limit, the timer that looks at the deadline, and the lock with *)
(* its mark in session storage.  Time is counted in units; timers may run  *)
(* late, as after the machine slept.                                       *)
(***************************************************************************)
EXTENDS Integers

CONSTANTS Limits, DefaultLimit, MaxTime
ASSUME IdleAssumption == Limits \subseteq Nat \ {0} /\ DefaultLimit \in Limits /\ MaxTime \in Nat

VARIABLES
  clock, lastActivity, limit,
  watching,   \* inactivityTimerRef is set
  locked,     \* isSessionLocked
  mark,       \* isSessionLocked in session storage
  excused     \* the page was loaded again, or unlocked, since the last activity
idleVars == <<clock, lastActivity, limit, watching, locked, mark, excused>>

overdue(last, lim) == clock >= last + lim

\* scheduleInactivityLock: looks at the deadline at once and sets the timer.
schedule(last, lim) ==
  IF overdue(last, lim) THEN locked' = TRUE /\ mark' = TRUE /\ watching' = FALSE
  ELSE watching' = TRUE /\ UNCHANGED <<locked, mark>>

\* Mutant: any activity counts
anyActivity == clock

\* activityHandler takes no activity past the deadline for one.
countedActivity == IF overdue(lastActivity, limit) THEN lastActivity ELSE clock

\* activityHandler
Activity ==
  /\ ~locked /\ lastActivity' = countedActivity /\ excused' = FALSE
  /\ schedule(countedActivity, limit) /\ UNCHANGED <<clock, limit>>

\* visibilityHandler
Visible == ~locked /\ schedule(lastActivity, limit) /\ UNCHANGED <<clock, lastActivity, limit, excused>>

\* checkDeadline, called by its timer
CheckDeadline ==
  /\ watching /\ schedule(lastActivity, limit) /\ UNCHANGED <<clock, lastActivity, limit, excused>>

\* refreshPolicy: another limit makes the effect run again.
RefreshPolicy ==
  /\ \E lim \in Limits : limit' = lim /\ IF locked THEN UNCHANGED <<locked, mark, watching>> ELSE schedule(lastActivity, lim)
  /\ UNCHANGED <<clock, lastActivity, excused>>

\* unlockSession, handleGoogleUnlock
UnlockSession ==
  /\ locked /\ locked' = FALSE /\ mark' = FALSE /\ lastActivity' = clock /\ watching' = TRUE /\ excused' = TRUE
  /\ UNCHANGED <<clock, limit>>

\* Loading the page again restores the lock and starts a new idle time.
Reload ==
  /\ lastActivity' = clock /\ limit' = DefaultLimit /\ locked' = mark /\ watching' = ~mark /\ excused' = TRUE
  /\ UNCHANGED <<clock, mark>>

TimePasses == clock < MaxTime /\ clock' = clock + 1 /\ UNCHANGED <<lastActivity, limit, watching, locked, mark, excused>>

IdleInit ==
  /\ clock = 0 /\ lastActivity = 0 /\ limit = DefaultLimit /\ watching = TRUE
  /\ locked = FALSE /\ mark = FALSE /\ excused = FALSE

IdleNext ==
  \/ Activity \/ Visible \/ CheckDeadline \/ RefreshPolicy \/ UnlockSession \/ Reload \/ TimePasses

\* A lock survives reloading, and whoever is not locked has a timer running.
IdleTypeOK == clock \in 0..MaxTime /\ limit \in Limits /\ locked = mark /\ (~locked => watching)

\* Time without activity beyond the limit cannot be made good by activity that
\* comes before the late timer: unless the page is loaded or unlocked, the
\* activity counted last moves by less than the limit in force.
IdleTimeCounts == [][excused' \/ lastActivity' = lastActivity \/ lastActivity' - lastActivity < limit]_idleVars
=============================================================================
