--------------------------- MODULE AutoAssignment ---------------------------
(***************************************************************************)
(* Who receives a ticket that nobody was named for.  createTicket, the     *)
(* pickup at a clock-in, the handoff of a finished ticket and the alert    *)
(* about an absent technician choose under the named lock: they read the   *)
(* pool and the workloads, and read the pool again just before they save.  *)
(* A ticket sent back to open chooses as well, without the lock.  Between  *)
(* a choice and its save technicians work, attendance changes and the day  *)
(* may end.  Tickets of overtime days are left to TechnicianQueue and      *)
(* TicketRequests, and the clocks to SlaClock.                             *)
(***************************************************************************)
EXTENDS Integers, Sequences, FiniteSets

CONSTANTS
  AaTickets,      \* numbered in order of creation
  AaTechnicians,  \* accounts of technician roles below senior rank
  AaTeam,         \* the support type each of them serves
  AaSpecialists,  \* those whose role carries specialized support
  AaUser,         \* an account that only requests
  AaFilings,      \* what is filed: support type, requester, filer, and whether
                  \* the requester is still pending
  AaIssueHours,   \* the SLA hours of the issue staff name when they file
  AaCap,          \* roundRobinCapHours
  AaLastDay,      \* bound: days 0..AaLastDay
  AaMaxTurns,     \* bound: assignments
  AaMaxMoves,     \* bound: attendance changes
  AaNobody        \* no account

AaTypes == {"it", "desktop", "pantawid", "specialized"}
AaAccounts == AaTechnicians \cup {AaUser}

ASSUME AaTeamAssumption == AaTeam \in [AaTechnicians -> {"it", "desktop", "pantawid"}]
ASSUME AaTicketsAssumption ==
  AaTickets \subseteq Nat \ {0} /\ IsFiniteSet(AaTickets) /\ AaNobody \notin AaAccounts
ASSUME AaFilingsAssumption ==
  /\ AaFilings \subseteq [type : AaTypes, req : AaAccounts, by : AaAccounts, pending : BOOLEAN]
  /\ \A f \in AaFilings : /\ f.req # f.by => f.by \in AaTechnicians
                          /\ f.pending => f.req # f.by
ASSUME AaHoursAssumption ==
  AaIssueHours \in Nat /\ AaCap \in Nat /\ AaLastDay \in Nat /\ AaMaxTurns \in Nat /\ AaMaxMoves \in Nat

VARIABLES
  aaRow,        \* aaRow[t]: the tickets table
  aaStrategy,   \* assignmentStrategy, or "paused" during the flag ceremony
  aaDay,        \* today: its number, its week and its kind
  aaAtt,        \* aaAtt[d][k]: what attendance of day d says of k
  aaJob,        \* the handler that holds the named lock
  aaOpening,    \* an updateTicket request that sends a ticket back to open
  aaOwed,       \* technicians whose handoff waits for the lock
  aaTurn,       \* aaTurn[k]: when k last received a ticket, by whatever means
  aaMoves       \* attendance changes so far

aaVars == <<aaRow, aaStrategy, aaDay, aaAtt, aaJob, aaOpening, aaOwed, aaTurn, aaMoves>>

(* at is lastAssignedAt, 0 for null, and week the week it falls in.        *)
AaRows == [type: AaTypes, req: AaAccounts, by: AaAccounts,
           status: {"none", "open", "assigned", "in_progress", "pause", "resolved"},
           owner: AaTechnicians \cup {AaNobody}, waits: BOOLEAN,
           at: 0..(AaMaxTurns + 1), week: 0..AaLastDay]

AaUnfiled == [type |-> "it", req |-> AaUser, by |-> AaUser, status |-> "none",
              owner |-> AaNobody, waits |-> FALSE, at |-> 0, week |-> 0]

(* A handler between its choice and its save: the technician it chose, the *)
(* pool and the day it chose from, and what it read.  A handler that goes  *)
(* through several tickets keeps those still to do.                        *)
AaFree == [op |-> "none", ticket |-> 0, row |-> AaUnfiled, who |-> AaNobody,
           pool |-> "all", day |-> 0, todo |-> {}, pending |-> FALSE]

AaTypeOK ==
  /\ aaRow \in [AaTickets -> AaRows]
  /\ aaStrategy \in {"robin", "zero", "paused"}
  /\ aaDay \in [no: 0..AaLastDay, week: 0..AaLastDay, kind: {"office", "free", "overtime"}]
  /\ aaAtt \in [0..AaLastDay -> [AaTechnicians -> {"available", "withheld", "away"}]]
  /\ aaJob.op \in {"none", "file", "pickup", "handoff", "alert"} /\ aaJob.row \in AaRows
  /\ aaOpening.op \in {"none", "open"} /\ aaOpening.row \in AaRows
  /\ aaOwed \subseteq AaTechnicians
  /\ aaTurn \in [AaTechnicians -> 0..AaMaxTurns]
  /\ aaMoves \in 0..AaMaxMoves

(* Nobody has clocked in yet on the days to come.                          *)
AaInit ==
  /\ aaRow = [t \in AaTickets |-> AaUnfiled]
  /\ aaStrategy \in {"robin", "zero", "paused"}
  /\ aaDay \in [no: {0}, week: {0}, kind: {"office", "free", "overtime"}]
  /\ \E today \in [AaTechnicians -> {"available", "withheld", "away"}] :
       aaAtt = [d \in 0..AaLastDay |->
                  IF d = 0 THEN today ELSE [k \in AaTechnicians |-> "away"]]
  /\ aaJob = AaFree /\ aaOpening = AaFree
  /\ aaOwed = {}
  /\ aaTurn = [k \in AaTechnicians |-> 0]
  /\ aaMoves = 0

-----------------------------------------------------------------------------
(* What a choice reads.                                                    *)

(* getAutoAssignmentTechnicians: present with an active shift, opted in    *)
(* and not on desk duty; nobody on an overtime day.  The kind of a day     *)
(* that has ended does not change any more.                                *)
AaPool(pool, day) ==
  IF day = aaDay.no /\ aaDay.kind = "overtime" THEN {}
  ELSE {k \in AaTechnicians : aaAtt[day][k] = "available" /\ pool \in {AaTeam[k], "all"}}

AaHeld(k, statuses) == {t \in AaTickets : aaRow[t].owner = k /\ aaRow[t].status \in statuses}

(* activeTicketsCount, busyCount: paused tickets count.                    *)
AaBusy(k) == AaHeld(k, {"assigned", "in_progress", "pause"}) # {}

(* getWeeklySlaLoad: the hours of the issues, whatever became of the       *)
(* ticket.  A user's ticket has no issue until somebody names one, and     *)
(* weighs nothing.                                                         *)
AaLoad(k) ==
  AaIssueHours * Cardinality({t \in AaTickets :
    /\ aaRow[t].owner = k /\ aaRow[t].at # 0 /\ aaRow[t].week = aaDay.week
    /\ aaRow[t].by # AaUser})

AaBelowCap(k) == AaLoad(k) < AaCap

(* The newest lastAssignedAt of the tickets that are k's now.              *)
AaLastReceived(k) ==
  LET ats == {aaRow[t].at : t \in {u \in AaTickets : aaRow[u].owner = k}}
  IN  IF ats = {} THEN 0 ELSE CHOOSE a \in ats : \A b \in ats : a >= b

(* CAPPED_ROUND_ROBIN: below the cap, and served the longest ago.          *)
AaRobinChoice(eligible) ==
  LET below == {k \in eligible : AaBelowCap(k)}
  IN  {k \in below : \A j \in below : AaLastReceived(k) <= AaLastReceived(j)}

(* CURRENT_AUTO: nothing assigned or in progress.                          *)
AaZeroChoice(eligible) == {k \in eligible : AaHeld(k, {"assigned", "in_progress"}) = {}}

AaChoice(eligible) ==
  CASE aaStrategy = "robin" -> AaRobinChoice(eligible)
    [] aaStrategy = "zero" -> AaZeroChoice(eligible)
    [] aaStrategy = "paused" -> {}

AaChain(type) ==
  CASE type = "it" -> <<"it", "desktop", "pantawid">>
    [] type = "desktop" -> <<"desktop", "it", "pantawid">>
    [] type = "pantawid" -> <<"pantawid", "all">>
    [] type = "specialized" -> <<>>

(* The choices of a filing: technicians of the first pool in the chain     *)
(* that has one.  Off office days only the Pantawid pool is asked.         *)
AaFilingChoices(type, req) ==
  LET chain == AaChain(type)
      In(i) == IF chain[i] = "pantawid" \/ aaDay.kind = "office"
               THEN AaChoice(AaPool(chain[i], aaDay.no) \ {req}) ELSE {}
      asked == {i \in DOMAIN chain : In(i) # {}}
      first == {i \in asked : \A j \in asked : i <= j}
  IN  UNION {{[who |-> k, pool |-> chain[i]] : k \in In(i)} : i \in first}

(* Mutant: the choice is trusted.                                          *)
AaTrusts(k, pool, day, req) == TRUE

(* canAutomaticallyAssign.                                                 *)
AaStillEligible(k, pool, day, req) == k # req /\ k \in AaPool(pool, day)

-----------------------------------------------------------------------------
(* What a save writes.                                                     *)

AaLockFree == aaJob = AaFree

AaNow == 1 + CHOOSE n \in {aaTurn[k] : k \in AaTechnicians} :
               \A k \in AaTechnicians : aaTurn[k] <= n

(* The row as k receives it now.                                           *)
AaGiven(r, k, status, waits) ==
  [r EXCEPT !.owner = k, !.status = status, !.waits = waits, !.at = AaNow, !.week = aaDay.week]

AaReturned(r) ==
  [r EXCEPT !.owner = AaNobody, !.status = "open", !.waits = FALSE, !.at = 0, !.week = 0]

AaCountTurn(k) == AaNow <= AaMaxTurns /\ aaTurn' = [aaTurn EXCEPT ![k] = AaNow]

(* unpauseNextWaitingTicketAndSetInProgress in table q: the oldest waiting *)
(* ticket of k starts, if nothing else of k's is active.                   *)
AaPromoted(q, k) ==
  LET own     == {t \in AaTickets : q[t].owner = k /\ q[t].status \in {"assigned", "in_progress", "pause"}}
      waiting == {t \in own : q[t].waits /\ q[t].status # "in_progress"}
  IN  IF own # waiting THEN q
      ELSE [t \in AaTickets |->
              IF t \in waiting /\ \A u \in waiting : t <= u
              THEN [q[t] EXCEPT !.status = "in_progress", !.waits = FALSE] ELSE q[t]]

(* A busy technician starts a new ticket only next to a breached one.      *)
AaReceptions(r, k) ==
  {AaGiven(r, k, "in_progress", FALSE) : x \in IF AaHeld(k, {"in_progress"}) # {} \/ ~AaBusy(k)
                                               THEN {0} ELSE {}}
  \cup {AaGiven(r, k, "assigned", TRUE) : x \in IF AaBusy(k) THEN {0} ELSE {}}

AaKeepDay == UNCHANGED <<aaStrategy, aaDay, aaAtt, aaMoves>>

-----------------------------------------------------------------------------
(* createTicket.                                                           *)

(* Whom a ticket administrator may name: somebody present or out of        *)
(* office, and for ordinary work neither requester nor filer.              *)
AaMayBeNamed(r, k) ==
  /\ aaAtt[aaDay.no][k] # "away"
  /\ IF r.type = "specialized" THEN k \in AaSpecialists ELSE k \notin {r.req, r.by}

(* Staff file for others; a requester who is not registered yet is being   *)
(* completed in the same transaction, and no choice knows who it will be.  *)
AaChooseForFiling(t) ==
  /\ AaLockFree /\ aaDay.kind # "overtime"
  /\ aaRow[t] = AaUnfiled /\ \A u \in AaTickets : u < t => aaRow[u] # AaUnfiled
  /\ \E f \in AaFilings :
       LET draft   == [AaUnfiled EXCEPT !.type = f.type, !.req = f.req, !.by = f.by, !.status = "open"]
           auto    == AaFilingChoices(f.type, f.req)
           none    == IF auto = {} THEN {[who |-> AaNobody, pool |-> "all"]} ELSE {}
           named   == {[who |-> k, pool |-> "named"] : k \in {n \in AaTechnicians : AaMayBeNamed(draft, n)}}
       IN  \E c \in auto \cup none \cup named :
             \E given \in IF c.who = AaNobody THEN {draft} ELSE AaReceptions(draft, c.who) :
               aaJob' = [AaFree EXCEPT !.op = "file", !.ticket = t, !.row = given, !.who = c.who,
                                       !.pool = c.pool, !.day = aaDay.no, !.pending = f.pending]
  /\ AaKeepDay /\ UNCHANGED <<aaRow, aaOpening, aaOwed, aaTurn>>

(* The pool is read again for the day it is now; the ticket of somebody    *)
(* no longer eligible is filed open.  The whole filing is refused when the *)
(* requester was pending and the choice fell on the filer.                 *)
AaFile ==
  LET j    == aaJob
      kept == /\ j.who # AaNobody
              /\ j.pool = "named" \/ AaStillEligible(j.who, j.pool, aaDay.no, j.row.req)
      refused == kept /\ j.pending /\ j.who = j.row.by /\ j.row.type # "specialized"
  IN  /\ j.op = "file"
      /\ IF refused THEN UNCHANGED <<aaRow, aaTurn>>
         ELSE IF kept THEN /\ aaRow' = [aaRow EXCEPT ![j.ticket] = [j.row EXCEPT !.at = AaNow]]
                           /\ AaCountTurn(j.who)
         ELSE /\ aaRow' = [aaRow EXCEPT ![j.ticket] = [AaReturned(j.row) EXCEPT !.waits = TRUE]]
              /\ UNCHANGED aaTurn
      /\ aaJob' = AaFree
      /\ AaKeepDay /\ UNCHANGED <<aaOpening, aaOwed>>

-----------------------------------------------------------------------------
(* Handlers that hand out tickets already filed.                           *)

AaOpenFor(k) == {t \in AaTickets : /\ aaRow[t].status = "open" /\ aaRow[t].owner = AaNobody
                                   /\ aaRow[t].type # "specialized" /\ aaRow[t].req # k}

AaOldest(T) == {t \in T : \A u \in T : t <= u}

AaPendingTypes(team) ==
  IF team = "pantawid" THEN <<"pantawid", "desktop", "it">> ELSE AaChain(team)

(* The oldest open ticket of the first type in order that has one.         *)
AaPickable(k) ==
  LET order == AaPendingTypes(AaTeam[k])
      Of(i) == {t \in AaOpenFor(k) : aaRow[t].type = order[i]}
      first == {i \in DOMAIN order : Of(i) # {} /\ \A j \in 1..(i - 1) : Of(j) = {}}
  IN  UNION {AaOldest(Of(i)) : i \in first}

AaTake(op, k, t, given, pool) ==
  aaJob' = [AaFree EXCEPT !.op = op, !.ticket = t, !.row = given, !.who = k, !.pool = pool,
                          !.day = aaDay.no]

(* assignPendingTicketsOnLogin.                                            *)
AaChooseForPickup(k) ==
  /\ AaLockFree
  /\ AaTeam[k] = "pantawid" \/ aaDay.kind = "office"
  /\ k \in AaPool(AaTeam[k], aaDay.no)
  /\ IF aaStrategy = "robin" THEN AaBelowCap(k) ELSE ~AaBusy(k)
  /\ \E t \in AaPickable(k) : \E given \in AaReceptions(aaRow[t], k) :
       AaTake("pickup", k, t, given, AaTeam[k])
  /\ AaKeepDay /\ UNCHANGED <<aaRow, aaOpening, aaOwed, aaTurn>>

(* The handoff after a finished ticket: k's own queue first, and then the  *)
(* oldest open ticket of whatever type.                                    *)
AaChooseForHandoff(k) ==
  LET queued == AaPromoted(aaRow, k)
      idle   == {t \in AaHeld(k, {"assigned", "in_progress"}) :
                   ~aaRow[t].waits \/ aaRow[t].status = "in_progress"} = {}
      waiting == {t \in AaHeld(k, {"assigned", "pause"}) : aaRow[t].waits}
      offered == IF /\ k \in AaPool("all", aaDay.no) /\ idle /\ waiting = {}
                    /\ aaStrategy = "robin" => AaBelowCap(k)
                 THEN AaOldest(AaOpenFor(k)) ELSE {}
  IN  /\ AaLockFree
      /\ k \in aaOwed /\ aaOwed' = aaOwed \ {k}
      /\ IF queued # aaRow THEN aaRow' = queued /\ UNCHANGED aaJob
         ELSE IF k \in AaPool("all", aaDay.no) /\ idle /\ waiting # {}
         THEN /\ aaRow' = [t \in AaTickets |->
                  IF t \in AaOldest(waiting)
                  THEN [aaRow[t] EXCEPT !.status = "in_progress", !.waits = FALSE] ELSE aaRow[t]]
              /\ UNCHANGED aaJob
         ELSE IF offered = {} THEN UNCHANGED <<aaRow, aaJob>>
         ELSE /\ \E t \in offered : AaTake("handoff", k, t, AaGiven(aaRow[t], k, "in_progress", FALSE), "all")
              /\ UNCHANGED aaRow
      /\ AaKeepDay /\ UNCHANGED <<aaOpening, aaTurn>>

(* Both save what they read, if k is still in the pool of the day they     *)
(* began on.                                                               *)
AaHandOut ==
  LET j == aaJob
  IN  /\ j.op \in {"pickup", "handoff"}
      /\ IF AaStillEligible(j.who, j.pool, j.day, j.row.req)
         THEN /\ aaRow' = [aaRow EXCEPT ![j.ticket] = [j.row EXCEPT !.at = AaNow]]
              /\ AaCountTurn(j.who)
         ELSE UNCHANGED <<aaRow, aaTurn>>
      /\ aaJob' = AaFree
      /\ AaKeepDay /\ UNCHANGED <<aaOpening, aaOwed>>

(* assignTicketInternal: the new owner's workload decides, and the queue   *)
(* of the previous owner moves.                                            *)
AaMoved(t, k) ==
  LET r == AaGiven(aaRow[t], k, IF aaRow[t].status = "pause" THEN "pause"
                                ELSE IF AaBusy(k) THEN "assigned" ELSE "in_progress", AaBusy(k))
  IN  AaPromoted([aaRow EXCEPT ![t] = r], aaRow[t].owner)

AaAssign(t, k) ==
  /\ AaLockFree
  /\ aaRow[t].status \in {"open", "assigned", "in_progress", "pause"} /\ aaRow[t].owner # k
  /\ AaMayBeNamed(aaRow[t], k)
  /\ aaRow' = AaMoved(t, k)
  /\ AaCountTurn(k)
  /\ AaKeepDay /\ UNCHANGED <<aaJob, aaOpening, aaOwed>>

-----------------------------------------------------------------------------
(* A technician who is away.                                               *)

(* autoReassignAttendanceAlertTickets: an administrator offers what an     *)
(* absent technician still has to whoever is idle.                         *)
AaReadAlert(k) ==
  /\ AaLockFree
  /\ aaDay.kind = "office" /\ aaAtt[aaDay.no][k] = "away"
  /\ AaHeld(k, {"assigned", "in_progress"}) # {}
  /\ aaJob' = [AaFree EXCEPT !.op = "alert", !.who = k, !.day = aaDay.no,
                             !.todo = AaHeld(k, {"assigned", "in_progress"})]
  /\ AaKeepDay /\ UNCHANGED <<aaRow, aaOpening, aaOwed, aaTurn>>

(* One ticket: the row is read again and a candidate picked ...            *)
AaPickForAlert(t) ==
  LET r == aaRow[t]
      candidates == {k \in AaPool(r.type, aaJob.day) \ {aaJob.who, r.req, r.by} : ~AaBusy(k)}
      left == aaJob.todo \ {t}
  IN  /\ aaJob.op = "alert" /\ aaJob.ticket = 0 /\ t \in aaJob.todo
      /\ IF /\ r.type # "specialized" /\ r.owner = aaJob.who
            /\ r.status \in {"assigned", "in_progress"} /\ candidates # {}
         THEN \E k \in candidates : aaJob' = [aaJob EXCEPT !.ticket = t, !.row = r, !.pool = k, !.todo = left]
         ELSE aaJob' = IF left = {} THEN AaFree ELSE [aaJob EXCEPT !.todo = left]
      /\ AaKeepDay /\ UNCHANGED <<aaRow, aaOpening, aaOwed, aaTurn>>

(* updatedAt is the one the choice was made on.                            *)
AaSameVersion(t) == aaRow[t] = aaJob.row

(* ... and assigned, if nothing has changed since.                         *)
AaAssignForAlert ==
  LET t == aaJob.ticket
      k == aaJob.pool
  IN  /\ aaJob.op = "alert" /\ t # 0
      /\ IF AaSameVersion(t) /\ AaStillEligible(k, aaJob.row.type, aaJob.day, aaJob.row.req)
         THEN aaRow' = AaMoved(t, k) /\ AaCountTurn(k)
         ELSE UNCHANGED <<aaRow, aaTurn>>
      /\ aaJob' = IF aaJob.todo = {} THEN AaFree
                  ELSE [aaJob EXCEPT !.ticket = 0, !.row = AaUnfiled, !.pool = "all"]
      /\ AaKeepDay /\ UNCHANGED <<aaOpening, aaOwed>>

-----------------------------------------------------------------------------
(* updateTicket, which does not hold the lock.                             *)

(* Back to open: a technician of the ticket's own type is chosen, the one  *)
(* with the fewest tickets or by round robin; the requester is not left    *)
(* out.                                                                    *)
AaOpeningChoices(r) ==
  LET pool == IF r.type # "specialized" /\ (r.type = "pantawid" \/ aaDay.kind = "office")
              THEN AaPool(r.type, aaDay.no) ELSE {}
      Open(k) == Cardinality(AaHeld(k, {"assigned", "in_progress"}))
  IN  IF aaStrategy = "robin" THEN AaRobinChoice(pool)
      ELSE {k \in pool : \A j \in pool : Open(k) <= Open(j)}

AaReadOpening(t) ==
  LET choices == AaOpeningChoices(aaRow[t])
  IN  /\ aaOpening = AaFree
      /\ aaRow[t].status \in {"in_progress", "resolved"}
      /\ \E k \in IF choices = {} THEN {AaNobody} ELSE choices :
           aaOpening' = [AaFree EXCEPT !.op = "open", !.ticket = t, !.row = aaRow[t], !.who = k]
      /\ AaKeepDay /\ UNCHANGED <<aaRow, aaJob, aaOwed, aaTurn>>

AaOpen ==
  LET o == aaOpening
  IN  /\ o.op = "open"
      /\ IF aaRow[o.ticket] # o.row THEN UNCHANGED <<aaRow, aaTurn>>
         ELSE IF o.who # AaNobody /\ AaStillEligible(o.who, o.row.type, aaDay.no, o.row.req)
         THEN /\ aaRow' = [aaRow EXCEPT ![o.ticket] = AaGiven(o.row, o.who, "assigned", FALSE)]
              /\ AaCountTurn(o.who)
         ELSE aaRow' = [aaRow EXCEPT ![o.ticket] = AaReturned(o.row)] /\ UNCHANGED aaTurn
      /\ aaOpening' = AaFree
      /\ AaKeepDay /\ UNCHANGED <<aaJob, aaOwed>>

(* Mutant: a ticket without an owner can be resolved.                      *)
AaWorkOnAnything(t) ==
  /\ aaRow[t].status = "open"
  /\ aaRow' = [aaRow EXCEPT ![t].status = "resolved"]
  /\ aaOwed' = aaOwed \cup {aaRow[t].owner}
  /\ AaKeepDay /\ UNCHANGED <<aaJob, aaOpening, aaTurn>>

(* The owner works: starts, pauses, resolves.                              *)
AaWork(t) ==
  /\ \/ /\ aaRow[t].status = "assigned" /\ ~aaRow[t].waits
        /\ aaRow' = [aaRow EXCEPT ![t].status = "in_progress"] /\ UNCHANGED aaOwed
     \/ /\ aaRow[t].status = "in_progress"
        /\ aaRow' = [aaRow EXCEPT ![t].status = "pause"] /\ UNCHANGED aaOwed
     \/ /\ aaRow[t].status = "in_progress"
        /\ aaRow' = [aaRow EXCEPT ![t].status = "resolved"]
        /\ aaOwed' = aaOwed \cup {aaRow[t].owner}
  /\ AaKeepDay /\ UNCHANGED <<aaJob, aaOpening, aaTurn>>

-----------------------------------------------------------------------------
(* Attendance and the calendar.                                            *)

AaAttend(k, status) ==
  /\ aaMoves < AaMaxMoves /\ aaMoves' = aaMoves + 1
  /\ aaAtt[aaDay.no][k] # status
  /\ aaAtt' = [aaAtt EXCEPT ![aaDay.no][k] = status]
  /\ UNCHANGED <<aaRow, aaStrategy, aaDay, aaJob, aaOpening, aaOwed, aaTurn>>

(* Midnight in Manila, which may also begin a week.                        *)
AaNewDay(kind, weeks) ==
  /\ aaDay.no < AaLastDay
  /\ aaDay' = [no |-> aaDay.no + 1, week |-> aaDay.week + weeks, kind |-> kind]
  /\ UNCHANGED <<aaRow, aaStrategy, aaAtt, aaJob, aaOpening, aaOwed, aaTurn, aaMoves>>

AaNext ==
  \/ \E t \in AaTickets : AaChooseForFiling(t) \/ AaPickForAlert(t)
                          \/ AaReadOpening(t) \/ AaWork(t)
  \/ AaFile \/ AaHandOut \/ AaAssignForAlert \/ AaOpen
  \/ \E k \in AaTechnicians : AaChooseForPickup(k) \/ AaChooseForHandoff(k)
                              \/ AaReadAlert(k)
  \/ \E t \in AaTickets, k \in AaTechnicians : AaAssign(t, k)
  \/ \E k \in AaTechnicians, s \in {"available", "withheld", "away"} : AaAttend(k, s)
  \/ \E kind \in {"office", "free", "overtime"}, w \in {0, 1} : AaNewDay(kind, w)

-----------------------------------------------------------------------------
(* Properties.                                                             *)

(* Ordinary work never belongs to the person who asked for it, although    *)
(* sending a ticket back to open chooses without looking at the requester  *)
(* and the round robin does not look at workloads again (ticket.service    *)
(* 1141-1157, 1379-1387).                                                  *)
AaNobodyServesThemselves ==
  \A t \in AaTickets : aaRow[t].type = "specialized" \/ aaRow[t].owner # aaRow[t].req

(* A filing that was chosen before midnight, or before the chosen          *)
(* technician left or opted out, hands the ticket to nobody who is not     *)
(* there now (the date is taken anew at 1830-1832).                        *)
AaFilingLooksAgain ==
  \A t \in AaTickets :
       (aaJob.op = "file" /\ aaJob.pool # "named" /\ aaRow[t].owner = AaNobody /\
        aaRow'[t].owner # AaNobody /\ aaJob.ticket = t)
       => aaAtt[aaDay.no][aaRow'[t].owner] = "available"

(* Nobody has received a ticket since the handler made its choice.  Only a *)
(* ticket sent back to open can be received meanwhile.                     *)
AaUndisturbed == aaJob.row.at = AaNow

(* Under the round robin a ticket nobody was named for goes to a           *)
(* technician below the weekly cap: whatever hands out tickets under the   *)
(* lock, only a ticket that was sent back to open meanwhile can push a     *)
(* technician past it (1379-1387 does not count again).                    *)
AaCapHolds ==
  \A k \in AaTechnicians :
       (/\ aaStrategy = "robin" /\ aaJob.op \in {"file", "pickup", "handoff"} /\ aaJob.pool # "named"
        /\ aaRow[aaJob.ticket].owner = AaNobody /\ aaRow'[aaJob.ticket].owner = k)
       => AaLoad(k) < AaCap \/ ~AaUndisturbed

(* Under the round robin a filing passes over an eligible technician who   *)
(* waits longer only when the ticket that made the chosen one wait was     *)
(* taken away again: lastAssignedAt is looked up on the tickets that are   *)
(* theirs now (1649-1662).                                                 *)
AaTurnsAreKept ==
  (/\ aaJob.op = "none" /\ aaJob'.op = "file" /\ aaStrategy = "robin"
      /\ aaJob'.who # AaNobody /\ aaJob'.pool # "named")
     => \A j \in AaPool(aaJob'.pool, aaDay.no) \ {aaJob'.row.req} :
          \/ aaTurn[j] >= aaTurn[aaJob'.who]
          \/ ~AaBelowCap(j)
          \/ \A t \in AaTickets : aaRow[t].owner = aaJob'.who => aaRow[t].at # aaTurn[aaJob'.who]

(* A ticket handed to an idle technician starts at once, so it must find   *)
(* nothing of theirs under way when it is saved, whatever ran since the    *)
(* choice; a ticket sent back to open may come in between (5505, 5543).    *)
AaStartsAlone ==
  \A t \in AaTickets :
       (/\ aaJob.op \in {"pickup", "handoff"} /\ aaJob.ticket = t /\ aaStrategy = "zero"
        /\ aaRow[t].owner = AaNobody /\ aaRow'[t].status = "in_progress")
       => AaHeld(aaJob.who, {"in_progress"}) = {} \/ ~AaUndisturbed

(* A finished ticket is put back to work only by a request to reopen it;   *)
(* an alert that chose a new owner while it was being finished leaves it   *)
(* finished.                                                               *)
AaFinishedStays ==
  \A t \in AaTickets :
       (aaRow[t].status = "resolved" /\ aaRow'[t].status # "resolved")
       => aaOpening.op = "open" /\ aaOpening.ticket = t

(* Whatever is received keeps its shape and belongs to somebody else than  *)
(* the person who asked for it.                                            *)
AaOwnersFit == AaTypeOK /\ AaNobodyServesThemselves

(* What was true of the technician a handler chose is still true, or looked*)
(* at again, when it saves (createTicket, pickup, handoff, alert).         *)
AaChoicesHold ==
  [][AaFilingLooksAgain /\ AaCapHolds /\ AaTurnsAreKept /\ AaStartsAlone /\ AaFinishedStays]_aaVars

AaSpec == AaInit /\ [][AaNext]_aaVars
=============================================================================
