------------------------ MODULE InterruptionHistory ------------------------
(***************************************************************************)
(* The pauses and freezes of one ticket as they were, as the ticket itself *)
(* records them since it does, and as a report reconstructs the older ones *)
(* from three trails: the ticket's events and the audit log, written after *)
(* the change and lost when that fails, and the justifications, written    *)
(* before it.  Two changes are more than the five seconds apart in which   *)
(* the copies of one are looked for; tickets waiting in a queue are left   *)
(* out.                                                                    *)
(***************************************************************************)
EXTENDS Integers, Sequences, FiniteSets, SequencesExt

CONSTANTS LastInstant, MaxIhChanges, MaxLost, Unknown

ASSUME IhAssumption == LastInstant \in Nat /\ MaxIhChanges \in Nat /\ MaxLost \in Nat

VARIABLES
  ihNow,
  ihRecords,      \* the release that records interruptions is installed
  ihAudited,      \* the audit log can be read
  ihTicket,       \* status, slaPausedAt, resolvedAt, history
  ihTrail,        \* the evidence kept, in the order written
  ihTrue,         \* history variable: the interruptions as they were
  ihLost,         \* history variable: copies lost
  ihMissed,       \* history variable: changes no trail shows
  ihChanges,
  ihChangedAt     \* when the status changed last
ihVars == <<ihNow, ihRecords, ihAudited, ihTicket, ihTrail, ihTrue, ihLost, ihMissed, ihChanges, ihChangedAt>>

Held == {"pause", "freeze"}
Endless == LastInstant + 1      \* later than any instant

----------------------------------------------------------------------------
(* What the ticket records of itself                                       *)

endLast(ivs) == IF ivs # <<>> /\ Last(ivs).end = Endless THEN [ivs EXCEPT ![Len(ivs)].end = ihNow] ELSE ivs
opened(ivs, to) == IF to \in Held THEN Append(ivs, [kind |-> to, start |-> ihNow, end |-> Endless]) ELSE ivs

advanced(ivs, from, to) == opened(endLast(ivs), to)

recordInterruptionTransition(h, from, to) ==
  IF from = to \/ {from, to} \cap Held = {} THEN h
  ELSE LET usable == IF h = Unknown THEN [capturedFrom |-> ihNow, complete |-> FALSE, intervals |-> <<>>] ELSE h
       IN  [usable EXCEPT !.intervals = advanced(@, from, to)]

----------------------------------------------------------------------------
(* Status changes and the trails they leave                                *)

After(st) == CASE st = "open" -> {"in_progress"}
               [] st = "in_progress" -> {"pause", "freeze", "resolved"}
               [] st \in Held -> {"in_progress", "resolved", st}
               [] st = "resolved" -> {"closed"}
               [] OTHER -> {}

\* An assignment is no status event; a ticket closed by its requester is one
\* without the status before; a hold held again is an extension.
trailOf(from, to, own) ==
  LET item(src, type, was) == [source |-> src, type |-> type, at |-> ihNow, from |-> was, to |-> to,
                               pausedAt |-> IF src = "audit" THEN ihTicket.pausedAt ELSE Unknown]
  IN  (IF from = "open" THEN {}
       ELSE {item("event", IF from = to THEN "extension" ELSE "transition", IF own THEN Unknown ELSE from)})
      \cup (IF from = to \/ ~ihAudited THEN {} ELSE {item("audit", "transition", from)})

Change(to, own, kept) ==
  LET from == ihTicket.st
      whole == trailOf(from, to, own)
      just == IF to \in Held THEN <<[source |-> "justification", type |-> "justification", at |-> ihNow,
                                     from |-> Unknown, to |-> to, pausedAt |-> Unknown]>> ELSE <<>>
  IN  /\ ihChanges < MaxIhChanges /\ ihChangedAt < ihNow /\ to \in After(from) /\ (own => to = "closed")
      /\ kept \subseteq whole
      /\ ihLost' = ihLost + Cardinality(whole \ kept) /\ ihLost' <= MaxLost
      /\ ihMissed' = IF kept = {} /\ from # to THEN ihMissed + 1 ELSE ihMissed
      /\ ihTrail' = ihTrail \o just \o SetToSeq(kept)
      /\ ihTicket' = [st |-> to,
                      pausedAt |-> IF to \in Held /\ from # to THEN ihNow
                                   ELSE IF to \in Held THEN ihTicket.pausedAt ELSE Unknown,
                      resolvedAt |-> IF to = "resolved" THEN ihNow ELSE ihTicket.resolvedAt,
                      history |-> IF ihRecords THEN recordInterruptionTransition(ihTicket.history, from, to)
                                  ELSE ihTicket.history]
      /\ ihTrue' = IF from = to THEN ihTrue ELSE opened(endLast(ihTrue), to)
      /\ ihChanges' = ihChanges + 1 /\ ihChangedAt' = ihNow
      /\ UNCHANGED <<ihNow, ihRecords, ihAudited>>

Install == ~ihRecords /\ ihRecords' = TRUE
           /\ UNCHANGED <<ihNow, ihAudited, ihTicket, ihTrail, ihTrue, ihLost, ihMissed, ihChanges, ihChangedAt>>

Pass == ihNow < LastInstant /\ ihNow' = ihNow + 1
        /\ UNCHANGED <<ihRecords, ihAudited, ihTicket, ihTrail, ihTrue, ihLost, ihMissed, ihChanges, ihChangedAt>>

\* A ticket filed since the release has its whole history
IhInit ==
  /\ ihNow = 0 /\ ihChangedAt = 0 /\ ihRecords \in BOOLEAN /\ ihAudited \in BOOLEAN
  /\ \E st \in {"open", "in_progress"}, created \in SUBSET {"event", "audit"} :
       /\ "audit" \in created => ihAudited
       /\ ihTicket = [st |-> st, pausedAt |-> Unknown, resolvedAt |-> Unknown,
                      history |-> IF ihRecords THEN [capturedFrom |-> 0, complete |-> TRUE, intervals |-> <<>>]
                                  ELSE Unknown]
       /\ ihTrail = SetToSeq({[source |-> s, type |-> "created", at |-> 0, from |-> Unknown, to |-> st,
                               pausedAt |-> Unknown] : s \in created})
  /\ ihTrue = <<>> /\ ihLost = 0 /\ ihMissed = 0 /\ ihChanges = 0

IhNext ==
  \/ Install
  \/ Pass
  \/ \E to \in {"in_progress", "pause", "freeze", "resolved", "closed"}, own \in BOOLEAN :
       \E kept \in SUBSET trailOf(ihTicket.st, to, own) : Change(to, own, kept)

IhSpec == IhInit /\ [][IhNext]_ihVars

----------------------------------------------------------------------------
(* The reconstruction                                                      *)

hasRecordedMonthlyHistory(h, start) == h # Unknown /\ (h.complete \/ h.capturedFrom <= start)

recorded == IF ihTicket.history = Unknown THEN <<>> ELSE ihTicket.history.intervals
horizon == IF ihTicket.history = Unknown THEN ihNow ELSE ihTicket.history.capturedFrom

\* By time, the audit log's first, each trail in its own order
sorted == LET of(t, s) == SelectSeq(ihTrail, LAMBDA e : e.at = t /\ (e.source = "audit") = s)
          IN  FlattenSeq([t \in 1..(LastInstant + 1) |-> of(t - 1, TRUE) \o of(t - 1, FALSE)])

sameChange(x, y) == x.source # y.source /\ x.type = y.type /\ x.from = y.from /\ x.to = y.to /\ x.at = y.at

\* One change told by two trails is told once.
transitions == FoldLeft(LAMBDA acc, e : IF e.type = "transition" /\ \E k \in DOMAIN acc : sameChange(acc[k], e)
                                        THEN acc ELSE Append(acc, e),
                        <<>>, SelectSeq(sorted, LAMBDA e : e.type # "justification"))

justified(kind) == SelectSeq(sorted, LAMBDA e : e.type = "justification" /\ e.to = kind)

\* When an interruption nobody saw begin began: as the audit log or the ticket
\* dates it, else at its first justification since the last known state
recoverStart(kind, from, until, anchor) ==
  IF anchor # Unknown /\ anchor >= from /\ anchor <= until THEN anchor
  ELSE LET later == SelectSeq(justified(kind), LAMBDA e : e.at >= from)
       IN  IF later # <<>> /\ later[1].at <= until THEN later[1].at ELSE Unknown

emit(acc, end) ==
  LET clipped == IF end < horizon THEN end ELSE horizon
  IN  IF clipped > acc.open.start
      THEN [acc EXCEPT !.open = Unknown,
                       !.ivs = Append(@, [kind |-> acc.open.kind, start |-> acc.open.start, end |-> clipped])]
      ELSE [acc EXCEPT !.open = Unknown]
leftOpen(acc) == IF acc.open = Unknown THEN acc
                 ELSE [acc EXCEPT !.open = Unknown, !.unresolved = Append(@, acc.open)]

\* Past the horizon only the end of a running interruption counts
beyond(acc, e) ==
  LET ended == IF acc.open = Unknown THEN acc
               ELSE IF e.type = "transition" /\ e.from = acc.open.kind /\ e.to # acc.open.kind THEN emit(acc, e.at)
               ELSE IF ihTicket.history # Unknown THEN [emit(acc, horizon) EXCEPT !.coveredFrom = Endless]
               ELSE leftOpen(acc)
  IN  [ended EXCEPT !.stopped = TRUE]

\* Mutant: a change that starts from another status than the last one known is
\* taken without doubt
trusting(acc, e) == [acc EXCEPT !.state = e.from]
joined(acc, e) ==
  IF acc.state = Unknown \/ acc.state = e.from
  THEN [acc EXCEPT !.state = e.from, !.coveredFrom = IF acc.state = Unknown THEN e.at ELSE @]
  ELSE [leftOpen(acc) EXCEPT !.state = e.from, !.coveredFrom = e.at]

entered(acc, e) ==
  LET known == IF e.from # Unknown THEN joined(acc, e)
               ELSE IF acc.state = Unknown THEN [acc EXCEPT !.coveredFrom = e.at] ELSE acc
      since == recoverStart(e.from, acc.lastStateAt, e.at, e.pausedAt)
      found == IF e.from \in Held /\ known.open = Unknown
               THEN IF since # Unknown THEN [known EXCEPT !.open = [kind |-> e.from, start |-> since]]
                    ELSE [known EXCEPT !.coveredFrom = e.at]
               ELSE known
      ended == IF found.open # Unknown THEN emit(found, e.at) ELSE found
  IN  [ended EXCEPT !.state = e.to, !.lastStateAt = e.at,
                    !.open = IF e.to \in Held THEN [kind |-> e.to, start |-> e.at] ELSE Unknown]

followed(acc, e) ==
  IF acc.stopped THEN acc
  ELSE IF e.at > horizon THEN beyond(acc, e)
  ELSE IF e.type = "created"
  THEN IF acc.state # Unknown THEN acc
       ELSE [acc EXCEPT !.state = e.to, !.coveredFrom = 0, !.lastStateAt = 0, !.saw = TRUE]
  ELSE IF e.type = "extension" \/ (e.to = acc.state /\ e.from \in {Unknown, acc.state})
  THEN [acc EXCEPT !.saw = TRUE]
  ELSE [entered(acc, e) EXCEPT !.saw = TRUE]

walked == FoldLeft(followed, [state |-> Unknown, open |-> Unknown, coveredFrom |-> Endless, lastStateAt |-> 0,
                              saw |-> FALSE, stopped |-> FALSE, ivs |-> <<>>, unresolved |-> <<>>], transitions)

\* A hold nobody saw begin, of a ticket on hold now
present(acc) ==
  LET since == recoverStart(ihTicket.st, acc.lastStateAt, ihNow, ihTicket.pausedAt)
  IN  IF acc.open # Unknown \/ ihTicket.st \notin Held \/ ihTicket.history # Unknown
         \/ since = Unknown \/ \E k \in DOMAIN acc.ivs : acc.ivs[k].start = since
      THEN acc
      ELSE [acc EXCEPT !.open = [kind |-> ihTicket.st, start |-> since], !.saw = TRUE,
                       !.coveredFrom = IF acc.state # ihTicket.st THEN Endless ELSE @]

\* What is still open is open now, or ended with the completion
closedOff(acc) ==
  IF acc.open = Unknown THEN acc
  ELSE IF ihTicket.history # Unknown \/ ihTicket.st = acc.open.kind THEN emit(acc, horizon)
  ELSE IF ihTicket.st \in {"resolved", "closed"} /\ ihTicket.resolvedAt # Unknown
          /\ ihTicket.resolvedAt >= acc.open.start
  THEN [emit(acc, ihTicket.resolvedAt) EXCEPT !.coveredFrom = Endless]
  ELSE leftOpen(acc)

endsInStatus(acc) ==
  LET finished == {"resolved", "closed"}
  IN  IF ihTicket.history = Unknown /\ acc.state # ihTicket.st
         /\ ~(acc.state \in finished /\ ihTicket.st \in finished)
      THEN [acc EXCEPT !.coveredFrom = Endless] ELSE acc

reconstructReportInterruptions(start) ==
  IF hasRecordedMonthlyHistory(ihTicket.history, start)
  THEN [intervals |-> recorded, complete |-> TRUE, unresolved |-> <<>>]
  ELSE LET acc == endsInStatus(closedOff(present(walked)))
       IN  [intervals |-> SelectSeq(acc.ivs, LAMBDA v : v.start < horizon) \o recorded,
            complete |-> /\ acc.ivs # <<>> \/ acc.unresolved # <<>> \/ acc.saw
                         /\ acc.coveredFrom <= start
                         /\ \A k \in DOMAIN acc.unresolved : acc.unresolved[k].start >= ihNow,
            unresolved |-> acc.unresolved]

----------------------------------------------------------------------------
(* Properties                                                              *)

\* As the builder counts them: from the begin of the report to the completion
countedUntil == IF ihTicket.st \in {"resolved", "closed"} THEN ihTicket.resolvedAt ELSE ihNow
clip(ivs, start) ==
  LET last(v) == IF v.end > countedUntil THEN countedUntil ELSE v.end
      first(v) == IF v.start < start THEN start ELSE v.start
  IN  {[kind |-> ivs[k].kind, start |-> first(ivs[k]), end |-> last(ivs[k])] :
         k \in {j \in DOMAIN ivs : last(ivs[j]) > first(ivs[j])}}

\* What the ticket records is in order, and nothing runs on but the last.
IhTypeOK ==
  /\ \A k \in DOMAIN recorded : /\ recorded[k].start <= recorded[k].end
                                /\ k > 1 => recorded[k - 1].end <= recorded[k].start
                                /\ recorded[k].end = Endless => k = Len(recorded) /\ ihTicket.st = recorded[k].kind
  /\ ihTicket.pausedAt # Unknown <=> ihTicket.st \in Held

\* A history reported as complete is what happened since the begin of the
\* report, although of one change no trail may tell.
CompleteIsTrue ==
  \A start \in 0..(ihNow - 1) :
    LET r == reconstructReportInterruptions(start)
    IN  ihMissed <= 1 /\ r.complete => clip(r.intervals, start) = clip(ihTrue, start)

\* Whatever is lost, no instant is counted twice.
NoInstantTwice ==
  \A start \in 0..(ihNow - 1) :
    LET ivs == reconstructReportInterruptions(start).intervals
    IN  \A j, k \in DOMAIN ivs : j < k => ivs[j].end <= ivs[k].start \/ ivs[k].end <= ivs[j].start

\* As long as no copy is lost, everything that is known is found, whether the
\* audit log can be read or not.
NothingMissedUnlessLost ==
  \A start \in 0..(ihNow - 1) :
    ihLost = 0 => clip(reconstructReportInterruptions(start).intervals, start) = clip(ihTrue, start)

\* A history rebuilt from the trails counts nothing twice, misses nothing that is
\* on some trail, and is called complete only when it is.
HistoryIsTrue == IhTypeOK /\ CompleteIsTrue /\ NoInstantTwice /\ NothingMissedUnlessLost
=============================================================================
