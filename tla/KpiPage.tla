------------------------------ MODULE KpiPage ------------------------------
(***************************************************************************)
(* The KPI page: the selected period and unit filter, and the panes filled *)
(* from a chain of requests that reads the unit of the detail pane from a  *)
(* ref half way.  Nothing cancels a chain, so chains of an earlier         *)
(* selection may answer after those of a later one.                        *)
(***************************************************************************)
EXTENDS Naturals

CONSTANTS KpiUnits, KpiPeriods,
          WithRows,     \* <<period, unit>> with KPI values
          NoUnit, NoPane,
          Chains,       \* slots for chains of requests in progress
          MaxViewChanges

ASSUME KpiPageAssumption ==
  /\ WithRows \subseteq KpiPeriods \X KpiUnits /\ MaxViewChanges \in Nat
  /\ KpiUnits # {} /\ NoUnit \notin KpiUnits /\ NoPane \notin [unit : KpiUnits, period : KpiPeriods]

VARIABLES
  managing,    \* canManage
  ownUnit,     \* availableUnits[0]
  view,        \* the selected period and unit filter
  chains,      \* each chain's next answer, with the selection it was started for
  panes,       \* what summary, rows, plans and series were loaded for
  detail,      \* unit and period of the detail pane
  selectedUnit,\* selectedUnitIdRef
  overtaken,     \* the selection or the detail changed under a chain, or one failed
  viewChanges
pageVars == <<managing, ownUnit, view, chains, panes, detail, selectedUnit, overtaken, viewChanges>>

NoChain == [at |-> "idle", rowsDue |-> FALSE, period |-> 0, filter |-> NoUnit, unit |-> NoUnit]
Busy == \E l \in Chains : chains[l] # NoChain

----------------------------------------------------------------------------
availableUnits == IF managing THEN KpiUnits ELSE {ownUnit}

hasDataFor(period) == period # NoPane /\ \E u \in availableUnits : <<period, u>> \in WithRows

\* The detail pane is on the page.
detailShown == hasDataFor(panes.series) /\ detail # NoPane

\* The effect on loadMonitoring and loadDashboard runs when what they depend on changes.
reloads(old, new) == old # new

started(v) == [at |-> "summary", rowsDue |-> TRUE, period |-> v.period, filter |-> v.filter, unit |-> NoUnit]

\* The filters at the top of the page; without canManage the unit filter is fixed.
ChangeView(p, f) ==
  LET new == [period |-> p, filter |-> f] IN
  /\ new # view /\ viewChanges < MaxViewChanges /\ viewChanges' = viewChanges + 1
  /\ managing \/ f = ownUnit
  /\ view' = new
  /\ IF reloads(view, new)
       THEN \E l \in Chains : chains[l] = NoChain /\ chains' = [chains EXCEPT ![l] = started(new)]
       ELSE UNCHANGED chains
  /\ overtaken' = Busy
  /\ UNCHANGED <<managing, ownUnit, panes, detail, selectedUnit>>

\* Refresh, a save, or a live event loads the same selection again.
Reload ==
  /\ viewChanges < MaxViewChanges /\ viewChanges' = viewChanges + 1
  /\ \E l \in Chains : chains[l] = NoChain /\ chains' = [chains EXCEPT ![l] = started(view)]
  /\ overtaken' = (Busy /\ (overtaken \/ \E l \in Chains : chains[l].at = "open"))
  /\ UNCHANGED <<managing, ownUnit, view, panes, detail, selectedUnit>>

\* The end of a chain, unless its rows are still due.
endOf(c) == IF c.rowsDue THEN [c EXCEPT !.at = "rows"] ELSE NoChain

RowsAnswer(l) ==
  LET c == chains[l] IN
  /\ c.rowsDue
  /\ panes' = [panes EXCEPT !.rows = [period |-> c.period, filter |-> c.filter]]
  /\ chains' = [chains EXCEPT ![l] = IF c.at = "rows" THEN NoChain ELSE [c EXCEPT !.rowsDue = FALSE]]
  /\ UNCHANGED <<managing, ownUnit, view, detail, selectedUnit, overtaken, viewChanges>>

SummaryAnswers(l) ==
  /\ chains[l].at = "summary"
  /\ panes' = [panes EXCEPT !.summary = chains[l].period]
  /\ chains' = [chains EXCEPT ![l].at = "plans"]
  /\ UNCHANGED <<managing, ownUnit, view, detail, selectedUnit, overtaken, viewChanges>>

PlansAnswer(l) ==
  LET c == chains[l] IN
  /\ c.at = "plans"
  /\ panes' = [panes EXCEPT !.plans = [period |-> c.period, filter |-> c.filter]]
  /\ chains' = [chains EXCEPT ![l].at = "series"]
  /\ UNCHANGED <<managing, ownUnit, view, detail, selectedUnit, overtaken, viewChanges>>

\* The unit whose detail the chain asks for: one's own, the filter's, or the open one.
detailUnit(c) ==
  IF ~managing THEN ownUnit ELSE IF c.filter # NoUnit THEN c.filter ELSE selectedUnit

\* The series arrive, the chain goes on with the detail, and only then does the effect
\* close the pane when there is no data any more.
SeriesAnswer(l) ==
  LET c == chains[l]
      unit == detailUnit(c)
      closes == hasDataFor(panes.series) /\ ~hasDataFor(c.period)
  IN  /\ c.at = "series"
      /\ panes' = [panes EXCEPT !.series = c.period]
      /\ chains' = [chains EXCEPT ![l] = IF unit = NoUnit THEN endOf(c)
                                         ELSE [c EXCEPT !.at = "detail", !.unit = unit]]
      /\ detail' = IF closes THEN NoPane ELSE detail
      /\ selectedUnit' = IF closes THEN NoUnit ELSE IF managing /\ c.filter # NoUnit THEN c.filter ELSE selectedUnit
      /\ UNCHANGED <<managing, ownUnit, view, overtaken, viewChanges>>

DetailAnswers(l) ==
  LET c == chains[l] IN
  /\ c.at = "detail"
  /\ detail' = [unit |-> c.unit, period |-> c.period]
  /\ selectedUnit' = IF managing THEN selectedUnit ELSE ownUnit
  /\ chains' = [chains EXCEPT ![l] = endOf(c)]
  /\ UNCHANGED <<managing, ownUnit, view, panes, overtaken, viewChanges>>

\* The remaining panes of a failed chain keep what they show.
ChainFails(l) ==
  /\ chains[l].at \in {"summary", "plans", "series", "detail", "open"}
  /\ chains' = [chains EXCEPT ![l] = endOf(chains[l])]
  /\ overtaken' = TRUE
  /\ UNCHANGED <<managing, ownUnit, view, panes, detail, selectedUnit, viewChanges>>

\* The rows of the unit table open the detail; they are listed with data only.
OpenUnit(u) ==
  /\ u \in availableUnits /\ hasDataFor(panes.series)
  /\ viewChanges < MaxViewChanges /\ viewChanges' = viewChanges + 1
  /\ selectedUnit' = u
  /\ \E l \in Chains :
       /\ chains[l] = NoChain
       /\ chains' = [chains EXCEPT ![l] = [NoChain EXCEPT !.at = "open", !.period = view.period, !.unit = u]]
  /\ overtaken' = (overtaken \/ Busy)
  /\ UNCHANGED <<managing, ownUnit, view, panes, detail>>

OpenAnswers(l) ==
  /\ chains[l].at = "open"
  /\ detail' = [unit |-> chains[l].unit, period |-> chains[l].period]
  /\ chains' = [chains EXCEPT ![l] = NoChain]
  /\ UNCHANGED <<managing, ownUnit, view, panes, selectedUnit, overtaken, viewChanges>>

\* closeUnitDetail forgets the unit as well.
unitAfterClose == NoUnit

CloseUnitDetail ==
  /\ detailShown /\ viewChanges < MaxViewChanges /\ viewChanges' = viewChanges + 1
  /\ detail' = NoPane /\ selectedUnit' = unitAfterClose
  /\ overtaken' = (overtaken \/ Busy)
  /\ UNCHANGED <<managing, ownUnit, view, chains, panes>>

----------------------------------------------------------------------------
KpiPageInit ==
  /\ managing \in BOOLEAN /\ ownUnit = CHOOSE u \in KpiUnits : TRUE
  /\ \E p \in KpiPeriods :
       /\ view = [period |-> p, filter |-> IF managing THEN NoUnit ELSE ownUnit]
       /\ \E l \in Chains : chains = [k \in Chains |-> IF k = l THEN started(view) ELSE NoChain]
  /\ panes = [summary |-> NoPane, rows |-> NoPane, plans |-> NoPane, series |-> NoPane]
  /\ detail = NoPane /\ selectedUnit = NoUnit /\ overtaken = FALSE /\ viewChanges = 0

KpiPageNext ==
  \/ \E p \in KpiPeriods, f \in KpiUnits \cup {NoUnit} : ChangeView(p, f)
  \/ Reload \/ CloseUnitDetail
  \/ \E u \in KpiUnits : OpenUnit(u)
  \/ \E l \in Chains : \/ RowsAnswer(l) \/ SummaryAnswers(l) \/ PlansAnswer(l) \/ SeriesAnswer(l)
                       \/ DetailAnswers(l) \/ OpenAnswers(l) \/ ChainFails(l)

KpiPageSpec == KpiPageInit /\ [][KpiPageNext]_pageVars

----------------------------------------------------------------------------
\* Once every request of a selection has answered and none was overtaken by a change
\* or failed, all panes show that selection (loadMonitoring and loadDashboard each take
\* several of the selection's parts).
PanesShowTheSelection ==
  ~Busy /\ ~overtaken =>
    /\ panes.summary = view.period /\ panes.series = view.period
    /\ panes.rows = view /\ panes.plans = view

\* Then the detail pane shows the selected period too, of the unit the ref remembers.
\* A pane the ref has forgotten is exempt: the effect that closes it forgets the unit
\* while the chain still asks for the detail, so the pane returns without a unit to
\* refresh it for (loadDashboard, and the effect on hasDataForPeriod).
DetailFollowsItsUnit ==
  ~Busy /\ ~overtaken /\ detail # NoPane /\ selectedUnit # NoUnit =>
    detail = [unit |-> selectedUnit, period |-> view.period]

\* A unit's detail is refreshed with every later selection, so its unit is forgotten
\* whenever the pane is closed; without canManage only one's own unit is remembered.
ClosedMeansForgotten ==
  /\ ~Busy /\ ~overtaken /\ selectedUnit # NoUnit => detail # NoPane
  /\ ~managing => selectedUnit \in {NoUnit, ownUnit} /\ view.filter = ownUnit
=============================================================================
