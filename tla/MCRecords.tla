----------------------------- MODULE MCRecords -----------------------------
(***************************************************************************)
(* Signing in with a second factor, the report snapshots, the quarterly    *)
(* assessments, the KPI values and the KPI page, each by itself: `part`    *)
(* settles which of them a behaviour is about, and the others stay in one  *)
(* of their initial states.                                                *)
(***************************************************************************)
EXTENDS SignIn, ReportSnapshots, ComplianceAssessments, KpiMonitoring, KpiPage, TLC

CONSTANTS c1, c2, k1, k2, l1, l2, u1, u2, n1, n2, r1, p1, s1, i1, i2, e1, x1, o1
VARIABLE part
recordVars == <<signInVars, snapshotVars, assessVars, kpiVars, pageVars, part>>

\* Three KPIs: one to exceed, one to stay below, and a question.
Forms == {[type |-> "measurement", higher |-> TRUE, target |-> 7, weight |-> 2, active |-> TRUE],
          [type |-> "measurement", higher |-> FALSE, target |-> 4, weight |-> 1, active |-> TRUE],
          [type |-> "yes_no", higher |-> TRUE, target |-> 1, weight |-> 1, active |-> FALSE]}

RowsOfFirst == {<<1, n1>>, <<1, n2>>}

\* Each of the sets occurs in one part only.
Interchangeable == Permutations(Clients) \cup Permutations(Chains) \cup Permutations(Issuances)

RecordsInit ==
  /\ part \in {"sign in", "snapshots", "assessments", "kpi", "kpi page"}
  /\ SignInInit /\ SnapshotInit /\ AssessInit /\ KpiInit /\ KpiPageInit
  /\ part # "sign in" => scope = "sessions"
  /\ part # "kpi" => \A c \in Codes : masters[c] = CHOOSE f \in Forms : TRUE
  /\ part # "kpi page" => managing /\ view.period = 1

RecordsNext ==
  /\ UNCHANGED part
  /\ \/ part = "sign in" /\ SignInNext /\ UNCHANGED <<snapshotVars, assessVars, kpiVars, pageVars>>
     \/ part = "snapshots" /\ SnapshotNext /\ UNCHANGED <<signInVars, assessVars, kpiVars, pageVars>>
     \/ part = "assessments" /\ AssessNext /\ UNCHANGED <<signInVars, snapshotVars, kpiVars, pageVars>>
     \/ part = "kpi" /\ KpiNext /\ UNCHANGED <<signInVars, snapshotVars, assessVars, pageVars>>
     \/ part = "kpi page" /\ KpiPageNext /\ UNCHANGED <<signInVars, snapshotVars, assessVars, kpiVars>>

RecordsSpec == RecordsInit /\ [][RecordsNext]_recordVars

\* Stored records fit together, and the pages show what is selected on them; asked of
\* the component a behaviour is about, since the others do not move.
RecordsHold ==
  /\ part = "snapshots" => SnapshotTypeOK /\ SealMatchesText /\ ListFollowsSelection
  /\ part = "assessments" => AssessTypeOK /\ CompletedIsDated /\ FormBelongsToIssuance
  /\ part = "kpi" => KpiTypeOK /\ OneRuleInForce
  /\ part = "kpi page" => PanesShowTheSelection /\ DetailFollowsItsUnit /\ ClosedMeansForgotten

\* What two reports or two dashboards say of the same records agrees.
ReportsAgree ==
  /\ part = "assessments" => RegisterAgreesWithMatrix /\ SourcesCoverWhatIsShown
  /\ part = "kpi" => DashboardsAgree /\ FullScoreMeetsTarget /\ UnbandedIsPlanned

\* Approved reports, periods already assessed and locked values give way only to a
\* request that had read them before.
RecordsKept == [][ApprovedIsKept /\ SecondRowOnlyFromRace /\ LockedStays]_recordVars
=============================================================================
