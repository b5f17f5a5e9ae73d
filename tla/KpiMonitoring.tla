--------------------------- MODULE KpiMonitoring ---------------------------
(***************************************************************************)
(* KPI values of one unit and period: encoding, changing and locking them, *)
(* the KPI definitions, the scoring rules of which one is in force, and    *)
(* the scores and bands three services compute from them.                  *)
(*                                                                         *)
(* Every change of a value reads the row and saves the whole of it later,  *)
(* in two cases after a call to the users service; saving a scoring rule   *)
(* and switching the others off are two statements.  Scores are exact      *)
(* fractions of a hundred; toFixed(2) gives hundredths.                    *)
(***************************************************************************)
EXTENDS Integers, FiniteSets, FiniteSetsExt

CONSTANTS Codes,       \* KPI codes
          MasterForms, \* definitions a KPI may have
          Values,      \* actual values
          Users,       \* requests in progress, one per user
          Page,        \* the user whose page is modelled
          Rules,       \* ids of scoring rules
          None,
          MaxRequests

ASSUME KpiAssumption ==
  /\ IsFiniteSet(Codes) /\ Values \subseteq Nat /\ Page \in Users /\ MaxRequests \in Nat /\ None \notin MasterForms
  /\ Rules \subseteq Nat \ {0} /\ \E first \in Rules : \A r \in Rules : first <= r
  /\ \A f \in MasterForms : f.target \in Nat /\ f.weight \in Nat

VARIABLES
  masters,   \* kpi_master by code
  entries,   \* kpi_monitoring by code
  request,   \* request of each user between its read and its write
  listedStatus,    \* the status of each row as the page last loaded it
  active,    \* the active scoring rules
  pendingOff,\* rules saved as active whose update of the others is still to come
  created,   \* rules that exist
  rulesRaced,\* two such saves overlapped, or a rule was saved as inactive
  requests
kpiVars == <<masters, entries, request, listedStatus, active, pendingOff, created, rulesRaced, requests>>

----------------------------------------------------------------------------
(* Scores                                                                  *)

Fraction(n, d) == [n |-> n, d |-> d]
plus(a, b) == Fraction(a.n * b.d + b.n * a.d, a.d * b.d)
atMost(a, b) == a.n * b.d <= b.n * a.d

\* toFixed(2)
hundredths(a) == (200 * a.n + a.d) \div (2 * a.d)

\* computeRaw with the default scoring rule
computeRaw(kpi, actual) ==
  IF kpi.type = "yes_no" THEN Fraction(IF actual >= 1 THEN 100 ELSE 0, 1)
  ELSE IF kpi.target = 0 THEN Fraction(0, 1)
  ELSE IF kpi.higher THEN Fraction(actual * 100, kpi.target)
  ELSE IF actual = 0 THEN Fraction(0, 1) ELSE Fraction(kpi.target * 100, actual)

clamp(a) == IF atMost(Fraction(100, 1), a) THEN Fraction(100, 1) ELSE a

normalized(c) == clamp(computeRaw(masters[c], entries[c].value))

\* classifyScore with the default thresholds, given in hundredths.  The bands leave
\* room between 74.99 and 75 and between 89.99 and 90.
Bands == [green |-> [min |-> 9000, max |-> 10000], amber |-> [min |-> 7500, max |-> 8999],
          red |-> [min |-> 0, max |-> 7499]]
within(a, b) == a.n * 100 >= Bands[b].min * a.d /\ a.n * 100 <= Bands[b].max * a.d
classifyScore(a) ==
  IF \E b \in DOMAIN Bands : within(a, b) THEN CHOOSE b \in DOMAIN Bands : within(a, b) ELSE "unclassified"

Scored == {c \in Codes : entries[c] # None}
ratio(sum, weight) == IF weight = 0 THEN Fraction(0, 1) ELSE Fraction(sum.n, sum.d * weight)
totalWeight(cs) == MapThenSumSet(LAMBDA c : masters[c].weight, cs)
weighted(cs, score(_)) ==
  FoldSet(LAMBDA c, sum : plus(Fraction(score(c).n * masters[c].weight, score(c).d), sum), Fraction(0, 1), cs)

\* dashboardSummary leaves out the rows of inactive KPIs.
counted(c) == masters[c].active

summaryScore ==
  LET cs == {c \in Scored : counted(c)} IN ratio(weighted(cs, normalized), totalWeight(cs))

\* dashboardUnit and dashboardUnitTimeseries take all rows, and round each score first.
rounded(c) == Fraction(hundredths(normalized(c)), 100)
unitScore == ratio(weighted(Scored, rounded), totalWeight(Scored))

\* A point of the series without rows has no band; the unit's dashboard then has one.
seriesBand == IF Scored = {} THEN "unclassified" ELSE classifyScore(unitScore)

\* generateActionPlans: the KPIs it plans for, and with which priority.
actionPlans == {c \in Scored : classifyScore(normalized(c)) # "green"}
priority(c) == IF classifyScore(normalized(c)) = "red" THEN "high" ELSE "medium"

\* generateAssessmentReport of the means of verification: which rows it calls below target.
belowTarget(c) ==
  LET kpi == masters[c] IN
  /\ kpi.target # 0
  /\ IF kpi.higher THEN entries[c].value < kpi.target ELSE entries[c].value > kpi.target

----------------------------------------------------------------------------
(* Requests                                                                *)

Begin(u) == request[u] = None /\ requests < MaxRequests /\ requests' = requests + 1

validValue(kpi, v) == kpi.type # "yes_no" \/ v \in {0, 1}

\* Mutant: a locked row is looked at when it is written only
openRow(row) == TRUE

\* upsertMonitoring and updateMonitoring refuse a locked row.
unlocked(row) == row # None => row.status # "locked"

\* upsertMonitoring up to the answer about its user.
EncodeRead(u, c, v, status) ==
  /\ Begin(u) /\ masters[c] # None /\ unlocked(entries[c]) /\ validValue(masters[c], v)
  /\ request' = [request EXCEPT ![u] = [code |-> c, saw |-> entries[c], row |-> [value |-> v, status |-> status]]]
  /\ UNCHANGED <<masters, entries, listedStatus, active, pendingOff, created, rulesRaced>>

\* updateMonitoring up to the answer about its user.
UpdateRowRead(u, c, v, status) ==
  /\ Begin(u) /\ entries[c] # None /\ unlocked(entries[c]) /\ validValue(masters[c], v)
  /\ request' = [request EXCEPT ![u] = [code |-> c, saw |-> entries[c], row |-> [value |-> v, status |-> status]]]
  /\ UNCHANGED <<masters, entries, listedStatus, active, pendingOff, created, rulesRaced>>

\* The read of lockMonitoring
LockRead(u, c) ==
  /\ Begin(u) /\ entries[c] # None
  /\ request' = [request EXCEPT ![u] = [code |-> c, saw |-> entries[c],
                                        row |-> [value |-> entries[c].value, status |-> "locked"]]]
  /\ UNCHANGED <<masters, entries, listedStatus, active, pendingOff, created, rulesRaced>>

\* A new row is refused by the unique index if there is one by now, and any row by the
\* foreign key when its KPI is gone.
refused(r) == masters[r.code] = None \/ (r.saw = None /\ entries[r.code] # None)

\* save(): all columns of the row as read and changed.
SaveRow(u) ==
  /\ request[u] # None
  /\ LET r == request[u]
     IN  entries' = IF refused(r) THEN entries ELSE [entries EXCEPT ![r.code] = r.row]
  /\ request' = [request EXCEPT ![u] = None]
  /\ UNCHANGED <<masters, listedStatus, active, pendingOff, created, rulesRaced, requests>>

\* createKpiMaster and updateKpiMaster
SaveMaster(c, form) ==
  /\ requests < MaxRequests /\ requests' = requests + 1 /\ masters[c] # form
  /\ masters' = [masters EXCEPT ![c] = form]
  /\ UNCHANGED <<entries, request, listedStatus, active, pendingOff, created, rulesRaced>>

\* removeKpiMaster takes the rows along.
RemoveMaster(c) ==
  /\ requests < MaxRequests /\ requests' = requests + 1 /\ masters[c] # None
  /\ masters' = [masters EXCEPT ![c] = None] /\ entries' = [entries EXCEPT ![c] = None]
  /\ UNCHANGED <<request, listedStatus, active, pendingOff, created, rulesRaced>>

othersOff(r) == active \cap {r}

\* upsertScoringRule: the save,
SaveRule(r, isActive) ==
  /\ requests < MaxRequests /\ requests' = requests + 1 /\ r \notin pendingOff
  /\ created' = created \cup {r}
  /\ active' = IF isActive THEN active \cup {r} ELSE active \ {r}
  /\ pendingOff' = IF isActive THEN pendingOff \cup {r} ELSE pendingOff
  /\ rulesRaced' = (rulesRaced \/ pendingOff # {} \/ ~isActive)
  /\ UNCHANGED <<masters, entries, request, listedStatus>>

\* and the update of the other rules.
RuleOthersOff(r) ==
  /\ r \in pendingOff
  /\ pendingOff' = pendingOff \ {r} /\ active' = othersOff(r)
  /\ UNCHANGED <<masters, entries, request, listedStatus, created, rulesRaced, requests>>

----------------------------------------------------------------------------
(* The page                                                                *)

LoadMonitoring ==
  /\ listedStatus' = [c \in Codes |-> IF entries[c] = None THEN None ELSE entries[c].status]
  /\ listedStatus' # listedStatus
  /\ UNCHANGED <<masters, entries, request, active, pendingOff, created, rulesRaced, requests>>

\* Edit and Lock are offered for rows listedStatus as unlocked.
editable(c) == listedStatus[c] \notin {None, "locked"}

PageRequest(c) ==
  \/ \E v \in Values, s \in {"draft", "locked"} : EncodeRead(Page, c, v, s)
  \/ editable(c) /\ \E v \in Values, s \in {"draft", "locked"} : UpdateRowRead(Page, c, v, s)
  \/ editable(c) /\ LockRead(Page, c)

\* Another user's requests, from a page that may have been loaded at any time.
OtherRequestOf(u, c) ==
  /\ u # Page
  /\ \/ \E v \in Values : UpdateRowRead(u, c, v, "draft")
     \/ LockRead(u, c)

----------------------------------------------------------------------------
KpiInit ==
  /\ masters \in [Codes -> MasterForms]
  /\ entries = [c \in Codes |-> None] /\ request = [u \in Users |-> None] /\ listedStatus = [c \in Codes |-> None]
  /\ created = {Min(Rules)} /\ active = {Min(Rules)} /\ pendingOff = {} /\ rulesRaced = FALSE /\ requests = 0

KpiNext ==
  \/ \E c \in Codes : PageRequest(c) \/ RemoveMaster(c) \/ \E f \in MasterForms : SaveMaster(c, f)
  \/ \E u \in Users : SaveRow(u) \/ \E c \in Codes : OtherRequestOf(u, c)
  \/ LoadMonitoring
  \/ \E r \in Rules : RuleOthersOff(r) \/ \E on \in BOOLEAN : SaveRule(r, on)

KpiSpec == KpiInit /\ [][KpiNext]_kpiVars

----------------------------------------------------------------------------
KpiTypeOK ==
  /\ \A c \in Codes : masters[c] \in MasterForms \cup {None}
  /\ \A c \in Codes : entries[c] # None => /\ entries[c] \in [value : Values, status : {"draft", "locked"}]
                                           /\ masters[c] # None
  /\ \A u \in Users : request[u] # None => request[u].code \in Codes
  /\ active \subseteq created /\ pendingOff \subseteq created /\ created \subseteq Rules
  /\ requests \in 0..MaxRequests

\* A locked row changes only with its KPI's removal or through a request that had
\* read another state of the row (upsertMonitoring, updateMonitoring and
\* lockMonitoring decide on what they read and save it after a call elsewhere).
LockedStays ==
  \A c \in Codes : entries[c] # None /\ entries[c].status = "locked" =>
       \/ entries'[c] = entries[c]
       \/ masters'[c] = None
       \/ \E u \in Users : request[u] # None /\ request'[u] = None /\ request[u].code = c
                           /\ request[u].saw # entries[c]

\* The overview and the page of the unit give the same score up to a hundredth, as
\* long as no value of an inactive KPI is kept, and the series has the unit's band
\* (dashboardSummary rounds at the end, dashboardUnit each value first).
DashboardsAgree ==
  (\A c \in Scored : masters[c].active) =>
    /\ hundredths(summaryScore) - hundredths(unitScore) \in {-1, 0, 1}
    /\ Scored # {} => seriesBand = classifyScore(unitScore)

\* A row that misses its target has less than the full score, shown as the full one
\* only when it misses by at most one part in 20000, and a row that meets it has the
\* full score, except when lower is better and the value is 0, which scores nothing
\* although the report of the means of verification counts it as meeting it.
FullScoreMeetsTarget ==
  \A c \in Scored :
    LET kpi == masters[c]
        score == normalized(c)
        larger == IF kpi.higher THEN kpi.target ELSE entries[c].value
        smaller == IF kpi.higher THEN entries[c].value ELSE kpi.target
    IN  kpi.type # "yes_no" /\ kpi.target # 0 =>
          IF belowTarget(c)
          THEN ~atMost(Fraction(100, 1), score) /\ (hundredths(score) = 10000 => 20000 * (larger - smaller) <= larger)
          ELSE hundredths(score) = (IF ~kpi.higher /\ entries[c].value = 0 THEN 0 ELSE 10000)

\* Scores stay within 0 and 100; only one between two bands has none, and it still
\* gets an action plan, of medium priority (classifyScore, generateActionPlans).
UnbandedIsPlanned ==
  \A c \in Scored :
    /\ hundredths(normalized(c)) \in 0..10000
    /\ classifyScore(normalized(c)) = "unclassified" =>
         c \in actionPlans /\ priority(c) = "medium" /\ hundredths(normalized(c)) \in {7499, 7500, 8999, 9000}

\* Between requests at most one rule is active, and there is one unless saves of
\* active rules overlapped or one was saved as inactive (upsertScoringRule).
OneRuleInForce ==
  pendingOff = {} => /\ Cardinality(active) <= 1
                     /\ active = {} => rulesRaced
=============================================================================
