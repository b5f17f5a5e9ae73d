-------------------------- MODULE ReportSnapshots --------------------------
(***************************************************************************)
(* Means-of-verification artifacts: the yearly plan, the schedule of a     *)
(* quarter and the generated reports kept as snapshots, with the builder   *)
(* page of one manager while another one uses the same services.           *)
(*                                                                         *)
(* update() and remove() read the row, decide on what they read and write  *)
(* the whole row back, or delete it, in a later step: requests of several  *)
(* managers interleave in between.  The page works on lists it loaded      *)
(* earlier and on a report generated for the period selected at the time;  *)
(* neither waits for, nor compares itself with, a later answer.            *)
(***************************************************************************)
EXTENDS Integers, FiniteSets

CONSTANTS Reports,      \* ids of generated_report rows
          Plans,        \* ids of assessment_plan_year rows of the year
          Schedules,    \* ids of assessment_schedule_entry rows
          Managers,     \* requests in progress, one per manager
          PageUser,     \* the manager whose page is modelled
          Quarters,     \* the quarters that can be selected
          NoRow, Nothing,
          Rewritten,    \* a text another manager puts in place of the generated one
          MaxChanges,   \* bound on updates and removals
          MaxMoves      \* bound on selections, generated reports and new rows

Kinds == {"register", "monitoring", "assessment"}
ReportStatuses == {"draft", "reviewed", "approved", "superseded"}
ScheduleStatuses == {"planned", "completed"}

\* The columns of mov_artifacts told apart; the quarter of a plan is 0.
Contents == {Nothing, Rewritten} \cup [kind : Kinds, quarter : Quarters, done : SUBSET Schedules]
ArtifactRow == [quarter : Quarters \cup {0}, status : ReportStatuses \cup ScheduleStatuses \cup {"active"},
                content : Contents, sha : Contents, finalized : BOOLEAN]

ASSUME SnapshotAssumption ==
  /\ 1 \in Quarters /\ NoRow \notin ArtifactRow
  /\ PageUser \in Managers /\ MaxChanges \in Nat /\ MaxMoves \in Nat
  /\ Reports \cap (Plans \cup Schedules) = {} /\ Plans \cap Schedules = {}

VARIABLES
  artifacts,  \* mov_artifacts by id
  used,       \* ids that have been given out
  pending,    \* update() or remove() between its read and its write
  selected,   \* the quarter selected on the page
  listed,     \* the rows last loaded, with the quarter they are of
  loads,      \* quarters of the loadData calls under way
  generating, \* reports being generated
  shown,      \* the report shown
  disturbed,  \* a load failed, or the selection changed while the page was waiting for an answer
  changes, moves
snapshotVars == <<artifacts, used, pending, selected, listed, loads, generating, shown, disturbed, changes, moves>>

Artifacts == Reports \cup Plans \cup Schedules

Exists(id) == artifacts[id] # NoRow

----------------------------------------------------------------------------
(* Rows                                                                    *)

\* create() of a generated report.  The hash is the content it was taken of.
NewReport(content, q) ==
  [quarter |-> q, status |-> "draft", content |-> content, sha |-> content, finalized |-> FALSE]

\* Other artifacts have neither a hash nor a date of approval; the text of a
\* plan or of a schedule entry is not told apart.
NewEntry(q, status) ==
  [quarter |-> q, status |-> status, content |-> Nothing, sha |-> Nothing, finalized |-> FALSE]

\* Object.assign(row, dto): a field the request does not carry stays.
assigned(row, patch) ==
  [row EXCEPT !.status = IF patch.status = Nothing THEN @ ELSE patch.status,
              !.content = IF patch.content = Nothing THEN @ ELSE patch.content]

\* Mutant: the hash is that of the first content
sealedOnce(row) == [row EXCEPT !.finalized = row.status = "approved"]

\* What update() adds to a report that it changes.
sealed(row) == [row EXCEPT !.sha = row.content, !.finalized = row.status = "approved"]

\* remove() refuses approved reports.
kept(id, row) == id \in Reports /\ row.status = "approved"

\* update() after its read: what it is going to save, or Nothing if it refuses.
updated(id, row, patch) ==
  IF id \in Reports /\ row.status = "approved"
  THEN IF patch.status = "superseded" /\ patch.content = Nothing
       THEN [row EXCEPT !.status = "superseded"] ELSE Nothing
  ELSE LET new == assigned(row, patch) IN
       IF id \notin Reports THEN new
       ELSE IF new.status \in ReportStatuses THEN sealed(new) ELSE Nothing

\* The read of update(), and its decision.  A request of the page remembers the
\* quarter that was selected when it was sent.
UpdateRead(m, id, patch) ==
  /\ pending[m] = Nothing /\ Exists(id) /\ changes < MaxChanges
  /\ LET new == updated(id, artifacts[id], patch) IN
       /\ new # Nothing
       /\ pending' = [pending EXCEPT ![m] = [id |-> id, row |-> new, saw |-> artifacts[id],
                                             quarter |-> selected]]
  /\ changes' = changes + 1
  /\ UNCHANGED <<artifacts, used, selected, listed, loads, generating, shown, disturbed, moves>>

\* The read of remove(), and its decision.
RemoveRead(m, id) ==
  /\ pending[m] = Nothing /\ Exists(id) /\ ~kept(id, artifacts[id]) /\ changes < MaxChanges
  /\ pending' = [pending EXCEPT ![m] = [id |-> id, row |-> NoRow, saw |-> artifacts[id],
                                        quarter |-> selected]]
  /\ changes' = changes + 1
  /\ UNCHANGED <<artifacts, used, selected, listed, loads, generating, shown, disturbed, moves>>

----------------------------------------------------------------------------
(* The page                                                                *)

\* list(): the rows of a quarter, and the plans, which have none.
Listing(q) == [id \in Artifacts |-> IF Exists(id) /\ artifacts[id].quarter \in {q, 0}
                                    THEN artifacts[id].status ELSE NoRow]

\* loadData for a quarter, as far as its requests.
Loading(q) == loads \cup {q}

\* The write: save() stores the row as it was read and changed, and a row deleted
\* since comes back; remove() deletes whatever the row has become.  The page then
\* loads the quarter its handler was made for.
Write(m) ==
  /\ pending[m] # Nothing
  /\ artifacts' = [artifacts EXCEPT ![pending[m].id] = pending[m].row]
  /\ pending' = [pending EXCEPT ![m] = Nothing]
  /\ loads' = IF m = PageUser THEN Loading(pending[m].quarter) ELSE loads
  /\ UNCHANGED <<used, selected, listed, generating, shown, disturbed, changes, moves>>

\* The quarter loaded by the effect that follows a new selection.
effectQuarter(q) == q

SelectQuarter(q) ==
  /\ q # selected /\ moves < MaxMoves /\ moves' = moves + 1 /\ selected' = q
  /\ loads' = Loading(effectQuarter(q))
  /\ disturbed' = (loads # {} \/ pending[PageUser] # Nothing)
  /\ UNCHANGED <<artifacts, used, pending, listed, generating, shown, changes>>

LoadAnswers(q) ==
  /\ loads' = loads \ {q} /\ listed' = [quarter |-> q, rows |-> Listing(q)]
  /\ UNCHANGED <<artifacts, used, pending, selected, generating, shown, disturbed, changes, moves>>

LoadFails(q) ==
  /\ loads' = loads \ {q} /\ disturbed' = TRUE
  /\ UNCHANGED <<artifacts, used, pending, selected, listed, generating, shown, changes, moves>>

\* Which schedule entries of the quarter are done, for the checklist and the
\* counts of the assessment report.
completedSchedule(q) == {s \in Schedules : Exists(s) /\ artifacts[s].quarter = q /\ artifacts[s].status = "completed"}

\* generateAssessmentReport refuses a year without a plan.
reportable(kind) == kind # "assessment" \/ \E p \in Plans : Exists(p)

reportOf(kind, q) ==
  [kind |-> kind, quarter |-> q, done |-> IF kind = "assessment" THEN completedSchedule(q) ELSE {}]

\* generateRegisterReport, generateMonitoringMatrix and generateAssessmentReport of
\* the page: nothing keeps it from asking again before the answer.
Generate(kind) ==
  /\ generating = {} /\ reportable(kind) /\ moves < MaxMoves /\ moves' = moves + 1
  /\ generating' = {reportOf(kind, selected)}
  /\ UNCHANGED <<artifacts, used, pending, selected, listed, loads, shown, disturbed, changes>>

GenerateAnswers(report) ==
  /\ generating' = generating \ {report} /\ shown' = report
  /\ UNCHANGED <<artifacts, used, pending, selected, listed, loads, disturbed, changes, moves>>

\* create() is one insert; the page then loads the quarter selected.
Create(id, row) ==
  /\ pending[PageUser] = Nothing /\ id \notin used /\ moves < MaxMoves /\ moves' = moves + 1
  /\ used' = used \cup {id}
  /\ artifacts' = [artifacts EXCEPT ![id] = row]
  /\ loads' = Loading(selected)
  /\ UNCHANGED <<pending, selected, listed, generating, shown, disturbed, changes>>

\* saveGeneratedReport files the report under the quarter selected now.
SaveGeneratedReport == \E id \in Reports : shown # Nothing /\ Create(id, NewReport(shown, selected))

AddScheduleEntry == \E id \in Schedules, s \in ScheduleStatuses : Create(id, NewEntry(selected, s))

AddPlanEntry == \E id \in Plans : Create(id, NewEntry(0, "active"))

\* The statuses offered for a listed row.
offered(id, status) ==
  IF id \in Reports THEN {"draft", "reviewed", "approved"} \cup (IF status = "approved" THEN {"superseded"} ELSE {})
  ELSE {"draft", "active", "planned", "completed", "archived"}

\* The rows of the three tabs.
ArtifactShown(id) == id \notin Plans /\ listed.rows[id] # NoRow
PlanShown(id) == id \in Plans /\ listed.rows[id] # NoRow
EntryShown(id) == id \in Schedules /\ listed.rows[id] # NoRow

\* saveArtifactStatus
SaveArtifactStatus(id, status) ==
  /\ ArtifactShown(id) /\ status \in offered(id, listed.rows[id])
  /\ UpdateRead(PageUser, id, [status |-> status, content |-> Nothing])

\* updateScheduleEntry sends the listed row with the edits made to it in its place.
UpdateScheduleEntry(id, status) ==
  /\ EntryShown(id) /\ status \in ScheduleStatuses \cup {listed.rows[id]}
  /\ UpdateRead(PageUser, id, [status |-> status, content |-> Nothing])

\* savePlanEdit sends title, items and text, which are not told apart.
SavePlanEdit(id) == PlanShown(id) /\ UpdateRead(PageUser, id, [status |-> Nothing, content |-> Nothing])

DeletePlanEntry(id) == PlanShown(id) /\ RemoveRead(PageUser, id)

\* A request of another manager, who may also rewrite the text.
OtherUpdate(m, id, status, text) ==
  /\ m # PageUser /\ UpdateRead(m, id, [status |-> status, content |-> text])

OtherRemove(m, id) == m # PageUser /\ RemoveRead(m, id)

\* seedDefaultAssessmentArtifacts at a start with DB_BOOTSTRAP: each kind only if
\* there is no row of it.
missing(kind) == {id \in kind \ used : \A k \in kind : ~Exists(k)}

Seed ==
  /\ missing(Plans) \cup missing(Schedules) # {}
  /\ artifacts' = [id \in Artifacts |-> IF id \in missing(Plans) THEN NewEntry(0, "active")
                                        ELSE IF id \in missing(Schedules) THEN NewEntry(1, "planned")
                                        ELSE artifacts[id]]
  /\ used' = used \cup missing(Plans) \cup missing(Schedules)
  /\ UNCHANGED <<pending, selected, listed, loads, generating, shown, disturbed, changes, moves>>

----------------------------------------------------------------------------
SnapshotInit ==
  /\ artifacts = [id \in Artifacts |-> NoRow] /\ used = {}
  /\ pending = [m \in Managers |-> Nothing]
  /\ selected = 1 /\ loads = {} /\ generating = {} /\ shown = Nothing
  /\ listed = [quarter |-> 1, rows |-> [id \in Artifacts |-> NoRow]]
  /\ disturbed = FALSE /\ changes = 0 /\ moves = 0

SnapshotNext ==
  \/ \E q \in Quarters : SelectQuarter(q)
  \/ \E q \in loads : LoadAnswers(q) \/ LoadFails(q)
  \/ \E k \in Kinds : Generate(k)
  \/ \E r \in generating : GenerateAnswers(r)
  \/ SaveGeneratedReport \/ AddScheduleEntry \/ AddPlanEntry \/ Seed
  \/ \E id \in Artifacts, s \in ReportStatuses \cup ScheduleStatuses : SaveArtifactStatus(id, s)
  \/ \E id \in Schedules, s \in ScheduleStatuses : UpdateScheduleEntry(id, s)
  \/ \E id \in Plans : SavePlanEdit(id) \/ DeletePlanEntry(id)
  \/ \E m \in Managers : Write(m)
  \/ \E m \in Managers, id \in Reports : \E s \in ReportStatuses \cup {Nothing}, text \in {Nothing, Rewritten} :
       OtherUpdate(m, id, s, text)
  \/ \E m \in Managers, id \in Artifacts : OtherRemove(m, id)

SnapshotSpec == SnapshotInit /\ [][SnapshotNext]_snapshotVars

----------------------------------------------------------------------------
\* Types, and that a row has an id that was given out.
SnapshotTypeOK ==
  /\ \A id \in Artifacts : Exists(id) => /\ id \in used
                                         /\ artifacts[id].quarter \in (IF id \in Plans THEN {0} ELSE Quarters)
                                         /\ id \notin Reports => artifacts[id].sha = Nothing
  /\ selected \in Quarters /\ listed.quarter \in Quarters
  /\ loads \subseteq Quarters
  /\ changes \in 0..MaxChanges /\ moves \in 0..MaxMoves

\* Whatever requests overwrite one another, the hash kept with a report is that of
\* the text kept with it, and exactly an approved report carries a date of
\* approval, or one that was approved and then superseded (update, create).
SealMatchesText ==
  \A r \in Reports : Exists(r) =>
    /\ artifacts[r].sha = artifacts[r].content
    /\ artifacts[r].status = "approved" => artifacts[r].finalized
    /\ artifacts[r].status \in {"draft", "reviewed"} => ~artifacts[r].finalized

\* An approved report keeps its text and either stays approved or is superseded,
\* except when a request writes or deletes it that had read an earlier state of it.
ApprovedIsKept ==
  \A r \in Reports : Exists(r) /\ artifacts[r].status = "approved" =>
       \/ /\ artifacts'[r] # NoRow /\ artifacts'[r].content = artifacts[r].content
          /\ artifacts'[r].status \in {"approved", "superseded"}
       \/ \E m \in Managers : pending[m] # Nothing /\ pending[m].id = r /\ pending[m].saw # artifacts[r]
                              /\ pending'[m] = Nothing

\* If the selection last changed while the page was waiting for nothing, and no load
\* has failed since, then the rows shown once all loads are answered are those of
\* the quarter in the heading (loadData, and the reload after each request).
ListFollowsSelection == loads = {} /\ ~disturbed => listed.quarter = selected
=============================================================================
