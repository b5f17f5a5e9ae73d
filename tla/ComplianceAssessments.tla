----------------------- MODULE ComplianceAssessments -----------------------
(***************************************************************************)
(* The assessments of issuances by period (a quarter, or 0 for the year as *)
(* a whole), with their evidence and corrective actions, what the register *)
(* report, the monitoring matrix and the assessment report make of them,   *)
(* and the assessment dialog of one manager's page while others use the    *)
(* same services.  All rows are of one year.                               *)
(*                                                                         *)
(* saveAssessment and updateRemediationAction read a row and save it in a  *)
(* later step; nothing in the table keeps two rows of a period apart.  The *)
(* dialog's two kinds of request end by showing the issuance they were for *)
(* again, whatever is open by then.                                        *)
(***************************************************************************)
EXTENDS Integers, Sequences, FiniteSets

CONSTANTS Issuances, AssessedQuarters, Statuses,
          EvidenceIds, ActionIds,
          Others,      \* requests of other managers
          Absent,
          MaxAsks

ASSUME AssessmentAssumption ==
  /\ AssessedQuarters \subseteq Nat \ {0} /\ AssessedQuarters # {} /\ MaxAsks \in Nat
  /\ Others \cap {"save", "child"} = {} /\ Absent \notin Nat

VARIABLES
  rows,      \* issuance_compliance_assessments in order of creation
  evidence,  \* the row each piece of evidence is linked to, or Absent
  actions,   \* corrective actions: their row, status and whether completedAt is set
  asks,      \* requests between two of their steps
  dialog,    \* assessmentIssuance
  known,     \* the rows as the dialog knows them
  form,      \* assessmentForm, and the issuance whose values filled it
  crossed,   \* the dialog was closed while a request about its evidence or actions was under way
  count
assessVars == <<rows, evidence, actions, asks, dialog, known, form, crossed, count>>

Slots == {"save", "child"} \cup Others
Annual == 0
ActionStatuses == {"open", "completed"}
Idle == [op |-> "idle"]

----------------------------------------------------------------------------
(* What the reports make of the rows                                       *)

RowsOf(i) == {k \in 1..Len(rows) : rows[k].issuance = i}

\* The rows a report on a quarter looks at: the quarter's and the annual ones.
periodAssessments(i, q) == {k \in RowsOf(i) : rows[k].quarter \in {q, Annual}}

\* Mutant: the annual assessment goes first
annualFirst(k, l) == rows[k].quarter < rows[l].quarter \/ (rows[k].quarter = rows[l].quarter /\ k < l)

\* The sort by quarter, descending and stable.
comesBefore(k, l) == rows[k].quarter > rows[l].quarter \/ (rows[k].quarter = rows[l].quarter /\ k < l)

\* generateRegisterReport: the row an entry shows, 0 for none.
registerRow(i, q) ==
  LET found == periodAssessments(i, q)
  IN  IF found = {} THEN 0 ELSE CHOOSE k \in found : \A l \in found \ {k} : comesBefore(k, l)

registerStatus(i, q) == IF registerRow(i, q) = 0 THEN "not_assessed" ELSE rows[registerRow(i, q)].status

\* generateMonitoringMatrixReport as of quarter q: the row behind the cell of quarter
\* c, which for two rows of a quarter is the last the Map was given.
matrixRow(i, q, c) ==
  LET found == {k \in RowsOf(i) : rows[k].quarter = c}
  IN  IF c > q \/ found = {} THEN 0 ELSE CHOOSE k \in found : \A l \in found : l <= k

matrixStatus(i, q, c) ==
  IF c > q THEN "" ELSE IF matrixRow(i, q, c) = 0 THEN "not_assessed" ELSE rows[matrixRow(i, q, c)].status

\* The assessments the matrix names as its sources.
matrixSources(i, q) == {k \in RowsOf(i) : rows[k].quarter <= q}

\* The assessments the assessment report counts, with their evidence and the actions
\* it calls open.
reportedEvidence(i, q) == {e \in EvidenceIds : evidence[e] \in periodAssessments(i, q)}
openActions(i, q) ==
  {a \in ActionIds : actions[a] # Absent /\ actions[a].row \in periodAssessments(i, q) /\ actions[a].status = "open"}

----------------------------------------------------------------------------
(* The services                                                            *)

Next0(slot) == asks[slot] = Idle /\ count < MaxAsks /\ count' = count + 1

\* What a request of the page still has to do once it is served.
served(slot, i) == [asks EXCEPT ![slot] = IF slot \in Others THEN Idle ELSE [op |-> "refresh", issuance |-> i]]

\* The row saveAssessment looks up.
samePeriod(row, i, q) == row.issuance = i /\ row.quarter = q

\* The first part of saveAssessment: getOne() of the period.
SaveRead(slot, i, q, status) ==
  /\ Next0(slot)
  /\ LET found == {k \in 1..Len(rows) : samePeriod(rows[k], i, q)} IN
       asks' = [asks EXCEPT ![slot] =
                  [op |-> "save", issuance |-> i, quarter |-> q, status |-> status, looked |-> Len(rows),
                   row |-> IF found = {} THEN 0 ELSE CHOOSE k \in found : \A l \in found : k <= l]]
  /\ UNCHANGED <<rows, evidence, actions, dialog, known, form, crossed>>

\* Its second part: a new row, or the one found with its columns replaced.
SaveWrite(slot) ==
  /\ asks[slot].op = "save"
  /\ LET ask == asks[slot]
         row == [issuance |-> ask.issuance, quarter |-> ask.quarter, status |-> ask.status]
     IN  /\ rows' = IF ask.row # 0 THEN [rows EXCEPT ![ask.row] = row] ELSE Append(rows, row)
         /\ asks' = served(slot, ask.issuance)
  /\ UNCHANGED <<evidence, actions, dialog, known, form, crossed, count>>

\* addAssessmentEvidence and removeAssessmentEvidence
AddEvidence(slot, k, e) ==
  /\ Next0(slot) /\ evidence[e] = Absent
  /\ evidence' = [evidence EXCEPT ![e] = k] /\ asks' = served(slot, rows[k].issuance)
  /\ UNCHANGED <<rows, actions, dialog, known, form, crossed>>

RemoveEvidence(slot, e) ==
  /\ Next0(slot) /\ evidence[e] # Absent
  /\ evidence' = [evidence EXCEPT ![e] = Absent] /\ asks' = served(slot, rows[evidence[e]].issuance)
  /\ UNCHANGED <<rows, actions, dialog, known, form, crossed>>

\* addRemediationAction
AddAction(slot, k, a, status) ==
  /\ Next0(slot) /\ actions[a] = Absent
  /\ actions' = [actions EXCEPT ![a] = [row |-> k, status |-> status, dated |-> status = "completed"]]
  /\ asks' = served(slot, rows[k].issuance)
  /\ UNCHANGED <<rows, evidence, dialog, known, form, crossed>>

\* The columns updateRemediationAction changes together.
withStatus(action, status) == [action EXCEPT !.status = status, !.dated = status = "completed"]

\* The read of updateRemediationAction; a request without a status changes others.
UpdateActionRead(slot, a, status) ==
  /\ Next0(slot) /\ actions[a] # Absent
  /\ asks' = [asks EXCEPT ![slot] = [op |-> "action", id |-> a,
                                     action |-> IF status = Absent THEN actions[a] ELSE withStatus(actions[a], status)]]
  /\ UNCHANGED <<rows, evidence, actions, dialog, known, form, crossed>>

\* Its save() writes the action as it was read and changed, one removed since too.
UpdateActionWrite(slot) ==
  /\ asks[slot].op = "action"
  /\ actions' = [actions EXCEPT ![asks[slot].id] = asks[slot].action]
  /\ asks' = served(slot, rows[asks[slot].action.row].issuance)
  /\ UNCHANGED <<rows, evidence, dialog, known, form, crossed, count>>

RemoveAction(slot, a) ==
  /\ Next0(slot) /\ actions[a] # Absent
  /\ actions' = [actions EXCEPT ![a] = Absent] /\ asks' = served(slot, rows[actions[a].row].issuance)
  /\ UNCHANGED <<rows, evidence, dialog, known, form, crossed>>

\* A request of another manager, from a page whose dialog is not modelled.
OtherRequest(slot) ==
  \/ \E i \in Issuances, q \in AssessedQuarters \cup {Annual}, s \in Statuses : SaveRead(slot, i, q, s)
  \/ \E a \in ActionIds : \E s \in ActionStatuses \cup {Absent} : UpdateActionRead(slot, a, s)
  \/ \E a \in ActionIds : RemoveAction(slot, a)
  \/ \E e \in EvidenceIds : RemoveEvidence(slot, e)

----------------------------------------------------------------------------
(* The dialog                                                              *)

\* The row a period shows, among those the dialog knows: 0 for none.
knownRow(i, q, ks) ==
  LET found == {k \in 1..Len(ks) : samePeriod(ks[k], i, q)}
  IN  IF found = {} THEN 0 ELSE CHOOSE k \in found : \A l \in found : k <= l

filled(i, q, ks) ==
  [of |-> i, quarter |-> q,
   status |-> IF knownRow(i, q, ks) = 0 THEN "not_assessed" ELSE ks[knownRow(i, q, ks)].status]

\* openAssessmentDialog, from a list that was loaded some time ago: the present one.
OpenDialog(i) ==
  /\ dialog = Absent
  /\ dialog' = i /\ known' = rows
  /\ \E q \in AssessedQuarters : form' = filled(i, q, rows)
  /\ UNCHANGED <<rows, evidence, actions, asks, crossed, count>>

\* assessmentSaving keeps the dialog open; assessmentChildSaving does not.
closable == asks["save"] = Idle

CloseDialog ==
  /\ dialog # Absent /\ closable
  /\ dialog' = Absent /\ crossed' = (crossed \/ asks["child"] # Idle)
  /\ UNCHANGED <<rows, evidence, actions, asks, known, form, count>>

\* selectAssessmentPeriod
SelectPeriod(q) ==
  /\ dialog # Absent /\ q # form.quarter
  /\ form' = filled(dialog, q, known)
  /\ UNCHANGED <<rows, evidence, actions, asks, dialog, known, crossed, count>>

\* saveAssessment of the page: the form, with a status chosen in it, for the
\* issuance shown.
SaveAssessment(status) == dialog # Absent /\ SaveRead("save", dialog, form.quarter, status)

\* Evidence and actions are offered once the period has been saved.
activeAssessment == IF dialog = Absent THEN 0 ELSE knownRow(dialog, form.quarter, known)

ChildRequest ==
  /\ activeAssessment # 0
  /\ \/ \E e \in EvidenceIds : AddEvidence("child", activeAssessment, e)
     \/ \E e \in EvidenceIds : evidence[e] = activeAssessment /\ RemoveEvidence("child", e)
     \/ \E a \in ActionIds, s \in ActionStatuses : AddAction("child", activeAssessment, a, s)
     \/ \E a \in ActionIds, s \in ActionStatuses :
          /\ actions[a] # Absent /\ actions[a].row = activeAssessment
          /\ UpdateActionRead("child", a, s) \/ RemoveAction("child", a)

\* The answer to getById after a request of the page.
Refresh(slot) ==
  /\ asks[slot].op = "refresh"
  /\ dialog' = asks[slot].issuance /\ known' = rows
  /\ asks' = [asks EXCEPT ![slot] = Idle]
  /\ UNCHANGED <<rows, evidence, actions, form, crossed, count>>

----------------------------------------------------------------------------
AssessInit ==
  /\ rows = <<>> /\ evidence = [e \in EvidenceIds |-> Absent] /\ actions = [a \in ActionIds |-> Absent]
  /\ asks = [s \in Slots |-> Idle]
  /\ dialog = Absent /\ known = <<>> /\ crossed = FALSE /\ count = 0
  /\ form = [of |-> Absent, quarter |-> CHOOSE q \in AssessedQuarters : TRUE, status |-> "not_assessed"]

AssessNext ==
  \/ \E i \in Issuances : OpenDialog(i)
  \/ CloseDialog \/ ChildRequest
  \/ \E q \in AssessedQuarters \cup {Annual} : SelectPeriod(q)
  \/ \E s \in Statuses : SaveAssessment(s)
  \/ \E slot \in Slots : SaveWrite(slot) \/ UpdateActionWrite(slot) \/ Refresh(slot)
  \/ \E slot \in Others : OtherRequest(slot)

AssessSpec == AssessInit /\ [][AssessNext]_assessVars

----------------------------------------------------------------------------
AssessTypeOK ==
  /\ \A k \in 1..Len(rows) : rows[k] \in [issuance : Issuances, quarter : AssessedQuarters \cup {Annual}, status : Statuses]
  /\ \A e \in EvidenceIds : evidence[e] = Absent \/ evidence[e] \in 1..Len(rows)
  /\ \A a \in ActionIds : actions[a] # Absent => actions[a].row \in 1..Len(rows)
  /\ dialog \in Issuances \cup {Absent} /\ Len(known) <= Len(rows) /\ count \in 0..MaxAsks

\* A second row of a period comes only from a request that looked for one before the
\* first was stored (saveAssessment; the table has no unique index).
SecondRowOnlyFromRace ==
  \A k \in 1..Len(rows') : k > Len(rows) =>
       \A l \in 1..Len(rows) : rows[l].issuance = rows'[k].issuance /\ rows[l].quarter = rows'[k].quarter =>
         \E slot \in Slots : asks[slot].op = "save" /\ asks'[slot] # asks[slot] /\ asks[slot].looked < l

\* For a period with one row the register of the quarter and the cell of the matrix
\* agree on its status; without one the cell is empty of an assessment, although the
\* register then shows that of the year (the two reports pick their rows differently).
RegisterAgreesWithMatrix ==
  \A i \in Issuances, q \in AssessedQuarters :
    LET own == {k \in RowsOf(i) : rows[k].quarter = q} IN
    /\ Cardinality(own) = 1 => \A p \in AssessedQuarters : p >= q => matrixStatus(i, p, q) = registerStatus(i, q)
    /\ own = {} => matrixStatus(i, q, q) = "not_assessed" /\ registerRow(i, q) \in {k \in RowsOf(i) : rows[k].quarter = Annual} \cup {0}

\* Each report names every row it shows among its sources, and the assessment report
\* of a quarter covers what the register of it shows, so that a saved snapshot can be
\* traced back (source_manifest of the three reports).
SourcesCoverWhatIsShown ==
  \A i \in Issuances, q \in AssessedQuarters :
    /\ \A c \in AssessedQuarters : matrixRow(i, q, c) \in matrixSources(i, q) \cup {0}
    /\ LET k == registerRow(i, q) IN
         k # 0 => /\ k \in matrixSources(i, q)
                  /\ {e \in EvidenceIds : evidence[e] = k} \subseteq reportedEvidence(i, q)
                  /\ (openActions(i, q) = {} =>
                        \A a \in ActionIds : actions[a] # Absent /\ actions[a].row = k => actions[a].dated)

\* However updates overwrite one another, an action has a date of completion exactly
\* when it is completed (addRemediationAction, updateRemediationAction).
CompletedIsDated ==
  \A a \in ActionIds : actions[a] # Absent => (actions[a].dated <=> actions[a].status = "completed")

\* The form that will be saved was filled for the issuance shown, unless the dialog
\* was closed while a request about evidence or actions was under way (Refresh then
\* puts the earlier issuance back above the form of a later one).
FormBelongsToIssuance == dialog # Absent /\ ~crossed => form.of = dialog
=============================================================================
