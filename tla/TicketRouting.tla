---------------------------- MODULE TicketRouting ----------------------------
(***************************************************************************)
(* Where a ticket goes: administrators keep categories, issues and keyword *)
(* rules; a filed ticket is moved by the rule its text matches, its        *)
(* support type, category and issue are checked together, and staff may    *)
(* correct them later.  The settings may change while a ticket is being    *)
(* filed or corrected.                                                     *)
(*                                                                         *)
(* A text is the set of keywords it contains; a longer keyword is a        *)
(* greater number.  Who may change what is left out.                       *)
(***************************************************************************)
EXTENDS Integers, FiniteSets

CONSTANTS Categories, Issues, Rules,
          Unnamed,                \* no category, no issue, nothing given
          MaxSettings, MaxFilings

Supports == {"it", "pantawid", "specialized"}
Keywords == 1..2
RuleRow  == [type : {"it", "pantawid"}, cat : Categories, issue : Issues \cup {Unnamed}, kw : Keywords, there : BOOLEAN]

ASSUME RoutingAssumption ==
  /\ MaxSettings \in Nat /\ MaxFilings \in Nat
  /\ Unnamed \notin Categories \cup Issues /\ "cleared" \notin Issues /\ Unnamed \notin RuleRow

VARIABLES
  rtCat, rtIssue, rtRule,
  rtFiling,      \* a ticket being filed or corrected
  rtTicket,
  rtOvertaken,   \* history variable: the settings changed during the filing
  rtBlank,       \* history variable: issues created active without a time limit
  rtRefused,     \* history variable: why the last filing was refused
  rtChanges, rtFilings
rtVars == <<rtCat, rtIssue, rtRule, rtFiling, rtTicket, rtOvertaken, rtBlank, rtRefused, rtChanges, rtFilings>>
rtSettings == <<rtCat, rtIssue, rtRule, rtBlank, rtChanges>>

----------------------------------------------------------------------------
(* Checking a selection                                                    *)

listedCategory(c) == c # Unnamed /\ ~rtCat[c].deleted /\ rtCat[c].active
categorySupportsTicketType(c, t) == t \in rtCat[c].types

\* Mutant: the issue need not be one of the category
anyActiveIssue(c, i) == i # Unnamed => ~rtIssue[i].deleted /\ rtIssue[i].active
issueFits(c, i) == i # Unnamed => ~rtIssue[i].deleted /\ rtIssue[i].active /\ rtIssue[i].cat = c

validateRoutingSelection(t, c, i) == listedCategory(c) /\ categorySupportsTicketType(c, t) /\ issueFits(c, i)

usable(r) == /\ rtRule[r].there
             /\ listedCategory(rtRule[r].cat) /\ categorySupportsTicketType(rtRule[r].cat, rtRule[r].type)
             /\ issueFits(rtRule[r].cat, rtRule[r].issue)

\* The rules of the longest keyword found; one for the support type chosen comes
\* first, otherwise all must name the same one.
found(text) == LET hits == {r \in Rules : usable(r) /\ rtRule[r].kw \in text}
               IN  {r \in hits : \A s \in hits : rtRule[s].kw <= rtRule[r].kw}

matchKeywordRules(text, t) ==
  LET rules  == found(text)
      direct == {r \in rules : rtRule[r].type = t}
  IN  CASE direct # {} -> direct
        [] direct = {} /\ Cardinality({rtRule[r].type : r \in rules}) = 1 -> rules
        [] OTHER -> {}

----------------------------------------------------------------------------
(* The settings                                                            *)

changing == /\ rtChanges' = rtChanges + 1
            /\ rtOvertaken' = TRUE /\ UNCHANGED <<rtFiling, rtTicket, rtRefused, rtFilings>>

\* A row is read and saved whole: one that was deleted in between comes back.
\* Creating a category of a deleted one's key takes that row up again too, with
\* its old issues and rules.
SaveCategory(c, types, active) ==
  /\ changing /\ types # {}
  /\ rtCat' = [rtCat EXCEPT ![c] = [types |-> types, active |-> active, deleted |-> FALSE]]
  /\ UNCHANGED <<rtIssue, rtRule, rtBlank>>

DeleteCategory(c) ==
  /\ changing /\ ~rtCat[c].deleted
  /\ rtCat' = [rtCat EXCEPT ![c].deleted = TRUE, ![c].active = FALSE]
  /\ UNCHANGED <<rtIssue, rtRule, rtBlank>>

\* Without a time limit an issue is switched off, and cannot be switched on.
\* Mutant: it stays on
limitOnly(row, sla) == [row EXCEPT !.sla = sla]
withLimit(row, sla) == [row EXCEPT !.sla = sla, !.active = @ /\ sla]

UpdateIssueType(i, c, sla, active) ==
  /\ changing /\ (c # Unnamed => ~rtCat[c].deleted)
  /\ LET row == withLimit([rtIssue[i] EXCEPT !.cat = c, !.deleted = FALSE], sla)
     IN  /\ active = TRUE => row.sla
         /\ rtIssue' = [rtIssue EXCEPT ![i] = IF active = Unnamed THEN row ELSE [row EXCEPT !.active = active]]
  /\ UNCHANGED <<rtCat, rtRule, rtBlank>>

DeleteIssueType(i) ==
  /\ changing /\ ~rtIssue[i].deleted
  /\ rtIssue' = [rtIssue EXCEPT ![i].deleted = TRUE, ![i].active = FALSE]
  /\ UNCHANGED <<rtCat, rtRule, rtBlank>>

\* The page asks for a time limit; the service takes what it is given
CreateIssueType(i, c, sla, active) ==
  /\ changing /\ rtIssue[i].deleted /\ (c # Unnamed => ~rtCat[c].deleted)
  /\ rtIssue' = [rtIssue EXCEPT ![i] = [cat |-> c, sla |-> sla, active |-> active, deleted |-> FALSE]]
  /\ rtBlank' = IF active /\ ~sla THEN rtBlank \cup {i} ELSE rtBlank
  /\ UNCHANGED <<rtCat, rtRule>>

\* The page asks for an issue too; the service lets a rule name none
SaveKeywordRule(r, row) ==
  /\ changing
  /\ validateRoutingSelection(row.type, row.cat, row.issue)
  /\ rtRule' = [rtRule EXCEPT ![r] = row]
  /\ UNCHANGED <<rtCat, rtIssue, rtBlank>>

\* Or switch it off
DeleteKeywordRule(r) ==
  /\ changing /\ rtRule[r].there
  /\ rtRule' = [rtRule EXCEPT ![r].there = FALSE]
  /\ UNCHANGED <<rtCat, rtIssue, rtBlank>>

----------------------------------------------------------------------------
(* Filing                                                                  *)

\* Staff must name an issue, and it must be an active one; what an end user names
\* is left out.
createTicketInternal(user, t, c, i, text) ==
  /\ rtTicket = Unnamed /\ rtFilings' = rtFilings + 1
  /\ ~user => i # Unnamed /\ ~rtIssue[i].deleted /\ rtIssue[i].active
  /\ LET issue == IF user THEN Unnamed ELSE i
     IN  rtFiling' = [stage |-> "match", user |-> user, chosen |-> t, type |-> t, cat |-> c, issue |-> issue,
                      text |-> text, rule |-> Unnamed, valid |-> validateRoutingSelection(t, c, issue)]
  /\ rtOvertaken' = FALSE /\ rtRefused' = Unnamed
  /\ UNCHANGED <<rtTicket, rtSettings>>

movable(t) == t # "specialized"

\* What the rule does not name stays as it was chosen
shifted(f, r) ==
  LET m == rtRule[r]
  IN  [f EXCEPT !.stage = "check", !.text = {}, !.type = m.type, !.cat = m.cat,
                !.issue = IF m.issue # Unnamed THEN m.issue ELSE @, !.rule = m]

\* No rule may match, and reading them may fail, which is put up with
MatchRule ==
  /\ rtFiling # Unnamed /\ rtFiling.stage = "match"
  /\ \/ \E r \in matchKeywordRules(rtFiling.text, rtFiling.type) :
          movable(rtFiling.type) /\ rtFiling' = shifted(rtFiling, r)
     \/ rtFiling' = [rtFiling EXCEPT !.stage = "check", !.text = {}]
  /\ UNCHANGED <<rtTicket, rtOvertaken, rtRefused, rtFilings, rtSettings>>

Validate ==
  /\ rtFiling # Unnamed /\ rtFiling.stage = "check"
  /\ IF validateRoutingSelection(rtFiling.type, rtFiling.cat, rtFiling.issue)
     THEN rtFiling' = [rtFiling EXCEPT !.stage = "save"] /\ UNCHANGED rtRefused
     ELSE rtFiling' = Unnamed /\ rtRefused' = [valid |-> rtFiling.valid, overtaken |-> rtOvertaken, rule |-> rtFiling.rule]
  /\ UNCHANGED <<rtTicket, rtOvertaken, rtFilings, rtSettings>>

\* One that goes to work at once has a deadline for its issue
Save(started) ==
  /\ rtFiling # Unnamed /\ rtFiling.stage = "save"
  /\ rtTicket' = [user |-> rtFiling.user, chosen |-> rtFiling.chosen, type |-> rtFiling.type, cat |-> rtFiling.cat,
                  issue |-> rtFiling.issue, ruled |-> rtFiling.rule # Unnamed,
                  started |-> started, dueFor |-> IF started THEN rtFiling.issue ELSE "none"]
  /\ rtFiling' = Unnamed
  /\ UNCHANGED <<rtOvertaken, rtRefused, rtFilings, rtSettings>>

StartWork ==
  /\ rtTicket # Unnamed /\ ~rtTicket.started /\ rtFiling = Unnamed
  /\ rtTicket' = [rtTicket EXCEPT !.started = TRUE, !.dueFor = rtTicket.issue]
  /\ UNCHANGED <<rtFiling, rtOvertaken, rtRefused, rtFilings, rtSettings>>

----------------------------------------------------------------------------
(* Correcting                                                              *)

\* A field that is not given keeps its value, unless the support type changes.
\* "cleared" asks for no issue.
inherited(given, typeChanged, old) == IF given = Unnamed THEN (IF typeChanged THEN Unnamed ELSE old) ELSE given

mayClearInheritedIssue(given, typeChanged, catChanged, next) ==
  next # Unnamed /\ given = Unnamed /\ (typeChanged \/ catChanged)

recalculateTicketSlaAfterRoutingChange(k, next) == IF k.started /\ next # k.issue THEN next ELSE k.dueFor

Correct(t, c, i) ==
  /\ rtTicket # Unnamed /\ rtFilings' = rtFilings + 1
  /\ <<t, c, i>> # <<Unnamed, Unnamed, Unnamed>>
  /\ LET type == IF t = Unnamed THEN rtTicket.type ELSE t
         tc   == type # rtTicket.type
         cat  == inherited(c, tc, rtTicket.cat)
         next == IF i = "cleared" THEN Unnamed ELSE inherited(i, tc, rtTicket.issue)
         fits == validateRoutingSelection(type, cat, next)
         drop == mayClearInheritedIssue(i, tc, cat # rtTicket.cat, next) /\ validateRoutingSelection(type, cat, Unnamed)
     IN  /\ (IF cat = Unnamed THEN next = Unnamed ELSE ~fits => drop)
         /\ LET new == IF cat # Unnamed /\ ~fits THEN Unnamed ELSE next
            IN  rtFiling' = [stage |-> "corrected", named |-> i,
                             row |-> [rtTicket EXCEPT !.type = type, !.cat = cat, !.issue = new, !.ruled = FALSE, !.user = FALSE,
                                                      !.chosen = type,
                                                      !.dueFor = recalculateTicketSlaAfterRoutingChange(rtTicket, new)]]
  /\ rtOvertaken' = FALSE
  /\ UNCHANGED <<rtTicket, rtRefused, rtSettings>>

SaveCorrection ==
  /\ rtFiling # Unnamed /\ rtFiling.stage = "corrected"
  /\ rtTicket' = rtFiling.row /\ rtFiling' = Unnamed
  /\ UNCHANGED <<rtOvertaken, rtRefused, rtFilings, rtSettings>>

----------------------------------------------------------------------------
TypeSets == {{"it"}, {"it", "pantawid"}, {"specialized"}}
RuleRows == {row \in RuleRow : row.there}

ChangeSettings ==
  \/ \E c \in Categories, ts \in TypeSets, b \in BOOLEAN : SaveCategory(c, ts, b)
  \/ \E c \in Categories : DeleteCategory(c)
  \/ \E i \in Issues, c \in Categories \cup {Unnamed}, sla \in BOOLEAN :
       (\E b \in BOOLEAN \cup {Unnamed} : UpdateIssueType(i, c, sla, b)) \/ (\E b \in BOOLEAN : CreateIssueType(i, c, sla, b))
  \/ \E i \in Issues : DeleteIssueType(i)
  \/ \E r \in Rules : DeleteKeywordRule(r) \/ \E row \in RuleRows : SaveKeywordRule(r, row)

\* One request about a ticket at a time.
FileOrCorrect ==
  \/ \E user \in BOOLEAN, t \in Supports, c \in Categories, text \in SUBSET Keywords :
       \E i \in IF user THEN {Unnamed} ELSE Issues : createTicketInternal(user, t, c, i, text)
  \/ \E t \in Supports \cup {Unnamed}, c \in Categories \cup {Unnamed}, i \in Issues \cup {Unnamed, "cleared"} : Correct(t, c, i)

RoutingNext ==
  \/ rtChanges < MaxSettings /\ ChangeSettings
  \/ rtFiling = Unnamed /\ rtFilings < MaxFilings /\ FileOrCorrect
  \/ MatchRule \/ Validate \/ (\E b \in BOOLEAN : Save(b)) \/ StartWork \/ SaveCorrection

----------------------------------------------------------------------------
(* Properties                                                              *)

\* Rows, filings and tickets have their types.
RoutingTypeOK ==
  /\ \A c \in Categories : rtCat[c].types \in (SUBSET Supports) \ {{}} /\ (rtCat[c].deleted => ~rtCat[c].active)
  /\ \A i \in Issues : rtIssue[i].cat \in Categories \cup {Unnamed} /\ (rtIssue[i].deleted => ~rtIssue[i].active)
  /\ rtTicket # Unnamed => rtTicket.type \in Supports /\ rtTicket.cat \in Categories \cup {Unnamed}

\* An active issue has a time limit, unless it was created without one: clearing
\* the limit switches the issue off, however saves overlap.
ActiveIssueHasLimit == \A i \in Issues : rtIssue[i].active => rtIssue[i].sla \/ i \in rtBlank

\* A filing that chose a category and an issue that fit is refused only if the
\* settings changed meanwhile, or if its text matches a rule that names a
\* category and no issue: the issue chosen then does not fit the rule's category.
RefusalHasAReason ==
  rtRefused # Unnamed /\ rtRefused.valid /\ ~rtRefused.overtaken => rtRefused.rule # Unnamed /\ rtRefused.rule.issue = Unnamed

\* Specialized work stays where it was put, and an end user's ticket has an issue
\* only if a rule gave it one.
FilersChoiceKept ==
  rtTicket # Unnamed => /\ (rtTicket.chosen = "specialized" => rtTicket.type = "specialized" /\ ~rtTicket.ruled)
                        /\ (rtTicket.user /\ rtTicket.issue # Unnamed => rtTicket.ruled)

\* The deadline of a ticket at work is the one of its issue.
DeadlineFollowsIssue == rtTicket # Unnamed /\ rtTicket.started => rtTicket.dueFor = rtTicket.issue

\* When a ticket is filed or corrected and the settings did not change meanwhile,
\* its support type, category and issue fit each other.
FiledTogether ==
  rtTicket' # rtTicket /\ (rtTicket # Unnamed => rtTicket.issue # rtTicket'.issue \/ rtTicket.cat # rtTicket'.cat) /\ ~rtOvertaken
       => /\ rtTicket'.cat # Unnamed => rtCat[rtTicket'.cat].active /\ rtTicket'.type \in rtCat[rtTicket'.cat].types
          /\ rtTicket'.issue # Unnamed => rtIssue[rtTicket'.issue].active /\ rtIssue[rtTicket'.issue].cat = rtTicket'.cat

\* A correction that names an issue gives the ticket that issue or is refused.
NamedIssueNeverDropped ==
  rtFiling # Unnamed /\ rtFiling.stage = "corrected" /\ rtFiling.named \in Issues /\ rtTicket' # rtTicket
       => rtTicket'.issue = rtFiling.named

\* Tickets, issues, rules and refusals fit the settings they came from.
RoutingHolds ==
  RoutingTypeOK /\ ActiveIssueHasLimit /\ RefusalHasAReason /\ FilersChoiceKept /\ DeadlineFollowsIssue

\* What filing and correcting store fits together, and a named issue is stored.
StoredTogether == [][FiledTogether /\ NamedIssueNeverDropped]_rtVars

RoutingInit ==
  /\ rtCat \in [Categories -> [types : TypeSets, active : {TRUE}, deleted : {FALSE}]]
  /\ rtIssue \in [Issues -> [cat : Categories, sla : {TRUE}, active : BOOLEAN, deleted : BOOLEAN]]
  /\ \A i \in Issues : rtIssue[i].active <=> ~rtIssue[i].deleted
  /\ rtRule \in [Rules -> RuleRow]
  /\ rtFiling = Unnamed /\ rtTicket = Unnamed /\ rtOvertaken = FALSE /\ rtBlank = {} /\ rtRefused = Unnamed
  /\ rtChanges = 0 /\ rtFilings = 0

RoutingSpec == RoutingInit /\ [][RoutingNext]_rtVars
=============================================================================
