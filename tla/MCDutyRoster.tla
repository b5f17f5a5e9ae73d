---------------------------- MODULE MCDutyRoster ----------------------------
(***************************************************************************)
(* Two technicians, the officer of the day and one morning meeting.  The   *)
(* day is entered at three points: before anybody has arrived (with one    *)
(* administrative change less), with everybody present and the officer of  *)
(* the day proposed, and with the officer of the day already on duty.      *)
(***************************************************************************)
EXTENDS DutyRoster

CONSTANTS t1, t2, m1

MCOrder    == <<t1, t2>>
MCVenue    == [m \in {m1} |-> "ROC"]
MCPeriod   == [m \in {m1} |-> "AM"]
MCPriority == <<"OD", "ROC">>

Rows      == [t \in Techs |-> AttendanceRow("present", TRUE, FALSE, None)]
Confirmed == [m \in Meetings |-> "confirmed"]
Proposed  ==
  reconcileToday([res |-> Confirmed, rel |-> [m \in Meetings |-> {}], exc |-> {},
                  log |-> [x \in (Slots \cup Meetings) \X Techs |-> 0]],
                 Rows, [s \in Slots |-> NoCoverage]).c

\* One of the two has just arrived: nobody is proposed for the meeting yet.
EverybodyPresent ==
  closed = FALSE /\ InitWith(Rows, Techs, Confirmed, [Proposed EXCEPT ![Slot(m1)] = NoCoverage], 0)

OfficerOnDuty ==
  /\ closed = FALSE
  /\ LET t == Proposed[OD].primary IN
     InitWith([Rows EXCEPT ![t] = AttendanceRow("out_of_office", TRUE, TRUE, "OD")], Techs, Confirmed,
              [Proposed EXCEPT ![OD] = [@ EXCEPT !.status = "active", !.assigned = t, !.over = TRUE]], 0)

NobodyYet == InitWith([t \in Techs |-> NoRow], {}, [m \in Meetings |-> "none"],
                      [s \in Slots |-> NoCoverage], 1)

MCInit == EverybodyPresent \/ OfficerOnDuty \/ NobodyYet
MCSpec == MCInit /\ [][DutyNext]_dutyVars /\ Fairness
=============================================================================
