---------------------------- MODULE MCTicketDesk ----------------------------
(***************************************************************************)
(* One ticket's clock, what is said on one ticket, and the list of tickets *)
(* in the browser, each by itself: `part` settles which of them a          *)
(* behaviour is about; the others stay in an initial state.                *)
(***************************************************************************)
EXTENDS SlaClock, TicketConversation, TicketListPage, TLC

CONSTANTS u, a, m, g, h
VARIABLE part

deskVars == <<slaVars, convVars, tlVars, part>>

\* A day of six slots: before work, the morning's two, lunch, the afternoon's
\* one, after work.  In compressed weeks all are present one slot after work
\* begins and the job stops one after it ends.
SixSlots == [OFFICE_HOURS |-> [in |-> 1, resume |-> 1, out |-> 5, stop |-> 5],
             CWW          |-> [in |-> 1, resume |-> 2, out |-> 5, stop |-> 6]]

\* A requester, a technician who sees every ticket, and an escalation focal who
\* administers the settings.
RolesOf == (u :> {"user"} @@ a :> {"technician", "all"} @@ m :> {"settings", "escalation"})

\* Requests in flight are alike.
InFlight == Permutations(Slots)

DeskInit ==
  /\ part \in {"clock", "conversation", "list"}
  /\ SlaInit
  /\ ConvInit /\ tk.requester = u /\ tk.creator \in {u, m} /\ (tk.overtime => tk.creator = m)
  /\ part # "clock" => mode = "CWW" /\ officeDays = {0} /\ overtimeDays = {}
  /\ (part = "clock" /\ mode = "CWW") => officeDays = 0..LastDay
  /\ tk.overtime \/ (part = "conversation" /\ tk.creator = u)
  /\ ListInit /\ tlServer.pages = 2 /\ (tlSide.of = "history" <=> tlView.filter = "all")
  /\ part # "list" => tlView.filter = "all" /\ tlSide.of = "history"

DeskNext ==
  /\ UNCHANGED part
  /\ \/ part = "clock" /\ SlaNext /\ UNCHANGED <<convVars, tlVars>>
     \/ part = "conversation" /\ ConvNext /\ UNCHANGED <<slaVars, tlVars>>
     \/ part = "list" /\ ListNext /\ UNCHANGED <<slaVars, convVars>>

DeskSpec == DeskInit /\ [][DeskNext]_deskVars
=============================================================================
