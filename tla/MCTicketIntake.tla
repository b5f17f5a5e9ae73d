--------------------------- MODULE MCTicketIntake ---------------------------
(***************************************************************************)
(* What happens to tickets when they come in, in two parts that share      *)
(* nothing: which of them are marked as duplicates of which, and who       *)
(* receives them.  `part` settles which of the two a behaviour is about.   *)
(***************************************************************************)
EXTENDS MCTicketRequests, AutoAssignment

CONSTANTS a, b, u
VARIABLE part

intakeVars == <<vars, aaVars, part>>

\* Two technicians of one team; b also carries specialized support.
TeamOf == (a :> "it" @@ b :> "it")

\* A user's ticket, a technician's own, and one filed for a requester who is
\* not registered yet.
Filed == {[type |-> "it", req |-> u, by |-> u, pending |-> FALSE],
          [type |-> "it", req |-> a, by |-> a, pending |-> FALSE],
          [type |-> "pantawid", req |-> u, by |-> a, pending |-> TRUE]}

IntakeInit ==
  /\ part \in {"duplicates", "assignment"}
  /\ Init
  /\ AaInit /\ \A k \in AaTechnicians : aaAtt[0][k] = "available"
  /\ aaDay.kind = "office" \/ (aaDay.kind = "free" /\ aaStrategy = "zero")
  /\ part = "assignment" => row = [t \in Tickets |-> EmptyRow]
  /\ part = "duplicates" => aaStrategy = "paused"

IntakeNext ==
  /\ UNCHANGED part
  /\ \/ part = "duplicates" /\ Next /\ UNCHANGED aaVars
     \/ part = "assignment" /\ AaNext /\ UNCHANGED vars

IntakeSpec == IntakeInit /\ [][IntakeNext]_intakeVars
=============================================================================
