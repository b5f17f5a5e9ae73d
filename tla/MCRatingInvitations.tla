------------------------ MODULE MCRatingInvitations ------------------------
(***************************************************************************)
(* Two invitations of two tickets, two requests in flight: interleaved     *)
(* requests meet one outside event, requests run one by one meet two.      *)
(* And what reports make of the tickets, and of one ticket's               *)
(* interruptions, and where a ticket goes, each by itself: `part` settles  *)
(* which of the four a behaviour is about, the others stay as they are     *)
(* initially.                                                              *)
(***************************************************************************)
EXTENDS RatingInvitations, TicketFigures, InterruptionHistory, TicketRouting, TLC

CONSTANTS i1, i2, k1, k2, c1, c2, a, b, net, mail, slow, lost, ru1, ru2
VARIABLE part

allVars == <<vars, figVars, ihVars, rtVars, part>>

Sym == Permutations({i1, i2}) \cup Permutations({k1, k2}) \cup Permutations({c1, c2})

\* A ticket begun at once by each technician, one without hours and for
\* overtime, and one nobody has.
ThreeFilings == {[type |-> "it", timed |-> TRUE, ot |-> FALSE, owner |-> a, begun |-> TRUE],
                 [type |-> "desk", timed |-> FALSE, ot |-> TRUE, owner |-> b, begun |-> TRUE],
                 [type |-> "desk", timed |-> TRUE, ot |-> FALSE, owner |-> Unset, begun |-> FALSE]}
FourSteps == <<4, 4>>

\* Two categories with an issue each, one for two support types; a rule that moves
\* tickets to the first, with or without its issue, perhaps one for the second.
RoutingStart ==
  \E i \in {slow, Unnamed}, there, gone \in BOOLEAN :
    /\ rtCat = (net :> [types |-> {"it", "pantawid"}, active |-> TRUE, deleted |-> FALSE]
                @@ mail :> [types |-> {"it"}, active |-> TRUE, deleted |-> FALSE])
    /\ rtIssue = (slow :> [cat |-> net, sla |-> TRUE, active |-> TRUE, deleted |-> FALSE]
                  @@ lost :> [cat |-> mail, sla |-> TRUE, active |-> ~gone, deleted |-> gone])
    /\ rtRule = (ru1 :> [type |-> "pantawid", cat |-> net, issue |-> i, kw |-> 2, there |-> TRUE]
                 @@ ru2 :> [type |-> "it", cat |-> mail, issue |-> lost, kw |-> 2, there |-> there])

MCInit ==
  /\ part \in {"ratings", "figures", "history", "routing"}
  /\ serial \in BOOLEAN /\ InitWith(IF serial THEN 0 ELSE 1) /\ (part # "ratings" => serial)
  /\ FigInit
  /\ IhInit /\ (part # "history" => ihTrail = <<>> /\ ~ihRecords /\ ~ihAudited /\ ihTicket.st = "open")
  /\ RoutingStart /\ RoutingInit /\ (part # "routing" => ~rtRule[ru2].there /\ rtRule[ru1].issue = slow /\ ~rtIssue[lost].deleted)

MCNext ==
  /\ UNCHANGED part
  /\ \/ part = "ratings" /\ Next /\ UNCHANGED <<figVars, ihVars, rtVars>>
     \/ part = "figures" /\ FigNext /\ UNCHANGED <<vars, ihVars, rtVars>>
     \/ part = "history" /\ IhNext /\ UNCHANGED <<vars, figVars, rtVars>>
     \/ part = "routing" /\ RoutingNext /\ UNCHANGED <<vars, figVars, ihVars>>

MCSpec == MCInit /\ [][MCNext]_allVars
=============================================================================
