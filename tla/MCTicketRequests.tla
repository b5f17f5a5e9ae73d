-------------------------- MODULE MCTicketRequests --------------------------
(* Instances of TicketRequests for TLC.                                    *)
EXTENDS TicketRequests, TLC

AllOps == VersionedOps \cup PlainOps

(* Handlers are interchangeable, and so are staff members.                 *)
Interchangeable == Permutations(Requests) \cup Permutations(Staff)
=============================================================================
