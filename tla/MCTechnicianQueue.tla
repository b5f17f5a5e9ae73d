------------------------- MODULE MCTechnicianQueue -------------------------
(* Instances of TechnicianQueue for TLC.                                   *)
EXTENDS TechnicianQueue, TLC

(* Staff members are interchangeable, and so are handlers.                 *)
Interchangeable == Permutations(Staff) \cup Permutations(Handlers)
=============================================================================
