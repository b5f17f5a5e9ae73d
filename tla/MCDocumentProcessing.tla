------------------------ MODULE MCDocumentProcessing ------------------------
(***************************************************************************)
(* The documents component under three regimes, chosen in the initial      *)
(* state: "faulty" (concurrent handlers, a crash, Redis and task failures),*)
(* "racing" (more concurrent requests, Redis may refuse) and "serial" (one *)
(* handler at a time, nothing fails, two submissions of the cycle).  The   *)
(* first two begin after an earlier submission d2 was returned and         *)
(* superseded, the third with no document.                                 *)
(***************************************************************************)
EXTENDS DocumentProcessing

CONSTANTS d1, d2, p1, p2
VARIABLE regime

ASSUME RegimeConstants ==
  /\ {d1, d2} \subseteq Docs /\ {p1, p2} \subseteq Procs
  /\ MaxRequests >= 4 /\ MaxCrashes >= 1

Bounds(requests, crashes, faults) ==
  [requests |-> MaxRequests - requests, crashes |-> MaxCrashes - crashes, faults |-> faults]

\* d2 was uploaded, scored, returned by a reviewer and superseded.
AfterSuperseding(c, bounds) ==
  InitWith([NoDocument EXCEPT ![d2] = [status |-> "pending", current |-> 1, text |-> c, deleted |-> TRUE]],
           [NoRows EXCEPT ![d2] = <<[number |-> 1, content |-> c, text |-> c]>>],
           [NoRows EXCEPT ![d2] = <<[v |-> 1, decision |-> "needs_revision", auto |-> FALSE]>>],
           [NoResults EXCEPT ![d2][1] = c],
           bounds)

MCvars == <<vars, regime>>
MCInit ==
  \/ /\ regime = "faulty"
     /\ \E c \in Docx \cap Readable : AfterSuperseding(c, Bounds(2, 1, Faults))
  \/ /\ regime = "racing"
     /\ \E c \in Docx \cap Readable : AfterSuperseding(c, Bounds(3, 0, Faults \ {"task"}))
  \/ /\ regime = "serial"
     /\ InitWith(NoDocument, NoRows, NoRows, NoResults, Bounds(4, 0, {}))
MCNext ==
  /\ UNCHANGED regime
  /\ \/ regime = "serial" /\ Step(p1)
     \/ regime # "serial" /\ Next

\* The fairness of DocumentProcessing, in the two regimes liveness is about.
FaultyRuns(p) == UNCHANGED regime /\ regime = "faulty" /\ Running(p)
SerialRuns == UNCHANGED regime /\ regime = "serial" /\ Running(p1)
Background ==
  /\ UNCHANGED regime
  /\ \/ /\ regime = "faulty"
        /\ \E p \in Procs : \/ WorkerTake(p)
                            \/ \E t \in timers : WatchdogFires(p, t)
                            \/ \E d \in Docs : RecoverDocument(p, d)
     \/ /\ regime = "serial"
        /\ WorkerTake(p1) \/ \E t \in timers : WatchdogFires(p1, t)
MCSpec == /\ MCInit /\ [][MCNext]_MCvars
          /\ \A p \in Procs : WF_MCvars(FaultyRuns(p))
          /\ WF_MCvars(SerialRuns) /\ WF_MCvars(Background)

\* metrics of the current version when nothing races or fails
DocCurrentVersionScored == regime = "serial" => CurrentVersionScored
\* no document stays in processing, under crashes and failures
DocProcessingEnds == \A d \in Docs : (regime = "faulty" /\ InProcessing(d)) ~> ~InProcessing(d)
\* watchdogs and queue score every upload
Unscored(d) == regime = "serial" /\ ver[d] # <<>> /\ scored[d][1] = None
DocUploadIsScored == \A d \in {d1, d2} : Unscored(d) ~> ~Unscored(d)

\* However uploads, returns, jobs and watchdogs race, a document keeps its shape
\* and an unbroken version history; without races its versions have one automatic
\* review each and the cycle one active submission.
DocVersionsHold == /\ TypeOK /\ VersionHistory
                   /\ regime = "serial" => OneAutoReview /\ OneSubmissionPerCycle

\* What was uploaded is processed to an end, and scored where nothing fails.
DocWorkEnds == DocProcessingEnds /\ DocUploadIsScored
=============================================================================
