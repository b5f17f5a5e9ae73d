-------------------------- MODULE DocumentProcessing --------------------------
(***************************************************************************)
(* Compliance documents: focal submissions, versions, the background       *)
(* processing and metric jobs with their watchdogs and inline fallbacks,   *)
(* manual and automatic reviews, and start-up recovery.  Every await of a  *)
(* handler that other work can interleave with is a step of a process p;   *)
(* proc[p] holds what the handler has read so far.  All documents belong   *)
(* to one submission cycle (one unit, type, period, year and uploader).    *)
(***************************************************************************)
EXTENDS Naturals, Sequences, FiniteSets, SequencesExt

CONSTANTS Docs,        \* document rows that can be created
          Procs,       \* handlers that can run at the same time
          Contents,    \* distinct files
          Docx,        \* the files whose name ends in .docx
          Readable,    \* the files a parser can extract text from
          Failing,     \* the texts some applicable metric rejects
          NoText,      \* the empty extracted text
          None,        \* no document, nothing read
          MaxVersions, MaxRequests, MaxCrashes,   \* bounds
          Faults       \* subset of {"redis", "task"}: which calls can fail

Statuses  == {"pending", "processing", "ready", "failed"}
Decisions == {"compliant", "needs_revision", "non_compliant"}
Returning == {"needs_revision", "non_compliant"}
Texts     == Contents \cup {NoText}
Document  == [status : Statuses, current : 1..MaxVersions, text : Texts, deleted : BOOLEAN]

ASSUME DocumentConstants ==
  /\ Docx \subseteq Contents /\ Readable \subseteq Contents
  /\ NoText \notin Contents /\ Failing \subseteq Contents \cup {NoText}
  /\ MaxVersions \in Nat \ {0} /\ MaxRequests \in Nat /\ MaxCrashes \in Nat
  /\ IsFiniteSet(Procs) /\ None \notin Document

VARIABLES
  doc,        \* documents: [status, current, text, deleted] or None
  ver,        \* document_versions of each document, in insertion order
  rev,        \* manual_reviews of each document, by reviewed_at
  scored,     \* text each version's latest metric results were computed on
  jobs,       \* the Bull queue "document-processing"
  timers,     \* watchdogs that setTimeout will fire
  proc,       \* running handlers
  recovering, \* documents start-up recovery has still to handle
  abandoned,  \* documents whose watchdog fallback failed (history)
  used        \* bounds: requests made, crashes met, and the calls that can fail

vars == <<doc, ver, rev, scored, jobs, timers, proc, recovering, abandoned, used>>

MetricOps == {"metrics", "findReview", "saveReview"}
Idle      == [op |-> "idle"]

Existing  == {d \in Docs : doc[d] # None}
Active    == {d \in Existing : ~doc[d].deleted}
Number(d, v) == ver[d][v].number
CurrentVersions(d) == {v \in DOMAIN ver[d] : Number(d, v) = doc[d].current}
LatestNumber(d) == Max({Number(d, v) : v \in DOMAIN ver[d]} \cup {0})

\* extractInitialText at upload and the parsers of the processing job
extractInitialText(c) == IF c \in Docx \cap Readable THEN c ELSE NoText
extractedText(c)      == IF c \in Readable THEN c ELSE NoText

\* latestReview, with order reviewed_at DESC; "pending" when there is none
latestDecision(d) == IF rev[d] = <<>> THEN "pending" ELSE Last(rev[d]).decision
isReturned(d)     == latestDecision(d) \in Returning

\* Nothing runs or waits; the documents are as given.
InitWith(docs, versions, reviews, results, bounds) ==
  /\ doc = docs /\ ver = versions /\ rev = reviews /\ scored = results /\ used = bounds
  /\ jobs = <<>> /\ timers = {} /\ recovering = {} /\ abandoned = {}
  /\ proc = [p \in Procs |-> Idle]

NoDocument  == [d \in Docs |-> None]
NoRows      == [d \in Docs |-> <<>>]
NoResults   == [d \in Docs |-> [v \in 1..MaxVersions |-> None]]
Init == InitWith(NoDocument, NoRows, NoRows, NoResults,
                 [requests |-> 0, crashes |-> 0, faults |-> Faults])

----------------------------------------------------------------------------
\* Handing work to the queue, or running it here when Redis is unreachable.
\* Both leave p with what it does next; `from' says who catches a failure.

Finish(p)      == proc' = [proc EXCEPT ![p] = Idle]
Continue(p, r) == proc' = [proc EXCEPT ![p] = r]
Task(op, d, v, from) == [op |-> op, d |-> d, v |-> v, from |-> from]
Job(op, d, v) == [op |-> op, d |-> d, v |-> v]

enqueueOrFallback(op, p, d, v, from) ==
  \/ /\ jobs' = Append(jobs, Job(op, d, v))
     /\ timers' = timers \cup {Job(op, d, v)}
     /\ Finish(p)
  \/ /\ "redis" \in used.faults
     /\ Continue(p, Task(op, d, v, from))
     /\ UNCHANGED <<jobs, timers>>

enqueueMetricsOrFallback(p, d, v, from) == enqueueOrFallback("metrics", p, d, v, from)
enqueueProcessOrFallback(p, d, v, from) == enqueueOrFallback("process", p, d, v, from)

----------------------------------------------------------------------------
\* Focal upload: duplicate check, superseding a returned submission, the
\* document row, the version row, and the kick-off, each a separate await.

\* A request can start: p is idle, start-up recovery is over.
Free(p) == /\ proc[p] = Idle /\ recovering = {}
           /\ used.requests < MaxRequests
           /\ used' = [used EXCEPT !.requests = @ + 1]

UploadCheck(p, c) ==
  /\ Free(p)
  /\ Existing # Docs
  /\ \/ /\ Active = {}
        /\ Continue(p, [op |-> "upload", pc |-> "insert", c |-> c])
     \/ \E e \in Active :
          /\ isReturned(e)
          /\ Continue(p, [op |-> "upload", pc |-> "supersede", c |-> c, e |-> e])
  /\ UNCHANGED <<doc, ver, rev, scored, jobs, timers, recovering, abandoned>>

\* The returned submission is soft-deleted; in validateFocalSubmission the file
\* name is examined only afterwards, so a wrong name ends the request here.
UploadSupersede(p) ==
  /\ proc[p].op = "upload" /\ proc[p].pc = "supersede"
  /\ doc' = [doc EXCEPT ![proc[p].e].deleted = TRUE]
  /\ \/ Continue(p, [op |-> "upload", pc |-> "insert", c |-> proc[p].c])
     \/ Finish(p)
  /\ UNCHANGED <<ver, rev, scored, jobs, timers, recovering, abandoned, used>>

UploadInsert(p) ==
  /\ proc[p].op = "upload" /\ proc[p].pc = "insert"
  /\ Docs # Existing
  /\ LET d == CHOOSE x \in Docs \ Existing : TRUE IN
       /\ doc' = [doc EXCEPT ![d] = [status |-> "pending", current |-> 1,
                                     text |-> extractInitialText(proc[p].c), deleted |-> FALSE]]
       /\ Continue(p, [op |-> "upload", pc |-> "version", c |-> proc[p].c, d |-> d])
  /\ UNCHANGED <<ver, rev, scored, jobs, timers, recovering, abandoned, used>>

UploadVersion(p) ==
  /\ proc[p].op = "upload" /\ proc[p].pc = "version"
  /\ LET d == proc[p].d
         row == [number |-> 1, content |-> proc[p].c, text |-> extractInitialText(proc[p].c)]
     IN /\ ver' = [ver EXCEPT ![d] = Append(@, row)]
        /\ Continue(p, [op |-> "upload", pc |-> "kickOff", c |-> proc[p].c, d |-> d])
  /\ UNCHANGED <<doc, rev, scored, jobs, timers, recovering, abandoned, used>>

UploadKickOff(p) ==
  /\ proc[p].op = "upload" /\ proc[p].pc = "kickOff"
  /\ LET d == proc[p].d IN
     \/ /\ extractInitialText(proc[p].c) # NoText
        /\ doc' = [doc EXCEPT ![d].status = "ready"]
        /\ enqueueMetricsOrFallback(p, d, 1, "request")
     \/ /\ extractInitialText(proc[p].c) = NoText
        /\ enqueueProcessOrFallback(p, d, 1, "request")
        /\ UNCHANGED doc
  /\ UNCHANGED <<ver, rev, scored, recovering, abandoned, used>>

uploadDocument(p) == \/ UploadSupersede(p) \/ UploadInsert(p)
                     \/ UploadVersion(p)   \/ UploadKickOff(p)

----------------------------------------------------------------------------
\* A new version: document and latest version are read, then the version row
\* is inserted, then the whole document entity read at the start is saved.

\* Mutant: the next version number skips one.
CreateVersionReadSkips(p, d, c) ==
  /\ Free(p)
  /\ d \in Active /\ ver[d] # <<>> /\ Len(ver[d]) < MaxVersions
  /\ Continue(p, [op |-> "newVersion", pc |-> "version", d |-> d, c |-> c,
                  n |-> LatestNumber(d) + 2, read |-> doc[d]])
  /\ UNCHANGED <<doc, ver, rev, scored, jobs, timers, recovering, abandoned>>

CreateVersionRead(p, d, c) ==
  /\ Free(p)
  /\ d \in Active /\ Len(ver[d]) < MaxVersions
  /\ \E v \in DOMAIN ver[d] :
       /\ Number(d, v) = LatestNumber(d)
       /\ ver[d][v].content # c
  /\ Continue(p, [op |-> "newVersion", pc |-> "version", d |-> d, c |-> c,
                  n |-> LatestNumber(d) + 1, read |-> doc[d]])
  /\ UNCHANGED <<doc, ver, rev, scored, jobs, timers, recovering, abandoned>>

CreateVersionRow(p) ==
  /\ proc[p].op = "newVersion" /\ proc[p].pc = "version"
  /\ LET r == proc[p] IN
     /\ Len(ver[r.d]) < MaxVersions
     /\ ver' = [ver EXCEPT ![r.d] = Append(@, [number |-> r.n, content |-> r.c,
                                               text |-> extractInitialText(r.c)])]
     /\ Continue(p, [op |-> "newVersion", pc |-> "save", d |-> r.d, c |-> r.c, n |-> r.n,
                     read |-> r.read, v |-> Len(ver[r.d]) + 1])
  /\ UNCHANGED <<doc, rev, scored, jobs, timers, recovering, abandoned, used>>

\* save(document) writes every column that differs from the row, so columns
\* changed since the read go back to the values read.  The job is added
\* without a watchdog, and only a warning tells when Redis refuses it.
CreateVersionSave(p) ==
  /\ proc[p].op = "newVersion" /\ proc[p].pc = "save"
  /\ LET r == proc[p] IN
     /\ doc' = [doc EXCEPT ![r.d] = [r.read EXCEPT !.current = r.n, !.status = "ready",
                                                   !.text = extractInitialText(r.c)]]
     /\ \/ jobs' = Append(jobs, Job("process", r.d, r.v))
        \/ "redis" \in used.faults /\ UNCHANGED jobs
  /\ Finish(p)
  /\ UNCHANGED <<ver, rev, scored, timers, recovering, abandoned, used>>

createVersion(p) == CreateVersionRow(p) \/ CreateVersionSave(p)

----------------------------------------------------------------------------
\* Reviews: the current version is read, the review saved, the status set.

ReviewRead(p, d, decision) ==
  /\ Free(p)
  /\ d \in Active
  /\ decision \in Returning => doc[d].status \in {"pending", "ready"}
  /\ \E v \in CurrentVersions(d) :
       Continue(p, [op |-> "review", pc |-> "save", d |-> d, v |-> v, decision |-> decision])
  /\ UNCHANGED <<doc, ver, rev, scored, jobs, timers, recovering, abandoned>>

ReviewSave(p) ==
  /\ proc[p].op = "review" /\ proc[p].pc = "save"
  /\ rev' = [rev EXCEPT ![proc[p].d] =
               Append(@, [v |-> proc[p].v, decision |-> proc[p].decision, auto |-> FALSE])]
  /\ Continue(p, [proc[p] EXCEPT !.pc = "status"])
  /\ UNCHANGED <<doc, ver, scored, jobs, timers, recovering, abandoned, used>>

ReviewStatus(p) ==
  /\ proc[p].op = "review" /\ proc[p].pc = "status"
  /\ doc' = [doc EXCEPT ![proc[p].d].status =
               IF proc[p].decision = "compliant" THEN "ready" ELSE "pending"]
  /\ Finish(p)
  /\ UNCHANGED <<ver, rev, scored, jobs, timers, recovering, abandoned, used>>

submitReview(p, d) == \E decision \in Decisions : ReviewRead(p, d, decision)

\* The return differs from a review only in its fixed decision.
returnDocumentForRevision(p, d) == ReviewRead(p, d, "needs_revision")

\* A focal archives a returned submission: the review is read first.
archiveDocument(p, d) ==
  /\ Free(p)
  /\ d \in Active /\ isReturned(d)
  /\ Continue(p, [op |-> "archive", d |-> d])
  /\ UNCHANGED <<doc, ver, rev, scored, jobs, timers, recovering, abandoned>>

ArchiveUpdate(p) ==
  /\ proc[p].op = "archive"
  /\ doc' = [doc EXCEPT ![proc[p].d].deleted = TRUE]
  /\ Finish(p)
  /\ UNCHANGED <<ver, rev, scored, jobs, timers, recovering, abandoned, used>>

\* document.uploader is never loaded here, so the hard-delete branch is not
\* reached: a compliant document is soft-deleted by saving the entity read.
deleteDocument(p, d) ==
  /\ Free(p)
  /\ d \in Active /\ latestDecision(d) = "compliant"
  /\ Continue(p, [op |-> "delete", d |-> d, read |-> doc[d]])
  /\ UNCHANGED <<doc, ver, rev, scored, jobs, timers, recovering, abandoned>>

DeleteSave(p) ==
  /\ proc[p].op = "delete"
  /\ doc' = [doc EXCEPT ![proc[p].d] = [proc[p].read EXCEPT !.deleted = TRUE]]
  /\ Finish(p)
  /\ UNCHANGED <<ver, rev, scored, jobs, timers, recovering, abandoned, used>>

\* extracted_text is never null once uploaded, so only metrics run again.
reprocessDocument(p, d) ==
  /\ Free(p)
  /\ d \in Existing
  /\ doc' = [doc EXCEPT ![d].status = "ready"]
  /\ \E v \in CurrentVersions(d) : enqueueMetricsOrFallback(p, d, v, "request")
  /\ UNCHANGED <<ver, rev, scored, recovering, abandoned>>

----------------------------------------------------------------------------
\* The processing task, as a Bull handler (from = "worker") or inline.

WorkerTake(p) ==
  /\ proc[p] = Idle /\ jobs # <<>>
  /\ Continue(p, Task(Head(jobs).op, Head(jobs).d, Head(jobs).v, "worker"))
  /\ jobs' = Tail(jobs)
  /\ UNCHANGED <<doc, ver, rev, scored, timers, recovering, abandoned, used>>

ProcessStart(p) ==
  /\ proc[p].op = "process"
  /\ doc' = [doc EXCEPT ![proc[p].d].status = "processing"]
  /\ Continue(p, [proc[p] EXCEPT !.op = "extract"])
  /\ UNCHANGED <<ver, rev, scored, jobs, timers, recovering, abandoned, used>>

ProcessDocument(p) ==
  /\ proc[p].op = "extract"
  /\ LET r == proc[p] IN
     doc' = [doc EXCEPT ![r.d].text = extractedText(ver[r.d][r.v].content),
                        ![r.d].status = "ready"]
  /\ Continue(p, [proc[p] EXCEPT !.op = "stored"])
  /\ UNCHANGED <<ver, rev, scored, jobs, timers, recovering, abandoned, used>>

\* Mutant: the worker does not queue the metrics.
ProcessVersionNoMetrics(p) ==
  /\ proc[p].op = "stored"
  /\ ver' = [ver EXCEPT ![proc[p].d][proc[p].v].text = extractedText(ver[proc[p].d][proc[p].v].content)]
  /\ Finish(p)
  /\ UNCHANGED <<doc, rev, scored, jobs, timers, recovering, abandoned, used>>

ProcessVersion(p) ==
  /\ proc[p].op = "stored"
  /\ LET r == proc[p] IN
     /\ ver' = [ver EXCEPT ![r.d][r.v].text = extractedText(ver[r.d][r.v].content)]
     /\ \/ /\ r.from = "worker"
           /\ jobs' = Append(jobs, Job("metrics", r.d, r.v))
           /\ Finish(p)
        \/ /\ r.from # "worker"
           /\ Continue(p, [r EXCEPT !.op = "metrics"])
           /\ UNCHANGED jobs
  /\ UNCHANGED <<doc, rev, scored, timers, recovering, abandoned, used>>

\* A database, storage or queue error: the worker and kickOffProcessOrFallback
\* mark the document failed, the watchdog's catch only writes a warning.
ProcessFail(p) ==
  /\ "task" \in used.faults
  /\ proc[p].op \in {"extract", "stored"}
  /\ LET r == proc[p] IN
     /\ doc' = IF r.from \in {"worker", "request"}
                 THEN [doc EXCEPT ![r.d].status = "failed"] ELSE doc
     /\ abandoned' = IF r.from = "watchdog" THEN abandoned \cup {r.d} ELSE abandoned
  /\ Finish(p)
  /\ UNCHANGED <<ver, rev, scored, jobs, timers, recovering, used>>

handleDocumentProcessing(p) ==
  ProcessStart(p) \/ ProcessDocument(p) \/ ProcessVersion(p) \/ ProcessFail(p)

----------------------------------------------------------------------------
\* computeMetricsAndAutoReview: the metrics run on the DOCUMENT's text, then
\* the automatic review of the version is looked up and saved.

MetricsCompute(p) ==
  /\ proc[p].op = "metrics"
  /\ LET r == proc[p] IN
     /\ scored' = [scored EXCEPT ![r.d][r.v] = doc[r.d].text]
     /\ IF doc[r.d].text \in Failing
          THEN Continue(p, [r EXCEPT !.op = "findReview"])
          ELSE Finish(p)
  /\ UNCHANGED <<doc, ver, rev, jobs, timers, recovering, abandoned, used>>

AutoReviews(d, v) == {i \in DOMAIN rev[d] : rev[d][i].auto /\ rev[d][i].v = v}

MetricsFindReview(p) ==
  /\ proc[p].op = "findReview"
  /\ IF AutoReviews(proc[p].d, proc[p].v) # {}
       THEN Finish(p)          \* the row found is saved with the same decision
       ELSE Continue(p, [proc[p] EXCEPT !.op = "saveReview"])
  /\ UNCHANGED <<doc, ver, rev, scored, jobs, timers, recovering, abandoned, used>>

MetricsSaveReview(p) ==
  /\ proc[p].op = "saveReview"
  /\ rev' = [rev EXCEPT ![proc[p].d] =
               Append(@, [v |-> proc[p].v, decision |-> "needs_revision", auto |-> TRUE])]
  /\ Finish(p)
  /\ UNCHANGED <<doc, ver, scored, jobs, timers, recovering, abandoned, used>>

computeMetricsAndAutoReview(p) ==
  MetricsCompute(p) \/ MetricsFindReview(p) \/ MetricsSaveReview(p)

----------------------------------------------------------------------------
\* Watchdogs, crash and start-up recovery.

scheduleProcessWatchdog(p, t) ==
  /\ t.op = "process"
  /\ IF doc[t.d].deleted \/ doc[t.d].status # "pending"
       THEN UNCHANGED proc
       ELSE Continue(p, Task("process", t.d, t.v, "watchdog"))

scheduleMetricsWatchdog(p, t) ==
  /\ t.op = "metrics"
  /\ IF scored[t.d][t.v] # None
       THEN UNCHANGED proc
       ELSE Continue(p, Task("metrics", t.d, t.v, "watchdog"))

WatchdogFires(p, t) ==
  /\ proc[p] = Idle /\ t \in timers
  /\ timers' = timers \ {t}
  /\ scheduleProcessWatchdog(p, t) \/ scheduleMetricsWatchdog(p, t)
  /\ UNCHANGED <<doc, ver, rev, scored, jobs, recovering, abandoned, used>>

\* A restart drops handlers and timers.  Bull keeps waiting jobs and runs an
\* interrupted one again, unless Redis was restarted with it.
Crash ==
  /\ used.crashes < MaxCrashes
  /\ used' = [used EXCEPT !.crashes = @ + 1]
  /\ proc' = [p \in Procs |-> Idle]
  /\ timers' = {}
  /\ \/ jobs' = <<>>
     \/ jobs' = SetToSeq({Job("process", proc[p].d, proc[p].v) :
                            p \in {q \in Procs : /\ proc[q].op \in {"process", "extract", "stored"}
                                                 /\ proc[q].from = "worker"}}) \o jobs
  /\ recovering' = {d \in Active : doc[d].status \in {"pending", "processing"}}
  /\ UNCHANGED <<doc, ver, rev, scored, abandoned>>

\* onModuleInit, one stuck document after the other, before requests are served
RecoverDocument(p, d) ==
  /\ d \in recovering /\ proc[p] = Idle
  /\ \A q \in Procs : proc[q].op \in MetricOps => proc[q].from # "recovery"
  /\ recovering' = recovering \ {d}
  /\ \/ /\ CurrentVersions(d) = {}
        /\ UNCHANGED <<doc, jobs, timers, proc>>
     \/ \E v \in CurrentVersions(d) :
          /\ doc' = [doc EXCEPT ![d].status = "ready"]
          /\ enqueueMetricsOrFallback(p, d, v, "recovery")
  /\ UNCHANGED <<ver, rev, scored, abandoned, used>>

----------------------------------------------------------------------------
Request(p) ==
  \/ \E c \in Contents : UploadCheck(p, c)
  \/ \E d \in Docs : \/ \E c \in Contents : CreateVersionRead(p, d, c)
                     \/ submitReview(p, d) \/ returnDocumentForRevision(p, d)
                     \/ archiveDocument(p, d) \/ deleteDocument(p, d)
                     \/ reprocessDocument(p, d)

Running(p) ==
  \/ uploadDocument(p) \/ createVersion(p)
  \/ ReviewSave(p) \/ ReviewStatus(p) \/ ArchiveUpdate(p) \/ DeleteSave(p)
  \/ handleDocumentProcessing(p) \/ computeMetricsAndAutoReview(p)

Step(p) ==
  \/ Request(p) \/ Running(p) \/ WorkerTake(p)
  \/ \E t \in timers : WatchdogFires(p, t)
  \/ \E d \in Docs : RecoverDocument(p, d)

Next == (\E p \in Procs : Step(p)) \/ Crash

\* Handlers run to their end, the worker polls the queue, timers expire and
\* recovery walks its list: Node's event loop and Bull guarantee each of them.
Fairness ==
  /\ \A p \in Procs : WF_vars(Running(p))
  /\ WF_vars(\E p \in Procs : WorkerTake(p))
  /\ WF_vars(\E p \in Procs : \E t \in timers : WatchdogFires(p, t))
  /\ WF_vars(\E p \in Procs : \E d \in Docs : RecoverDocument(p, d))

Spec == Init /\ [][Next]_vars /\ Fairness

----------------------------------------------------------------------------
\* Handlers other than the automatic ones leave documents in these shapes.
TypeOK ==
  /\ \A d \in Docs : doc[d] = None \/ doc[d] \in Document
  /\ \A d \in Docs : ver[d] \in Seq([number : 1..MaxVersions, content : Contents, text : Texts])
  /\ \A d \in Docs : rev[d] \in Seq([v : 1..MaxVersions, decision : Decisions, auto : BOOLEAN])
  /\ scored \in [Docs -> [1..MaxVersions -> Texts \cup {None}]]
  /\ jobs \in Seq([op : {"process", "metrics"}, d : Docs, v : 1..MaxVersions])
  /\ timers \subseteq [op : {"process", "metrics"}, d : Docs, v : 1..MaxVersions]
  /\ recovering \subseteq Docs /\ abandoned \subseteq Docs 
  /\ used \in [requests : 0..MaxRequests, crashes : 0..MaxCrashes, faults : SUBSET Faults]

\* Version history (createVersion's latestVersion.version_number + 1): however
\* uploads race, the numbers used have no gap, and the current_version of a
\* document that has rows names one of them, so review, return, recovery and
\* reprocessing always find a current version.
VersionHistory ==
  \A d \in Existing : ver[d] # <<>> =>
    /\ {Number(d, v) : v \in DOMAIN ver[d]} = 1..LatestNumber(d)
    /\ CurrentVersions(d) # {}

Quiet == jobs = <<>> /\ timers = {} /\ recovering = {} /\ \A p \in Procs : proc[p] = Idle

NeverReturned(d) == \A i \in DOMAIN rev[d] : rev[d][i].auto \/ rev[d][i].decision = "compliant"

\* Once all work is done, the current version of a ready document nobody has
\* returned has metric results, computed on the text of that version: the
\* processing job, the metrics job, the order of the queue and both watchdogs
\* together.  (A return sets the status to pending, which the process watchdog
\* of an earlier version takes for an unprocessed document.)
CurrentVersionScored ==
  Quiet => \A d \in Active : \A v \in CurrentVersions(d) :
             (doc[d].status = "ready" /\ NeverReturned(d))
               => scored[d][v] = extractedText(ver[d][v].content)

\* computeMetricsAndAutoReview keeps one automatic review per version.
OneAutoReview == \A d \in Docs : \A v \in 1..MaxVersions : Cardinality(AutoReviews(d, v)) <= 1

\* A cycle has one active submission of its focal: re-upload first supersedes
\* the returned one.
OneSubmissionPerCycle == Cardinality(Active) <= 1

\* No active document stays in processing for ever: handler, failure path or start-up
\* recovery takes it out, unless a watchdog's fallback failed.
InProcessing(d) == d \in Active \ abandoned /\ doc[d].status = "processing"
ProcessingEnds == \A d \in Docs : InProcessing(d) ~> ~InProcessing(d)

\* Every stored upload ends up with metric results although the queue may be
\* slow: the watchdogs run inline what no worker has taken.
UploadIsScored ==
  \A d \in Docs : (ver[d] # <<>>) ~> (scored[d][1] # None)
=============================================================================
