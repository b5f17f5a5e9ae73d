-------------------------- MODULE Documents_proofs --------------------------
(***************************************************************************)
(* Theorems about DocumentProcessing, in all three regimes of its runs and *)
(* for any documents, files, handlers and bounds: whatever races, a        *)
(* document keeps an unbroken version history, and where one handler runs  *)
(* at a time its versions have one automatic review each, the cycle one    *)
(* active submission, and once all work is done a ready document nobody    *)
(* returned has its current version scored on that version's own text.     *)
(***************************************************************************)
EXTENDS MCDocumentProcessing, FiniteSetTheorems, SequenceTheorems, NaturalsInduction,
        WellFoundedInduction, TLAPS

-----------------------------------------------------------------------------
(* The invariant                                                           *)

Rows    == [number : 1..MaxVersions, content : Contents, text : Texts]
Reviews == [v : 1..MaxVersions, decision : Decisions, auto : BOOLEAN]
Works   == [op : {"process", "metrics"}, d : Docs, v : 1..MaxVersions]

(* What a running handler can hold.                                        *)
Tasks       == [op : {"process", "extract", "stored", "metrics", "findReview", "saveReview"},
                d : Docs, v : 1..MaxVersions, from : {"request", "worker", "watchdog", "recovery"}]
Inserting   == [op : {"upload"}, pc : {"insert"}, c : Contents]
Superseding == [op : {"upload"}, pc : {"supersede"}, c : Contents, e : Docs]
Filing      == [op : {"upload"}, pc : {"version", "kickOff"}, c : Contents, d : Docs]
Versioning  == [op : {"newVersion"}, pc : {"version"}, d : Docs, c : Contents, n : 1..MaxVersions,
                read : Document]
Saving      == [op : {"newVersion"}, pc : {"save"}, d : Docs, c : Contents, n : 1..MaxVersions,
                read : Document, v : 1..MaxVersions]
Reviewing   == [op : {"review"}, pc : {"save", "status"}, d : Docs, v : 1..MaxVersions, decision : Decisions]
Archiving   == [op : {"archive"}, d : Docs]
Deleting    == [op : {"delete"}, d : Docs, read : Document]
Handlers    == {Idle} \cup Tasks \cup Inserting \cup Superseding \cup Filing \cup Versioning \cup Saving
                 \cup Reviewing \cup Archiving \cup Deleting

RowsOK ==
  /\ doc \in [Docs -> Document \cup {None}]
  /\ ver \in [Docs -> Seq(Rows)]
  /\ rev \in [Docs -> Seq(Reviews)]
  /\ scored \in [Docs -> [1..MaxVersions -> Texts \cup {None}]]
  /\ used \in [requests : 0..MaxRequests, crashes : 0..MaxCrashes, faults : SUBSET Faults]

(* A history has every number up to its largest, none larger than its      *)
(* position, and what counts as current has a row as soon as there is one. *)
HasNumber(s, n) == \E v \in DOMAIN s : s[v].number = n
Unbroken(s) ==
  /\ Len(s) <= MaxVersions
  /\ \A v \in DOMAIN s : s[v].number <= v
  /\ \A n \in 1..MaxVersions : HasNumber(s, n) => \A k \in 1..n : HasNumber(s, k)
Names(s, k) == HasNumber(s, k) \/ (s = <<>> /\ k = 1)
HistoryOK ==
  \A d \in Docs : /\ Unbroken(ver[d])
                  /\ doc[d] = None => ver[d] = <<>>
                  /\ doc[d] # None => Names(ver[d], doc[d].current)

(* What a handler, a queued job or a watchdog relies on stays true.        *)
Stored(d, v) == doc[d] # None /\ v \in DOMAIN ver[d]
At(r, op, pc) == r.op = op /\ r.pc = pc
Relies(r) ==
  /\ At(r, "upload", "supersede") => doc[r.e] # None
  /\ At(r, "upload", "version") => doc[r.d] # None /\ ver[r.d] = <<>>
  /\ At(r, "upload", "kickOff") => Stored(r.d, 1)
  /\ At(r, "newVersion", "version") => /\ doc[r.d] # None /\ Names(ver[r.d], r.read.current)
                                       /\ r.n > 1 /\ HasNumber(ver[r.d], r.n - 1)
  /\ At(r, "newVersion", "save") => /\ doc[r.d] # None /\ HasNumber(ver[r.d], r.n)
                                    /\ r.v \in DOMAIN ver[r.d]
  /\ r.op \in {"review", "archive"} => doc[r.d] # None
  /\ r.op = "delete" => doc[r.d] # None /\ Names(ver[r.d], r.read.current)
  /\ r \in Tasks => Stored(r.d, r.v)
FilesRow(r) == At(r, "upload", "version")
HandlersOK ==
  /\ proc \in [Procs -> Handlers]
  /\ \A p \in Procs : Relies(proc[p])
  /\ \A p, q \in Procs : FilesRow(proc[p]) /\ FilesRow(proc[q]) /\ proc[p].d = proc[q].d => p = q

QueueOK ==
  /\ jobs \in Seq(Works) /\ timers \subseteq Works
  /\ \A i \in DOMAIN jobs : Stored(jobs[i].d, jobs[i].v)
  /\ \A t \in timers : Stored(t.d, t.v)
  /\ recovering \subseteq Docs /\ \A d \in recovering : doc[d] # None
  /\ abandoned \subseteq Docs

(* With one handler at a time.                                             *)
OneActive == \A d, e \in Active : d = e
OneAuto   == \A d \in Docs : \A i, j \in DOMAIN rev[d] :
               rev[d][i].auto /\ rev[d][j].auto /\ rev[d][i].v = rev[d][j].v => i = j
Alone(r) ==
  /\ At(r, "upload", "supersede") => Active \subseteq {r.e}
  /\ At(r, "upload", "insert") => Active = {}
  /\ r.op = "newVersion" => r.read.deleted = doc[r.d].deleted
  /\ r.op = "saveReview" => AutoReviews(r.d, r.v) = {}
SerialOK ==
  regime = "serial" =>
    /\ \A p \in Procs : p # p1 => proc[p] = Idle
    /\ OneActive /\ OneAuto
    /\ \A p \in Procs : Alone(proc[p])

DocInv == RowsOK /\ HistoryOK /\ HandlersOK /\ QueueOK /\ SerialOK

-----------------------------------------------------------------------------
(* Histories                                                               *)

(* Rows are only added, and keep their numbers.                            *)
Extends(t, s) ==
  /\ Len(s) <= Len(t)
  /\ \A v \in DOMAIN s : t[v].number = s[v].number

LEMMA NumbersStay ==
  ASSUME NEW s \in Seq(Rows), NEW t \in Seq(Rows), Extends(t, s)
  PROVE  /\ \A v \in DOMAIN s : v \in DOMAIN t
         /\ \A n : HasNumber(s, n) => HasNumber(t, n)
BY DEF Extends, HasNumber

LEMMA CurrentStays ==
  ASSUME NEW s \in Seq(Rows), NEW t \in Seq(Rows), Extends(t, s), Unbroken(t), NEW k, Names(s, k)
  PROVE  Names(t, k)
<1>1. CASE HasNumber(s, k)
  BY <1>1, NumbersStay DEF Names
<1>2. CASE s = <<>> /\ k = 1
  <2>1. CASE t = <<>>
    BY <1>2, <2>1 DEF Names
  <2>2. CASE t # <<>>
    <3>1. 1 \in DOMAIN t /\ t[1] \in Rows
      BY <2>2
    <3>2. t[1].number = 1
      BY <3>1 DEF Rows, Unbroken
    <3> QED
      BY <1>2, <3>1, <3>2 DEF Names, HasNumber
  <2> QED
    BY <2>1, <2>2
<1> QED
  BY <1>1, <1>2 DEF Names

(* The next row of a history.                                              *)
LEMMA NextRow ==
  ASSUME NEW s \in Seq(Rows), Unbroken(s), NEW x \in Rows, Len(s) < MaxVersions,
         \/ s = <<>> /\ x.number = 1
         \/ x.number > 1 /\ HasNumber(s, x.number - 1)
  PROVE  /\ Append(s, x) \in Seq(Rows) /\ Unbroken(Append(s, x)) /\ Extends(Append(s, x), s)
         /\ HasNumber(Append(s, x), x.number) /\ Len(s) + 1 \in DOMAIN Append(s, x)
<1> DEFINE t == Append(s, x)
           m == Len(s) + 1
<1>1. /\ t \in Seq(Rows) /\ Len(t) = m /\ DOMAIN t = 1..m /\ DOMAIN s = 1..Len(s) /\ Len(s) \in Nat
      /\ \A v \in DOMAIN s : t[v] = s[v]
      /\ t[m] = x
  OBVIOUS
<1>2. x.number \in 1..MaxVersions /\ MaxVersions \in Nat
  BY DocumentConstants DEF Rows
<1> HIDE DEF t, m
<1>3. m \in DOMAIN t
  BY <1>1 DEF m
<1>4. HasNumber(t, x.number)
  BY <1>1, <1>3 DEF HasNumber
<1>5. x.number <= m
  <2>1. CASE s = <<>> /\ x.number = 1
    BY <1>1, <2>1 DEF m
  <2>2. CASE x.number > 1 /\ HasNumber(s, x.number - 1)
    <3>1. PICK v \in DOMAIN s : s[v].number = x.number - 1
      BY <2>2 DEF HasNumber
    <3>2. s[v].number <= v
      BY DEF Unbroken
    <3> QED
      BY <1>1, <1>2, <3>1, <3>2 DEF m
  <2> QED
    BY <2>1, <2>2
<1>6. Extends(t, s)
  BY <1>1 DEF Extends, m
<1>7. \A n : HasNumber(s, n) => HasNumber(t, n)
  BY <1>1, <1>6, NumbersStay
<1>8. ASSUME NEW n \in 1..MaxVersions, HasNumber(t, n), NEW k \in 1..n
      PROVE  HasNumber(t, k)
  <2>1. PICK v \in DOMAIN t : t[v].number = n
    BY <1>8 DEF HasNumber
  <2>2. CASE v \in DOMAIN s
    <3>1. HasNumber(s, n)
      BY <1>1, <2>1, <2>2 DEF HasNumber
    <3> QED
      BY <1>7, <1>8, <3>1 DEF Unbroken
  <2>3. CASE v \notin DOMAIN s
    <3>1. v = m
      BY <1>1, <2>3 DEF m
    <3>2. n = x.number
      BY <1>1, <2>1, <3>1
    <3>3. CASE k = n
      BY <1>4, <3>2, <3>3
    <3>4. CASE k # n
      <4>1. x.number > 1 /\ HasNumber(s, x.number - 1) /\ k \in 1..(x.number - 1)
            /\ x.number - 1 \in 1..MaxVersions
        BY <1>2, <3>2, <3>4
      <4> QED
        BY <1>7, <4>1 DEF Unbroken
    <3> QED
      BY <3>3, <3>4
  <2> QED
    BY <2>2, <2>3
<1>9. ASSUME NEW v \in DOMAIN t
      PROVE  t[v].number <= v
  <2>1. CASE v \in DOMAIN s
    BY <1>1, <2>1 DEF Unbroken
  <2>2. CASE v \notin DOMAIN s
    <3>1. v = m
      BY <1>1, <2>2 DEF m
    <3> QED
      BY <1>1, <1>5, <3>1
  <2> QED
    BY <2>1, <2>2
<1>10. Len(t) <= MaxVersions
  BY <1>1, <1>2 DEF m
<1>11. Unbroken(t)
  BY <1>8, <1>9, <1>10 DEF Unbroken
<1> QED
  BY <1>1, <1>3, <1>4, <1>6, <1>11 DEF t, m

(* A row that changes and keeps its number.                                *)
LEMMA SameNumbers ==
  ASSUME NEW s \in Seq(Rows), Unbroken(s), NEW i \in DOMAIN s, NEW x \in Rows, x.number = s[i].number
  PROVE  /\ [s EXCEPT ![i] = x] \in Seq(Rows) /\ Unbroken([s EXCEPT ![i] = x])
         /\ Extends([s EXCEPT ![i] = x], s)
<1>1. PICK t : t = [s EXCEPT ![i] = x]
  OBVIOUS
<1>2. /\ t \in Seq(Rows) /\ Len(t) = Len(s) /\ DOMAIN t = DOMAIN s
      /\ \A v \in DOMAIN s : t[v] = IF v = i THEN x ELSE s[v]
  <2>1. DOMAIN s = 1..Len(s)
    OBVIOUS
  <2> QED
    BY <1>1, <2>1, ExceptSeq
<1>3. \A v \in DOMAIN s : t[v].number = s[v].number
  BY <1>2
<1>4. \A n : HasNumber(s, n) <=> HasNumber(t, n)
  BY <1>2, <1>3 DEF HasNumber
<1>5. Unbroken(t)
  BY <1>2, <1>3, <1>4 DEF Unbroken
<1>6. Extends(t, s)
  BY <1>2, <1>3 DEF Extends
<1> QED
  BY <1>1, <1>2, <1>5, <1>6

LEMMA NoHistory ==
  /\ <<>> \in Seq(Rows) /\ Unbroken(<<>>) /\ Names(<<>>, 1)
BY DocumentConstants DEF Unbroken, Names, HasNumber

LEMMA ExtendsItself ==
  ASSUME NEW s \in Seq(Rows)
  PROVE  Extends(s, s)
BY DEF Extends

-----------------------------------------------------------------------------
(* What a handler holds, by what it does                                   *)

LEMMA KindOf ==
  ASSUME NEW r \in Handlers
  PROVE  /\ At(r, "upload", "insert") => r \in Inserting
         /\ At(r, "upload", "supersede") => r \in Superseding
         /\ At(r, "upload", "version") \/ At(r, "upload", "kickOff") => r \in Filing
         /\ At(r, "newVersion", "version") => r \in Versioning
         /\ At(r, "newVersion", "save") => r \in Saving
         /\ r.op = "review" => r \in Reviewing
         /\ r.op = "archive" => r \in Archiving
         /\ r.op = "delete" => r \in Deleting
         /\ r.op \in {"process", "extract", "stored", "metrics", "findReview", "saveReview"} => r \in Tasks
<1> USE DEF Handlers, Idle, At, Tasks, Inserting, Superseding, Filing, Versioning, Saving, Reviewing, Archiving, Deleting
<1>1. At(r, "upload", "insert") => r \in Inserting
  OBVIOUS
<1>2. At(r, "upload", "supersede") => r \in Superseding
  OBVIOUS
<1>3. At(r, "upload", "version") \/ At(r, "upload", "kickOff") => r \in Filing
  OBVIOUS
<1>4. At(r, "newVersion", "version") => r \in Versioning
  OBVIOUS
<1>5. At(r, "newVersion", "save") => r \in Saving
  OBVIOUS
<1>6. r.op = "review" => r \in Reviewing
  OBVIOUS
<1>7. r.op = "archive" => r \in Archiving
  OBVIOUS
<1>8. r.op = "delete" => r \in Deleting
  OBVIOUS
<1>9. r.op \in {"process", "extract", "stored", "metrics", "findReview", "saveReview"} => r \in Tasks
  OBVIOUS
<1> QED
  BY <1>1, <1>2, <1>3, <1>4, <1>5, <1>6, <1>7, <1>8, <1>9, Zenon

LEMMA IdleHandler ==
  /\ Idle \in Handlers /\ Relies(Idle) /\ Alone(Idle) /\ ~FilesRow(Idle)
  /\ Relies(Idle)' /\ Alone(Idle)' /\ Idle.op = "idle"
BY DEF Handlers, Idle, Relies, Alone, FilesRow, At, Tasks

-----------------------------------------------------------------------------
(* What a step does to what the others rely on                             *)

Grows ==
  /\ \A d \in Docs : doc[d] # None => doc'[d] # None
  /\ \A d \in Docs : Extends(ver'[d], ver[d])
StillEmpty(p) == \A q \in Procs : q # p /\ FilesRow(proc[q]) => ver'[proc[q].d] = <<>>
Alike(p, r) == FilesRow(r) => \A q \in Procs : q # p => ~(FilesRow(proc[q]) /\ proc[q].d = r.d)

LEMMA StillRelies ==
  ASSUME RowsOK, RowsOK', HistoryOK', Grows, NEW r \in Handlers, Relies(r),
         FilesRow(r) => ver'[r.d] = <<>>
  PROVE  Relies(r)'
<1>1. \A d \in Docs : /\ doc[d] # None => doc'[d] # None
                      /\ \A v \in DOMAIN ver[d] : v \in DOMAIN ver'[d]
                      /\ \A n : HasNumber(ver[d], n) => HasNumber(ver'[d], n)
                      /\ \A k : Names(ver[d], k) => Names(ver'[d], k)
  <2> TAKE d \in Docs
  <2>1. ver[d] \in Seq(Rows) /\ ver'[d] \in Seq(Rows) /\ Extends(ver'[d], ver[d]) /\ Unbroken(ver'[d])
    BY DEF RowsOK, HistoryOK, Grows
  <2> QED
    BY <2>1, NumbersStay, CurrentStays DEF Grows
<1>2. \A d \in Docs : \A v : Stored(d, v) => Stored(d, v)'
  BY <1>1 DEF Stored
<1>3. At(r, "upload", "supersede") => doc'[r.e] # None
  BY <1>1, KindOf DEF Relies, Superseding
<1>4. At(r, "upload", "version") => doc'[r.d] # None /\ ver'[r.d] = <<>>
  BY <1>1, KindOf DEF Relies, Filing, FilesRow
<1>5. At(r, "upload", "kickOff") => Stored(r.d, 1)'
  BY <1>2, KindOf DEF Relies, Filing
<1>6. At(r, "newVersion", "version") => /\ doc'[r.d] # None /\ Names(ver'[r.d], r.read.current)
                                        /\ r.n > 1 /\ HasNumber(ver'[r.d], r.n - 1)
  BY <1>1, KindOf DEF Relies, Versioning
<1>7. At(r, "newVersion", "save") => /\ doc'[r.d] # None /\ HasNumber(ver'[r.d], r.n)
                                     /\ r.v \in DOMAIN ver'[r.d]
  BY <1>1, KindOf DEF Relies, Saving
<1>8. r.op \in {"review", "archive"} => doc'[r.d] # None
  BY <1>1, KindOf DEF Relies, Reviewing, Archiving
<1>9. r.op = "delete" => doc'[r.d] # None /\ Names(ver'[r.d], r.read.current)
  BY <1>1, KindOf DEF Relies, Deleting
<1>10. r \in Tasks => Stored(r.d, r.v)'
  BY <1>2 DEF Relies, Tasks
<1> QED
  BY <1>3, <1>4, <1>5, <1>6, <1>7, <1>8, <1>9, <1>10 DEF Relies

LEMMA HandlersKept ==
  ASSUME RowsOK, RowsOK', HistoryOK', HandlersOK, Grows, NEW p \in Procs, NEW r \in Handlers,
         proc' = [proc EXCEPT ![p] = r], Relies(r)', StillEmpty(p), Alike(p, r)
  PROVE  HandlersOK'
<1>1. /\ proc' \in [Procs -> Handlers] /\ proc'[p] = r
      /\ \A q \in Procs : q # p => proc'[q] = proc[q]
  BY DEF HandlersOK
<1>2. ASSUME NEW q \in Procs
      PROVE  Relies(proc[q])'
  <2>1. CASE q = p
    BY <1>1, <2>1
  <2>2. CASE q # p
    <3>1. PICK x \in Handlers : x = proc[q] /\ Relies(x) /\ proc'[q] = x /\ (FilesRow(x) => ver'[x.d] = <<>>)
      BY <1>1, <2>2 DEF HandlersOK, StillEmpty
    <3>2. Relies(x)'
      BY <3>1, StillRelies
    <3> QED
      BY <3>1, <3>2
  <2> QED
    BY <2>1, <2>2
<1>3. ASSUME NEW q \in Procs, NEW x \in Procs, FilesRow(proc'[q]), FilesRow(proc'[x]), proc'[q].d = proc'[x].d
      PROVE  q = x
  <2>1. CASE q # p /\ x # p
    BY <1>1, <1>3, <2>1 DEF HandlersOK
  <2>2. CASE q = p /\ x # p
    BY <1>1, <1>3, <2>2 DEF Alike
  <2>3. CASE q # p /\ x = p
    BY <1>1, <1>3, <2>3 DEF Alike
  <2> QED
    BY <2>1, <2>2, <2>3
<1> QED
  BY <1>1, <1>2, <1>3 DEF HandlersOK, FilesRow, At

LEMMA StaysStored ==
  ASSUME RowsOK, RowsOK', Grows, NEW d \in Docs, NEW v, Stored(d, v)
  PROVE  Stored(d, v)'
<1>1. ver[d] \in Seq(Rows) /\ ver'[d] \in Seq(Rows) /\ Extends(ver'[d], ver[d])
  BY DEF RowsOK, Grows
<1> QED
  BY <1>1, NumbersStay DEF Stored, Grows

(* The queue keeps its jobs, or some of them, and may get one more.        *)
LEMMA QueueKept ==
  ASSUME RowsOK, RowsOK', Grows, QueueOK,
         jobs' = jobs \/ (jobs # <<>> /\ jobs' = Tail(jobs))
           \/ \E w \in Works : Stored(w.d, w.v)' /\ jobs' = Append(jobs, w),
         timers' \subseteq timers \/ \E w \in Works : Stored(w.d, w.v)' /\ timers' = timers \cup {w},
         recovering' \subseteq recovering, abandoned' \subseteq Docs
  PROVE  QueueOK'
<1> DEFINE After(w) == doc'[w.d] # None /\ w.v \in DOMAIN ver'[w.d]
<1>1. \A w \in Works : Stored(w.d, w.v) \/ Stored(w.d, w.v)' => After(w)
  <2> TAKE w \in Works
  <2>1. PICK d \in Docs, v \in 1..MaxVersions : d = w.d /\ v = w.v
    BY DEF Works
  <2>2. Stored(d, v) => Stored(d, v)'
    BY StaysStored
  <2> QED
    BY <2>1, <2>2 DEF Stored
<1>2. \A i \in DOMAIN jobs : jobs[i] \in Works /\ After(jobs[i])
  <2> TAKE i \in DOMAIN jobs
  <2>1. PICK w \in Works : w = jobs[i] /\ Stored(w.d, w.v)
    BY DEF QueueOK
  <2> QED
    BY <1>1, <2>1
<1>3. jobs \in Seq(Works)
  BY DEF QueueOK
<1> HIDE DEF After
<1>4. jobs' \in Seq(Works) /\ \A i \in DOMAIN jobs' : After(jobs'[i])
  <2>1. CASE jobs' = jobs
    BY <1>2, <1>3, <2>1
  <2>2. CASE jobs # <<>> /\ jobs' = Tail(jobs)
    <3>1. jobs' \in Seq(Works) /\ \A i \in DOMAIN jobs' : i + 1 \in DOMAIN jobs /\ jobs'[i] = jobs[i + 1]
      BY <1>3, <2>2
    <3> QED
      BY <1>2, <3>1
  <2>3. CASE \E w \in Works : Stored(w.d, w.v)' /\ jobs' = Append(jobs, w)
    <3>1. PICK w \in Works : Stored(w.d, w.v)' /\ jobs' = Append(jobs, w)
      BY <2>3
    <3>2. jobs' \in Seq(Works) /\ \A i \in DOMAIN jobs' : jobs'[i] = w \/ (i \in DOMAIN jobs /\ jobs'[i] = jobs[i])
      BY <1>3, <3>1
    <3>3. After(w)
      BY <1>1, <3>1
    <3> QED
      BY <1>2, <3>2, <3>3
  <2> QED
    BY <2>1, <2>2, <2>3
<1>5. timers' \subseteq Works /\ \A t \in timers' : After(t)
  <2>1. \A t \in timers : t \in Works /\ After(t)
    BY <1>1 DEF QueueOK
  <2>2. CASE timers' \subseteq timers
    BY <2>1, <2>2
  <2>3. CASE \E w \in Works : Stored(w.d, w.v)' /\ timers' = timers \cup {w}
    BY <1>1, <2>1, <2>3
  <2> QED
    BY <2>2, <2>3
<1>6. recovering' \subseteq Docs /\ \A d \in recovering' : doc'[d] # None
  BY DEF QueueOK, Grows
<1> QED
  BY <1>4, <1>5, <1>6 DEF QueueOK, Stored, After

LEMMA SerialKept ==
  ASSUME SerialOK, HandlersOK, NEW p \in Procs, regime = "serial" => p = p1, regime' = regime,
         NEW r \in Handlers, proc' = [proc EXCEPT ![p] = r],
         regime = "serial" => OneActive' /\ OneAuto' /\ Alone(r)'
  PROVE  SerialOK'
<1>1. /\ proc'[p] = r
      /\ \A q \in Procs : q # p => proc'[q] = proc[q]
  BY DEF HandlersOK
<1>2. ASSUME regime = "serial", NEW q \in Procs
      PROVE  Alone(proc[q])'
  <2>1. CASE q = p
    BY <1>1, <1>2, <2>1
  <2>2. CASE q # p
    <3>1. proc'[q] = Idle
      BY <1>1, <1>2, <2>2 DEF SerialOK
    <3>2. Alone(Idle)'
      BY IdleHandler
    <3> QED
      BY <3>1, <3>2
  <2> QED
    BY <2>1, <2>2
<1>3. ASSUME regime = "serial", NEW q \in Procs, q # p1
      PROVE  proc'[q] = Idle
  BY <1>1, <1>3 DEF SerialOK
<1>4. ASSUME regime' = "serial"
      PROVE  /\ \A q \in Procs : q # p1 => proc'[q] = Idle
             /\ OneActive' /\ OneAuto'
             /\ \A q \in Procs : Alone(proc[q])'
  <2>1. regime = "serial"
    BY <1>4
  <2> QED
    BY <1>2, <1>3, <2>1
<1> QED
  BY <1>4, Zenon DEF SerialOK

(* What each step establishes.                                             *)
LEMMA Stepped ==
  ASSUME DocInv, NEW p \in Procs, regime = "serial" => p = p1, regime' = regime,
         NEW r \in Handlers, proc' = [proc EXCEPT ![p] = r], Relies(r)',
         RowsOK', HistoryOK', Grows, StillEmpty(p), Alike(p, r), QueueOK',
         regime = "serial" => OneActive' /\ OneAuto' /\ Alone(r)'
  PROVE  DocInv'
<1>1. HandlersOK'
  BY HandlersKept DEF DocInv
<1>2. SerialOK'
  BY SerialKept DEF DocInv
<1> QED
  BY <1>1, <1>2 DEF DocInv

-----------------------------------------------------------------------------
(* Steps that leave versions, documents or reviews alone                   *)

LEMMA NoNewVersion ==
  ASSUME RowsOK, HandlersOK, ver' = ver, NEW p \in Procs
  PROVE  StillEmpty(p) /\ \A d \in Docs : Extends(ver'[d], ver[d])
<1>1. \A d \in Docs : ver[d] \in Seq(Rows)
  BY DEF RowsOK
<1> QED
  BY <1>1, ExtendsItself DEF StillEmpty, HandlersOK, Relies, FilesRow

(* A document is stored again.                                             *)
LEMMA DocumentStored ==
  ASSUME RowsOK, HistoryOK, HandlersOK, ver' = ver, NEW p \in Procs, NEW d \in Docs, NEW x \in Document, doc[d] # None,
         Names(ver[d], x.current), doc' = [doc EXCEPT ![d] = x]
  PROVE  /\ doc' \in [Docs -> Document \cup {None}] /\ HistoryOK' /\ Grows /\ StillEmpty(p)
         /\ doc'[d] = x
         /\ (x.deleted = doc[d].deleted \/ x.deleted) => Active' \subseteq Active
<1>1. x # None
  BY DocumentConstants
<1>2. /\ doc' \in [Docs -> Document \cup {None}] /\ doc'[d] = x
      /\ \A e \in Docs : e # d => doc'[e] = doc[e]
  BY DEF RowsOK
<1>3. HistoryOK'
  BY <1>1, <1>2 DEF HistoryOK
<1>4. Grows /\ StillEmpty(p)
  BY <1>1, <1>2, NoNewVersion DEF Grows
<1>5. ASSUME x.deleted = doc[d].deleted \/ x.deleted
      PROVE  Active' \subseteq Active
  BY <1>2, <1>5 DEF Active, Existing
<1> QED
  BY <1>2, <1>3, <1>4, <1>5

LEMMA NothingStored ==
  ASSUME RowsOK, HistoryOK, HandlersOK, ver' = ver, doc' = doc, NEW p \in Procs
  PROVE  HistoryOK' /\ Grows /\ StillEmpty(p) /\ Active' = Active
<1>1. Grows /\ StillEmpty(p)
  BY NoNewVersion DEF Grows
<1> QED
  BY <1>1 DEF HistoryOK, Active, Existing

LEMMA FewerActive ==
  ASSUME OneActive, Active' \subseteq Active
  PROVE  OneActive'
BY DEF OneActive

LEMMA SameReviews ==
  ASSUME OneAuto, rev' = rev
  PROVE  OneAuto'
BY DEF OneAuto

-----------------------------------------------------------------------------
(* Kinds of steps                                                          *)

UsedOK == used \in [requests : 0..MaxRequests, crashes : 0..MaxCrashes, faults : SUBSET Faults]

LEMMA RowsKept ==
  ASSUME RowsOK, UsedOK', doc' \in [Docs -> Document \cup {None}], ver' = ver, rev' = rev, scored' = scored
  PROVE  RowsOK'
BY DEF RowsOK, UsedOK

LEMMA UsedKept ==
  ASSUME RowsOK
  PROVE  /\ used' = used => UsedOK'
         /\ \A p : Free(p) => UsedOK'
<1>1. used' = used => UsedOK'
  BY DEF RowsOK, UsedOK
<1>2. ASSUME NEW p, Free(p)
      PROVE  UsedOK'
  <2>1. PICK n \in 0..MaxRequests : n = used.requests
    BY DEF RowsOK
  <2>2. n + 1 \in 0..MaxRequests
    BY <1>2, <2>1, DocumentConstants DEF Free
  <2>3. used' = [used EXCEPT !.requests = n + 1]
    BY <1>2, <2>1 DEF Free
  <2> QED
    BY <2>2, <2>3 DEF RowsOK, UsedOK
<1> QED
  BY <1>1, <1>2

(* Nothing is stored: the handler reads, or a task is taken up.            *)
LEMMA ReadingStep ==
  ASSUME DocInv, NEW p \in Procs, regime = "serial" => p = p1, regime' = regime,
         NEW r \in Handlers, proc' = [proc EXCEPT ![p] = r], Relies(r), ~FilesRow(r),
         regime = "serial" => Alone(r),
         doc' = doc, ver' = ver, rev' = rev, scored' = scored, UsedOK',
         jobs' = jobs \/ (jobs # <<>> /\ jobs' = Tail(jobs)), timers' \subseteq timers,
         recovering' \subseteq recovering, abandoned' = abandoned
  PROVE  DocInv'
<1>1. RowsOK'
  BY RowsKept DEF DocInv, RowsOK
<1>2. HistoryOK' /\ Grows /\ StillEmpty(p) /\ Active' = Active
  BY NothingStored DEF DocInv
<1>3. Relies(r)'
  BY DEF Relies, Stored
<1>4. Alike(p, r)
  BY DEF Alike
<1>5. abandoned' \subseteq Docs
  BY DEF DocInv, QueueOK
<1>6. QueueOK'
  BY <1>1, <1>2, <1>5, QueueKept DEF DocInv
<1>7. ASSUME regime = "serial"
      PROVE  OneActive' /\ OneAuto' /\ Alone(r)'
  <2>1. OneActive /\ OneAuto /\ Alone(r)
    BY <1>7 DEF DocInv, SerialOK
  <2>2. OneActive' /\ OneAuto'
    BY <1>2, <2>1, FewerActive, SameReviews
  <2>3. Alone(r)'
    BY <1>2, <2>1 DEF Alone, AutoReviews
  <2> QED
    BY <2>2, <2>3
<1> QED
  BY <1>1, <1>2, <1>3, <1>4, <1>6, <1>7, Stepped

(* One document is stored again.                                           *)
LEMMA StoringStep ==
  ASSUME DocInv, NEW p \in Procs, regime = "serial" => p = p1, regime' = regime,
         NEW r \in Handlers, proc' = [proc EXCEPT ![p] = r], Relies(r)', ~FilesRow(r),
         NEW d \in Docs, NEW x \in Document, doc[d] # None, Names(ver[d], x.current),
         doc' = [doc EXCEPT ![d] = x],
         regime = "serial" => (x.deleted = doc[d].deleted \/ x.deleted) /\ Alone(r)',
         ver' = ver, rev' = rev, scored' = scored, used' = used,
         jobs' = jobs \/ \E w \in Works : Stored(w.d, w.v)' /\ jobs' = Append(jobs, w),
         timers' = timers, recovering' = recovering, abandoned' \subseteq Docs
  PROVE  DocInv'
<1>1. /\ doc' \in [Docs -> Document \cup {None}] /\ HistoryOK' /\ Grows /\ StillEmpty(p)
      /\ (x.deleted = doc[d].deleted \/ x.deleted) => Active' \subseteq Active
  BY DocumentStored DEF DocInv
<1>2. RowsOK'
  BY <1>1, RowsKept, UsedKept DEF DocInv
<1>3. Alike(p, r)
  BY DEF Alike
<1>4. QueueOK'
  BY <1>1, <1>2, QueueKept DEF DocInv
<1>5. ASSUME regime = "serial"
      PROVE  OneActive' /\ OneAuto' /\ Alone(r)'
  <2>1. OneActive /\ OneAuto
    BY <1>5 DEF DocInv, SerialOK
  <2>2. OneActive' /\ OneAuto'
    BY <1>1, <1>5, <2>1, FewerActive, SameReviews
  <2> QED
    BY <1>5, <2>2
<1> QED
  BY <1>1, <1>2, <1>3, <1>4, <1>5, Stepped

(* Work is queued with a watchdog, or taken up here.                       *)
LEMMA EnqueueStep ==
  ASSUME DocInv, NEW p \in Procs, regime = "serial" => p = p1, regime' = regime,
         RowsOK', HistoryOK', Grows, StillEmpty(p),
         regime = "serial" => OneActive' /\ OneAuto',
         NEW op \in {"process", "metrics"}, NEW d \in Docs, NEW v \in 1..MaxVersions,
         NEW from \in {"request", "recovery"}, Stored(d, v)',
         enqueueOrFallback(op, p, d, v, from),
         recovering' \subseteq recovering, abandoned' = abandoned
  PROVE  DocInv'
<1>1. abandoned' \subseteq Docs
  BY DEF DocInv, QueueOK
<1>2. CASE /\ jobs' = Append(jobs, Job(op, d, v))
           /\ timers' = timers \cup {Job(op, d, v)}
           /\ Finish(p)
  <2>0. PICK w : w = Job(op, d, v)
    OBVIOUS
  <2>1. w \in Works /\ w.d = d /\ w.v = v
    BY <2>0 DEF Works, Job
  <2>2. \E y \in Works : Stored(y.d, y.v)' /\ jobs' = Append(jobs, y)
    BY <1>2, <2>0, <2>1, Zenon DEF Stored
  <2>3. \E y \in Works : Stored(y.d, y.v)' /\ timers' = timers \cup {y}
    BY <1>2, <2>0, <2>1, Zenon DEF Stored
  <2>4. QueueOK'
    BY <1>1, <2>2, <2>3, QueueKept DEF DocInv
  <2>5. PICK r \in Handlers : r = Idle
    BY IdleHandler
  <2>6. proc' = [proc EXCEPT ![p] = r]
    BY <1>2, <2>5 DEF Finish
  <2>7. Relies(r)' /\ Alone(r)' /\ Alike(p, r)
    BY <2>5, IdleHandler DEF Alike
  <2> QED
    BY <2>4, <2>6, <2>7, Stepped
<1>3. CASE /\ Continue(p, Task(op, d, v, from))
           /\ UNCHANGED <<jobs, timers>>
  <2>0. PICK r : r = Task(op, d, v, from)
    OBVIOUS
  <2>1. r \in Tasks /\ r.d = d /\ r.v = v /\ r.op = op
    BY <2>0 DEF Tasks, Task
  <2>2. r \in Handlers /\ proc' = [proc EXCEPT ![p] = r]
    BY <1>3, <2>0, <2>1 DEF Handlers, Continue
  <2>3. Relies(r)' /\ Alone(r)' /\ Alike(p, r)
    BY <2>1 DEF Relies, Alone, Alike, FilesRow, At
  <2>4. jobs' = jobs /\ timers' \subseteq timers
    BY <1>3
  <2>5. QueueOK'
    BY <1>1, <2>4, QueueKept DEF DocInv
  <2> QED
    BY <2>2, <2>3, <2>5, Stepped
<1> QED
  BY <1>2, <1>3 DEF enqueueOrFallback

-----------------------------------------------------------------------------
(* Handlers that read                                                      *)

LEMMA Held ==
  ASSUME DocInv, NEW p \in Procs
  PROVE  \E h \in Handlers : h = proc[p] /\ Relies(h) /\ (regime = "serial" => Alone(h))
BY DEF DocInv, HandlersOK, SerialOK

LEMMA RowsTyped ==
  ASSUME DocInv, NEW d \in Docs
  PROVE  /\ ver[d] \in Seq(Rows) /\ rev[d] \in Seq(Reviews) /\ Unbroken(ver[d])
         /\ d \in Existing => doc[d] \in Document /\ Names(ver[d], doc[d].current)
         /\ d \in Existing <=> doc[d] # None
         /\ \A v \in DOMAIN ver[d] : v \in 1..MaxVersions /\ ver[d][v] \in Rows /\ ver[d][v].number \in 1..MaxVersions
         /\ Len(ver[d]) \in Nat /\ DOMAIN ver[d] = 1..Len(ver[d])
<1>1. /\ ver[d] \in Seq(Rows) /\ rev[d] \in Seq(Reviews) /\ Unbroken(ver[d])
      /\ d \in Existing => doc[d] \in Document /\ Names(ver[d], doc[d].current)
      /\ d \in Existing <=> doc[d] # None
  BY DEF DocInv, RowsOK, HistoryOK, Existing
<1>2. Len(ver[d]) \in Nat /\ DOMAIN ver[d] = 1..Len(ver[d]) /\ Len(ver[d]) <= MaxVersions
  BY <1>1 DEF Unbroken
<1>3. \A v \in DOMAIN ver[d] : ver[d][v] \in Rows
  BY <1>1
<1>4. \A v \in DOMAIN ver[d] : ver[d][v].number \in 1..MaxVersions
  BY <1>3 DEF Rows
<1>5. \A v \in DOMAIN ver[d] : v \in 1..MaxVersions
  BY <1>2, DocumentConstants
<1> QED
  BY <1>1, <1>2, <1>3, <1>4, <1>5

LEMMA UploadCheckStep ==
  ASSUME DocInv, NEW p \in Procs, regime = "serial" => p = p1, regime' = regime,
         NEW c \in Contents, UploadCheck(p, c)
  PROVE  DocInv'
<1>1. UsedOK'
  BY UsedKept DEF UploadCheck, DocInv
<1>2. CASE Active = {} /\ Continue(p, [op |-> "upload", pc |-> "insert", c |-> c])
  <2>1. PICK r : r = [op |-> "upload", pc |-> "insert", c |-> c]
    OBVIOUS
  <2>2. r \in Inserting /\ r.op = "upload" /\ r.pc = "insert"
    BY <2>1 DEF Inserting
  <2>3. r \in Handlers /\ proc' = [proc EXCEPT ![p] = r] /\ ~FilesRow(r)
    BY <1>2, <2>1, <2>2 DEF Handlers, Continue, FilesRow, At
  <2>4. Relies(r) /\ Alone(r)
    BY <1>2, <2>2 DEF Relies, Alone, At, Tasks
  <2> QED
    BY <1>1, <2>3, <2>4, ReadingStep DEF UploadCheck
<1>3. CASE \E e \in Active :
             /\ isReturned(e)
             /\ Continue(p, [op |-> "upload", pc |-> "supersede", c |-> c, e |-> e])
  <2>1. PICK e \in Active : Continue(p, [op |-> "upload", pc |-> "supersede", c |-> c, e |-> e])
    BY <1>3
  <2>2. PICK r : r = [op |-> "upload", pc |-> "supersede", c |-> c, e |-> e]
    OBVIOUS
  <2>3. e \in Docs /\ doc[e] # None
    BY DEF Active, Existing
  <2>4. r \in Superseding /\ r.op = "upload" /\ r.pc = "supersede" /\ r.e = e
    BY <2>2, <2>3 DEF Superseding
  <2>5. r \in Handlers /\ proc' = [proc EXCEPT ![p] = r] /\ ~FilesRow(r)
    BY <2>1, <2>2, <2>4 DEF Handlers, Continue, FilesRow, At
  <2>6. Relies(r)
    BY <2>3, <2>4 DEF Relies, At, Tasks
  <2>7. regime = "serial" => Alone(r)
    BY <2>4 DEF Alone, At, DocInv, SerialOK, OneActive
  <2> QED
    BY <1>1, <2>5, <2>6, <2>7, ReadingStep DEF UploadCheck
<1> QED
  BY <1>2, <1>3 DEF UploadCheck

LEMMA CreateVersionReadStep ==
  ASSUME DocInv, NEW p \in Procs, regime = "serial" => p = p1, regime' = regime,
         NEW d \in Docs, NEW c \in Contents, CreateVersionRead(p, d, c)
  PROVE  DocInv'
<1>1. UsedOK'
  BY UsedKept DEF CreateVersionRead, DocInv
<1>2. PICK v \in DOMAIN ver[d] : ver[d][v].number = LatestNumber(d)
  BY DEF CreateVersionRead, Number
<1>3. PICK n : n = LatestNumber(d) + 1
  OBVIOUS
<1>4. n \in 1..MaxVersions /\ n > 1 /\ HasNumber(ver[d], n - 1)
  <2>1. v \in 1..Len(ver[d]) /\ Len(ver[d]) \in Nat /\ ver[d][v].number \in 1..MaxVersions /\ ver[d][v].number <= v
    BY RowsTyped DEF Unbroken
  <2>2. Len(ver[d]) < MaxVersions /\ MaxVersions \in Nat
    BY DocumentConstants DEF CreateVersionRead
  <2>3. n \in 1..MaxVersions /\ n > 1 /\ n - 1 = ver[d][v].number
    BY <1>2, <1>3, <2>1, <2>2
  <2> QED
    BY <2>3 DEF HasNumber
<1>5. doc[d] \in Document /\ doc[d] # None /\ Names(ver[d], doc[d].current)
  BY RowsTyped DEF CreateVersionRead, Active
<1>6. PICK x \in Document : x = doc[d]
  BY <1>5
<1>7. PICK r : r = [op |-> "newVersion", pc |-> "version", d |-> d, c |-> c, n |-> n, read |-> x]
  OBVIOUS
<1>8. r \in Versioning /\ r.op = "newVersion" /\ r.pc = "version" /\ r.d = d /\ r.n = n /\ r.read = x
  BY <1>4, <1>7 DEF Versioning
<1>9. r \in Handlers /\ proc' = [proc EXCEPT ![p] = r] /\ ~FilesRow(r)
  BY <1>3, <1>6, <1>7, <1>8 DEF Handlers, Continue, FilesRow, At, CreateVersionRead
<1>10. Relies(r)
  BY <1>4, <1>5, <1>6, <1>8 DEF Relies, At, Tasks
<1>11. Alone(r)
  BY <1>6, <1>8 DEF Alone, At
<1> QED
  BY <1>1, <1>9, <1>10, <1>11, ReadingStep DEF CreateVersionRead

LEMMA ReviewReadStep ==
  ASSUME DocInv, NEW p \in Procs, regime = "serial" => p = p1, regime' = regime,
         NEW d \in Docs, NEW decision \in Decisions, ReviewRead(p, d, decision)
  PROVE  DocInv'
<1>1. UsedOK'
  BY UsedKept DEF ReviewRead, DocInv
<1>2. PICK v \in CurrentVersions(d) :
        Continue(p, [op |-> "review", pc |-> "save", d |-> d, v |-> v, decision |-> decision])
  BY DEF ReviewRead
<1>3. v \in 1..MaxVersions /\ doc[d] # None
  BY RowsTyped DEF CurrentVersions, ReviewRead, Active
<1>4. PICK r : r = [op |-> "review", pc |-> "save", d |-> d, v |-> v, decision |-> decision]
  OBVIOUS
<1>5. r \in Reviewing /\ r.op = "review" /\ r.d = d
  BY <1>3, <1>4 DEF Reviewing
<1>6. r \in Handlers /\ proc' = [proc EXCEPT ![p] = r] /\ ~FilesRow(r)
  BY <1>2, <1>4, <1>5 DEF Handlers, Continue, FilesRow, At
<1>7. Relies(r) /\ Alone(r)
  BY <1>3, <1>5 DEF Relies, Alone, At, Tasks
<1> QED
  BY <1>1, <1>6, <1>7, ReadingStep DEF ReviewRead

LEMMA ArchiveReadStep ==
  ASSUME DocInv, NEW p \in Procs, regime = "serial" => p = p1, regime' = regime,
         NEW d \in Docs, archiveDocument(p, d)
  PROVE  DocInv'
<1>1. UsedOK'
  BY UsedKept DEF archiveDocument, DocInv
<1>2. doc[d] # None
  BY RowsTyped DEF archiveDocument, Active
<1>3. PICK r : r = [op |-> "archive", d |-> d]
  OBVIOUS
<1>4. r \in Archiving /\ r.op = "archive" /\ r.d = d
  BY <1>3 DEF Archiving
<1>5. r \in Handlers /\ proc' = [proc EXCEPT ![p] = r] /\ ~FilesRow(r)
  BY <1>3, <1>4 DEF Handlers, Continue, FilesRow, At, archiveDocument
<1>6. Relies(r) /\ Alone(r)
  BY <1>2, <1>4 DEF Relies, Alone, At, Tasks
<1> QED
  BY <1>1, <1>5, <1>6, ReadingStep DEF archiveDocument

LEMMA DeleteReadStep ==
  ASSUME DocInv, NEW p \in Procs, regime = "serial" => p = p1, regime' = regime,
         NEW d \in Docs, deleteDocument(p, d)
  PROVE  DocInv'
<1>1. UsedOK'
  BY UsedKept DEF deleteDocument, DocInv
<1>2. doc[d] \in Document /\ doc[d] # None /\ Names(ver[d], doc[d].current)
  BY RowsTyped DEF deleteDocument, Active
<1>3. PICK x \in Document : x = doc[d]
  BY <1>2
<1>4. PICK r : r = [op |-> "delete", d |-> d, read |-> x]
  OBVIOUS
<1>5. r \in Deleting /\ r.op = "delete" /\ r.d = d /\ r.read = x
  BY <1>4 DEF Deleting
<1>6. r \in Handlers /\ proc' = [proc EXCEPT ![p] = r] /\ ~FilesRow(r)
  BY <1>3, <1>4, <1>5 DEF Handlers, Continue, FilesRow, At, deleteDocument
<1>7. Relies(r) /\ Alone(r)
  BY <1>2, <1>3, <1>5 DEF Relies, Alone, At, Tasks
<1> QED
  BY <1>1, <1>6, <1>7, ReadingStep DEF deleteDocument

(* A task passes to its next step.                                         *)
LEMMA NextOfTask ==
  ASSUME NEW h \in Tasks,
         NEW op \in {"process", "extract", "stored", "metrics", "findReview", "saveReview"}
  PROVE  /\ [h EXCEPT !.op = op] \in Tasks /\ [h EXCEPT !.op = op] \in Handlers
         /\ [h EXCEPT !.op = op].op = op /\ [h EXCEPT !.op = op].d = h.d /\ [h EXCEPT !.op = op].v = h.v
<1>1. PICK r : r = [h EXCEPT !.op = op]
  OBVIOUS
<1>2. r \in Tasks /\ r.op = op /\ r.d = h.d /\ r.v = h.v
  BY <1>1 DEF Tasks
<1> QED
  BY <1>1, <1>2 DEF Handlers

LEMMA TaskRelies ==
  ASSUME NEW r \in Tasks, Stored(r.d, r.v)
  PROVE  Relies(r) /\ ~FilesRow(r) /\ (r.op # "saveReview" => Alone(r))
BY DEF Relies, FilesRow, At, Tasks, Alone

LEMMA FindReviewStep ==
  ASSUME DocInv, NEW p \in Procs, regime = "serial" => p = p1, regime' = regime, MetricsFindReview(p)
  PROVE  DocInv'
<1>1. UsedOK'
  BY UsedKept DEF MetricsFindReview, DocInv
<1>2. PICK h \in Handlers : h = proc[p] /\ Relies(h)
  BY Held
<1>3. h \in Tasks /\ Stored(h.d, h.v)
  BY <1>2, KindOf DEF MetricsFindReview, Relies
<1>4. CASE AutoReviews(h.d, h.v) # {}
  <2>1. proc' = [proc EXCEPT ![p] = Idle]
    BY <1>2, <1>4 DEF MetricsFindReview, Finish
  <2> QED
    BY <1>1, <2>1, IdleHandler, ReadingStep DEF MetricsFindReview
<1>5. CASE AutoReviews(h.d, h.v) = {}
  <2>1. PICK r : r = [h EXCEPT !.op = "saveReview"]
    OBVIOUS
  <2>2. r \in Tasks /\ r \in Handlers /\ r.op = "saveReview" /\ r.d = h.d /\ r.v = h.v
    BY <1>3, <2>1, NextOfTask
  <2>3. proc' = [proc EXCEPT ![p] = r]
    BY <1>2, <1>5, <2>1 DEF MetricsFindReview, Continue
  <2>4. Relies(r) /\ ~FilesRow(r)
    BY <1>3, <2>2, TaskRelies
  <2>5. Alone(r)
    BY <1>5, <2>2 DEF Alone, At
  <2> QED
    BY <1>1, <2>2, <2>3, <2>4, <2>5, ReadingStep DEF MetricsFindReview
<1> QED
  BY <1>4, <1>5

LEMMA WorkerTakeStep ==
  ASSUME DocInv, NEW p \in Procs, regime = "serial" => p = p1, regime' = regime, WorkerTake(p)
  PROVE  DocInv'
<1>1. UsedOK'
  BY UsedKept DEF WorkerTake, DocInv
<1>2. PICK w \in Works : w = Head(jobs) /\ Stored(w.d, w.v)
  <2>1. jobs \in Seq(Works) /\ jobs # <<>>
    BY DEF DocInv, QueueOK, WorkerTake
  <2>2. 1 \in DOMAIN jobs /\ Head(jobs) = jobs[1] /\ jobs[1] \in Works
    BY <2>1
  <2> QED
    BY <2>2 DEF DocInv, QueueOK
<1>3. PICK r : r = Task(w.op, w.d, w.v, "worker")
  OBVIOUS
<1>4. r \in Tasks /\ r.op \in {"process", "metrics"} /\ r.d = w.d /\ r.v = w.v
  BY <1>3 DEF Tasks, Task, Works
<1>5. r \in Handlers /\ proc' = [proc EXCEPT ![p] = r]
  BY <1>2, <1>3, <1>4 DEF Handlers, Continue, WorkerTake
<1>6. Relies(r) /\ ~FilesRow(r) /\ Alone(r)
  BY <1>2, <1>4, TaskRelies
<1> QED
  BY <1>1, <1>5, <1>6, ReadingStep DEF WorkerTake

LEMMA WatchdogStep ==
  ASSUME DocInv, NEW p \in Procs, regime = "serial" => p = p1, regime' = regime,
         NEW t \in timers, WatchdogFires(p, t)
  PROVE  DocInv'
<1>1. UsedOK'
  BY UsedKept DEF WatchdogFires, DocInv
<1>2. t \in Works /\ Stored(t.d, t.v) /\ t.op \in {"process", "metrics"}
  BY DEF DocInv, QueueOK, Works
<1>3. timers' \subseteq timers
  BY DEF WatchdogFires
<1>4. CASE proc' = proc
  <2>1. proc' = [proc EXCEPT ![p] = Idle]
    BY <1>4 DEF WatchdogFires, DocInv, HandlersOK
  <2> QED
    BY <1>1, <1>3, <2>1, IdleHandler, ReadingStep DEF WatchdogFires
<1>5. CASE \E op \in {"process", "metrics"} : Continue(p, Task(op, t.d, t.v, "watchdog"))
  <2>1. PICK op \in {"process", "metrics"} : Continue(p, Task(op, t.d, t.v, "watchdog"))
    BY <1>5
  <2>2. PICK r : r = Task(op, t.d, t.v, "watchdog")
    OBVIOUS
  <2>3. r \in Tasks /\ r.op = op /\ r.d = t.d /\ r.v = t.v
    BY <1>2, <2>2 DEF Tasks, Task, Works
  <2>4. r \in Handlers /\ proc' = [proc EXCEPT ![p] = r]
    BY <2>1, <2>2, <2>3 DEF Handlers, Continue
  <2>5. Relies(r) /\ ~FilesRow(r) /\ Alone(r)
    BY <1>2, <2>3, TaskRelies
  <2> QED
    BY <1>1, <1>3, <2>4, <2>5, ReadingStep DEF WatchdogFires
<1> QED
  BY <1>4, <1>5 DEF WatchdogFires, scheduleProcessWatchdog, scheduleMetricsWatchdog

-----------------------------------------------------------------------------
(* Handlers that store a document                                          *)

LEMMA FieldStored ==
  ASSUME NEW x \in Document
  PROVE  /\ \A s \in Statuses : /\ [x EXCEPT !.status = s] \in Document
                                /\ [x EXCEPT !.status = s].current = x.current
                                /\ [x EXCEPT !.status = s].deleted = x.deleted
         /\ /\ [x EXCEPT !.deleted = TRUE] \in Document /\ [x EXCEPT !.deleted = TRUE].current = x.current
            /\ [x EXCEPT !.deleted = TRUE].deleted
<1>1. ASSUME NEW s \in Statuses
      PROVE  /\ [x EXCEPT !.status = s] \in Document
             /\ [x EXCEPT !.status = s].current = x.current
             /\ [x EXCEPT !.status = s].deleted = x.deleted
  BY DEF Document
<1>2. /\ [x EXCEPT !.deleted = TRUE] \in Document /\ [x EXCEPT !.deleted = TRUE].current = x.current
      /\ [x EXCEPT !.deleted = TRUE].deleted
  BY DEF Document
<1> QED
  BY <1>1, <1>2

LEMMA SupersedeStep ==
  ASSUME DocInv, NEW p \in Procs, regime = "serial" => p = p1, regime' = regime, UploadSupersede(p)
  PROVE  DocInv'
<1>1. PICK h \in Handlers : h = proc[p] /\ Relies(h) /\ (regime = "serial" => Alone(h))
  BY Held
<1>2. h \in Superseding /\ At(h, "upload", "supersede")
  BY <1>1, KindOf DEF UploadSupersede, At
<1>3. PICK e \in Docs, c \in Contents : e = h.e /\ c = h.c
  BY <1>2 DEF Superseding
<1>4. doc[e] # None /\ doc[e] \in Document /\ Names(ver[e], doc[e].current)
  BY <1>1, <1>2, <1>3, RowsTyped DEF Relies
<1>5. PICK x : x = [doc[e] EXCEPT !.deleted = TRUE]
  OBVIOUS
<1>6. x \in Document /\ x.current = doc[e].current /\ x.deleted
  BY <1>4, <1>5, FieldStored
<1>7. doc' = [doc EXCEPT ![e] = x]
  BY <1>1, <1>3, <1>5 DEF UploadSupersede
<1>8. regime = "serial" => Active' = {}
  <2>1. regime = "serial" => Active \subseteq {e}
    BY <1>1, <1>2, <1>3 DEF Alone
  <2>2. doc \in [Docs -> Document \cup {None}]
    BY DEF DocInv, RowsOK
  <2>3. \A d \in Docs : doc'[d] = IF d = e THEN x ELSE doc[d]
    BY <1>7, <2>2
  <2>4. ASSUME regime = "serial", NEW d \in Active'
        PROVE  FALSE
    <3>1. d \in Docs /\ doc'[d] # None /\ ~doc'[d].deleted
      BY <2>4 DEF Active, Existing
    <3>2. d # e
      BY <1>6, <2>3, <3>1
    <3>3. d \in Active
      BY <2>3, <3>1, <3>2 DEF Active, Existing
    <3> QED
      BY <2>1, <2>4, <3>2, <3>3
  <2> QED
    BY <2>4
<1>9. abandoned' \subseteq Docs
  BY DEF DocInv, QueueOK, UploadSupersede
<1>10. CASE proc' = [proc EXCEPT ![p] = [op |-> "upload", pc |-> "insert", c |-> c]]
  <2>1. PICK r : r = [op |-> "upload", pc |-> "insert", c |-> c]
    OBVIOUS
  <2>2. r \in Inserting /\ r.op = "upload" /\ r.pc = "insert"
    BY <2>1 DEF Inserting
  <2>3. r \in Handlers /\ proc' = [proc EXCEPT ![p] = r] /\ ~FilesRow(r)
    BY <1>10, <2>1, <2>2 DEF Handlers, FilesRow, At
  <2>4. Relies(r)'
    BY <2>2 DEF Relies, At, Tasks
  <2>5. regime = "serial" => Alone(r)'
    BY <1>8, <2>2 DEF Alone, At
  <2> QED
    BY <1>4, <1>6, <1>7, <1>9, <2>3, <2>4, <2>5, StoringStep DEF UploadSupersede
<1>11. CASE Finish(p)
  <2>1. PICK r \in Handlers : r = Idle
    BY IdleHandler
  <2>2. proc' = [proc EXCEPT ![p] = r] /\ ~FilesRow(r) /\ Relies(r)' /\ Alone(r)'
    BY <1>11, <2>1, IdleHandler DEF Finish
  <2> QED
    BY <1>4, <1>6, <1>7, <1>9, <2>2, StoringStep DEF UploadSupersede
<1> QED
  BY <1>1, <1>3, <1>10, <1>11 DEF UploadSupersede, Continue

(* A handler that ends with one document stored.                           *)
LEMMA LastStore ==
  ASSUME DocInv, NEW p \in Procs, regime = "serial" => p = p1, regime' = regime, Finish(p),
         NEW d \in Docs, NEW x \in Document, doc[d] # None, Names(ver[d], x.current),
         doc' = [doc EXCEPT ![d] = x],
         regime = "serial" => (x.deleted = doc[d].deleted \/ x.deleted),
         ver' = ver, rev' = rev, scored' = scored, used' = used,
         jobs' = jobs \/ \E w \in Works : Stored(w.d, w.v)' /\ jobs' = Append(jobs, w),
         timers' = timers, recovering' = recovering, abandoned' \subseteq Docs
  PROVE  DocInv'
<1>1. PICK r \in Handlers : r = Idle
  BY IdleHandler
<1>2. proc' = [proc EXCEPT ![p] = r] /\ ~FilesRow(r) /\ Relies(r)' /\ Alone(r)'
  BY <1>1, IdleHandler DEF Finish
<1> QED
  BY <1>2, StoringStep

LEMMA ReviewStatusStep ==
  ASSUME DocInv, NEW p \in Procs, regime = "serial" => p = p1, regime' = regime, ReviewStatus(p)
  PROVE  DocInv'
<1>1. PICK h \in Handlers : h = proc[p] /\ Relies(h)
  BY Held
<1>2. h \in Reviewing
  BY <1>1, KindOf DEF ReviewStatus
<1>3. PICK d \in Docs : d = h.d /\ doc[d] # None
  BY <1>1, <1>2 DEF Relies, Reviewing
<1>4. doc[d] \in Document /\ Names(ver[d], doc[d].current)
  BY <1>3, RowsTyped
<1>5. PICK s \in Statuses : s = IF h.decision = "compliant" THEN "ready" ELSE "pending"
  BY DEF Statuses
<1>6. PICK x : x = [doc[d] EXCEPT !.status = s]
  OBVIOUS
<1>7. x \in Document /\ x.current = doc[d].current /\ x.deleted = doc[d].deleted
  BY <1>4, <1>6, FieldStored
<1>8. doc' = [doc EXCEPT ![d] = x]
  BY <1>1, <1>3, <1>5, <1>6 DEF ReviewStatus
<1>9. abandoned' \subseteq Docs
  BY DEF DocInv, QueueOK, ReviewStatus
<1> QED
  BY <1>3, <1>4, <1>7, <1>8, <1>9, LastStore DEF ReviewStatus

LEMMA ArchiveStep ==
  ASSUME DocInv, NEW p \in Procs, regime = "serial" => p = p1, regime' = regime, ArchiveUpdate(p)
  PROVE  DocInv'
<1>1. PICK h \in Handlers : h = proc[p] /\ Relies(h)
  BY Held
<1>2. h \in Archiving
  BY <1>1, KindOf DEF ArchiveUpdate
<1>3. PICK d \in Docs : d = h.d /\ doc[d] # None
  BY <1>1, <1>2 DEF Relies, Archiving
<1>4. doc[d] \in Document /\ Names(ver[d], doc[d].current)
  BY <1>3, RowsTyped
<1>5. PICK x : x = [doc[d] EXCEPT !.deleted = TRUE]
  OBVIOUS
<1>6. x \in Document /\ x.current = doc[d].current /\ x.deleted
  BY <1>4, <1>5, FieldStored
<1>7. doc' = [doc EXCEPT ![d] = x]
  BY <1>1, <1>3, <1>5 DEF ArchiveUpdate
<1>8. abandoned' \subseteq Docs
  BY DEF DocInv, QueueOK, ArchiveUpdate
<1> QED
  BY <1>3, <1>4, <1>6, <1>7, <1>8, LastStore DEF ArchiveUpdate

LEMMA DeleteSaveStep ==
  ASSUME DocInv, NEW p \in Procs, regime = "serial" => p = p1, regime' = regime, DeleteSave(p)
  PROVE  DocInv'
<1>1. PICK h \in Handlers : h = proc[p] /\ Relies(h)
  BY Held
<1>2. h \in Deleting
  BY <1>1, KindOf DEF DeleteSave
<1>3. PICK d \in Docs, y \in Document : d = h.d /\ y = h.read /\ doc[d] # None /\ Names(ver[d], y.current)
  BY <1>1, <1>2 DEF Relies, Deleting
<1>4. PICK x : x = [y EXCEPT !.deleted = TRUE]
  OBVIOUS
<1>5. x \in Document /\ x.current = y.current /\ x.deleted
  BY <1>3, <1>4, FieldStored
<1>6. doc' = [doc EXCEPT ![d] = x]
  BY <1>1, <1>3, <1>4 DEF DeleteSave
<1>7. abandoned' \subseteq Docs
  BY DEF DocInv, QueueOK, DeleteSave
<1> QED
  BY <1>3, <1>5, <1>6, <1>7, LastStore DEF DeleteSave

LEMMA CreateVersionSaveStep ==
  ASSUME DocInv, NEW p \in Procs, regime = "serial" => p = p1, regime' = regime, CreateVersionSave(p)
  PROVE  DocInv'
<1>1. PICK h \in Handlers : h = proc[p] /\ Relies(h) /\ (regime = "serial" => Alone(h))
  BY Held
<1>2. h \in Saving /\ At(h, "newVersion", "save")
  BY <1>1, KindOf DEF CreateVersionSave, At
<1>3. PICK d \in Docs, c \in Contents, n \in 1..MaxVersions, y \in Document, v \in 1..MaxVersions :
        d = h.d /\ c = h.c /\ n = h.n /\ y = h.read /\ v = h.v
  BY <1>2 DEF Saving
<1>4. doc[d] # None /\ HasNumber(ver[d], n) /\ v \in DOMAIN ver[d]
  BY <1>1, <1>2, <1>3 DEF Relies
<1>5. PICK text \in Texts : text = extractInitialText(c)
  BY DEF extractInitialText, Texts
<1>6. PICK x : x = [y EXCEPT !.current = n, !.status = "ready", !.text = text]
  OBVIOUS
<1>7. x \in Document /\ x.current = n /\ x.deleted = y.deleted
  BY <1>6 DEF Document, Statuses
<1>8. doc' = [doc EXCEPT ![d] = x]
  BY <1>1, <1>3, <1>5, <1>6, Zenon DEF CreateVersionSave
<1>9. regime = "serial" => x.deleted = doc[d].deleted
  BY <1>1, <1>2, <1>3, <1>7 DEF Alone, At
<1>10. Names(ver[d], x.current)
  BY <1>4, <1>7 DEF Names
<1>11. jobs' = jobs \/ \E w \in Works : Stored(w.d, w.v)' /\ jobs' = Append(jobs, w)
  <2>1. PICK w : w = Job("process", d, v)
    OBVIOUS
  <2>2. w \in Works /\ w.d = d /\ w.v = v
    BY <2>1 DEF Works, Job
  <2>3. Stored(d, v)'
    <3>1. x # None /\ doc'[d] = x /\ ver' = ver
      BY <1>7, <1>8, DocumentConstants DEF DocInv, RowsOK, CreateVersionSave
    <3> QED
      BY <1>4, <3>1 DEF Stored
  <2>4. jobs' = jobs \/ jobs' = Append(jobs, w)
    BY <1>1, <1>3, <2>1 DEF CreateVersionSave
  <2> QED
    BY <2>2, <2>3, <2>4, Zenon DEF Stored
<1>12. abandoned' \subseteq Docs
  BY DEF DocInv, QueueOK, CreateVersionSave
<1> QED
  BY <1>4, <1>7, <1>8, <1>9, <1>10, <1>11, <1>12, LastStore DEF CreateVersionSave

(* A processing task stores its document and goes on.                      *)
LEMMA TaskStore ==
  ASSUME DocInv, NEW p \in Procs, regime = "serial" => p = p1, regime' = regime,
         NEW d \in Docs, NEW v, Stored(d, v),
         NEW r \in Handlers, r \in Tasks, r.op # "saveReview", r.d = d, r.v = v,
         proc' = [proc EXCEPT ![p] = r],
         NEW x \in Document, x.current = doc[d].current, x.deleted = doc[d].deleted,
         doc' = [doc EXCEPT ![d] = x],
         ver' = ver, rev' = rev, scored' = scored, used' = used, jobs' = jobs, timers' = timers,
         recovering' = recovering, abandoned' = abandoned
  PROVE  DocInv'
<1>1. doc[d] # None /\ Names(ver[d], doc[d].current) /\ v \in DOMAIN ver[d]
  BY RowsTyped DEF Stored
<1>2. Names(ver[d], x.current)
  BY <1>1
<1>3. Stored(d, v)'
  BY <1>1, DocumentConstants DEF DocInv, RowsOK, Stored
<1>4. Relies(r)' /\ ~FilesRow(r) /\ Alone(r)'
  BY <1>3 DEF Relies, FilesRow, At, Tasks, Alone, Stored
<1>5. abandoned' \subseteq Docs
  BY DEF DocInv, QueueOK
<1>6. doc[d] # None
  BY <1>1
<1> QED
  BY <1>2, <1>4, <1>5, <1>6, StoringStep

LEMMA TaskHeld ==
  ASSUME DocInv, NEW p \in Procs,
         proc[p].op \in {"process", "extract", "stored", "metrics", "findReview", "saveReview"}
  PROVE  /\ proc[p] \in Tasks /\ Stored(proc[p].d, proc[p].v)
         /\ proc[p].d \in Docs /\ proc[p].v \in 1..MaxVersions
         /\ doc[proc[p].d] \in Document /\ doc[proc[p].d] # None
         /\ ver[proc[p].d] \in Seq(Rows) /\ Unbroken(ver[proc[p].d]) /\ ver[proc[p].d][proc[p].v] \in Rows
<1>1. PICK h \in Handlers : h = proc[p] /\ Relies(h)
  BY Held
<1>2. h \in Tasks /\ Stored(h.d, h.v)
  BY <1>1, KindOf DEF Relies
<1>3. PICK d \in Docs, v \in 1..MaxVersions : d = h.d /\ v = h.v
  BY <1>2 DEF Tasks
<1>4. doc[d] \in Document /\ doc[d] # None /\ ver[d] \in Seq(Rows) /\ Unbroken(ver[d]) /\ ver[d][v] \in Rows
  BY <1>2, <1>3, RowsTyped DEF Stored
<1> QED
  BY <1>1, <1>2, <1>3, <1>4

LEMMA ProcessStartStep ==
  ASSUME DocInv, NEW p \in Procs, regime = "serial" => p = p1, regime' = regime, ProcessStart(p)
  PROVE  DocInv'
<1>1. PICK h \in Tasks : h = proc[p] /\ Stored(h.d, h.v) /\ doc[h.d] \in Document /\ h.d \in Docs
  BY TaskHeld DEF ProcessStart
<1>2. PICK x : x = [doc[h.d] EXCEPT !.status = "processing"]
  OBVIOUS
<1>3. x \in Document /\ x.current = doc[h.d].current /\ x.deleted = doc[h.d].deleted
  BY <1>1, <1>2, FieldStored DEF Statuses
<1>4. doc' = [doc EXCEPT ![h.d] = x]
  BY <1>1, <1>2 DEF ProcessStart
<1>8. PICK r : r = [h EXCEPT !.op = "extract"]
  OBVIOUS
<1>9. r \in Tasks /\ r \in Handlers /\ r.op = "extract" /\ r.d = h.d /\ r.v = h.v
  BY <1>8, NextOfTask
<1>10. proc' = [proc EXCEPT ![p] = r]
  BY <1>1, <1>8 DEF Continue, ProcessStart
<1>11. /\ ver' = ver /\ rev' = rev /\ scored' = scored /\ used' = used /\ jobs' = jobs /\ timers' = timers
       /\ recovering' = recovering /\ abandoned' = abandoned
  BY DEF ProcessStart
<1>12. h.d \in Docs /\ Stored(h.d, h.v) /\ r.op # "saveReview"
  BY <1>1, <1>9
<1> QED
  BY <1>3, <1>4, <1>9, <1>10, <1>11, <1>12, TaskStore

LEMMA TextOfContent ==
  ASSUME NEW c \in Contents
  PROVE  extractedText(c) \in Texts /\ extractInitialText(c) \in Texts
BY DEF extractedText, extractInitialText, Texts

LEMMA ProcessDocumentStep ==
  ASSUME DocInv, NEW p \in Procs, regime = "serial" => p = p1, regime' = regime, ProcessDocument(p)
  PROVE  DocInv'
<1>1. PICK h \in Tasks : h = proc[p] /\ Stored(h.d, h.v) /\ doc[h.d] \in Document /\ h.d \in Docs
                         /\ ver[h.d][h.v] \in Rows
  BY TaskHeld DEF ProcessDocument
<1>2. PICK text \in Texts : text = extractedText(ver[h.d][h.v].content)
  BY <1>1, TextOfContent DEF Rows
<1>3. PICK y : y = doc[h.d]
  OBVIOUS
<1>4. PICK x : x = [y EXCEPT !.text = text, !.status = "ready"]
  OBVIOUS
<1>5. x \in Document /\ x.current = y.current /\ x.deleted = y.deleted
  BY <1>1, <1>3, <1>4 DEF Document, Statuses
<1>6. doc' = [doc EXCEPT ![h.d] = x]
  <2>1. doc' = [doc EXCEPT ![h.d].text = text, ![h.d].status = "ready"]
    BY <1>1, <1>2, Zenon DEF ProcessDocument
  <2>2. doc \in [Docs -> Document \cup {None}]
    BY DEF DocInv, RowsOK
  <2> QED
    BY <1>1, <1>3, <1>4, <2>1, <2>2
<1>8. PICK r : r = [h EXCEPT !.op = "stored"]
  OBVIOUS
<1>9. r \in Tasks /\ r \in Handlers /\ r.op = "stored" /\ r.d = h.d /\ r.v = h.v
  BY <1>8, NextOfTask
<1>10. proc' = [proc EXCEPT ![p] = r]
  BY <1>1, <1>8 DEF Continue, ProcessDocument
<1>11. /\ ver' = ver /\ rev' = rev /\ scored' = scored /\ used' = used /\ jobs' = jobs /\ timers' = timers
       /\ recovering' = recovering /\ abandoned' = abandoned
  BY DEF ProcessDocument
<1>12. h.d \in Docs /\ Stored(h.d, h.v) /\ r.op # "saveReview"
  BY <1>1, <1>9
<1> QED
  BY <1>3, <1>5, <1>6, <1>9, <1>10, <1>11, <1>12, TaskStore

LEMMA ProcessFailStep ==
  ASSUME DocInv, NEW p \in Procs, regime = "serial" => p = p1, regime' = regime, ProcessFail(p)
  PROVE  DocInv'
<1>1. PICK h \in Tasks : h = proc[p] /\ doc[h.d] \in Document /\ h.d \in Docs /\ doc[h.d] # None
  BY TaskHeld DEF ProcessFail
<1>2. abandoned' \subseteq Docs
  BY <1>1 DEF DocInv, QueueOK, ProcessFail
<1>3. CASE doc' = [doc EXCEPT ![h.d].status = "failed"]
  <2>1. PICK x : x = [doc[h.d] EXCEPT !.status = "failed"]
    OBVIOUS
  <2>2. x \in Document /\ x.current = doc[h.d].current /\ x.deleted = doc[h.d].deleted
    BY <1>1, <2>1, FieldStored DEF Statuses
  <2>3. doc' = [doc EXCEPT ![h.d] = x]
    BY <1>3, <2>1
  <2>4. Names(ver[h.d], x.current)
    BY <1>1, <2>2, RowsTyped
  <2> QED
    BY <1>1, <1>2, <2>2, <2>3, <2>4, LastStore DEF ProcessFail
<1>4. CASE doc' = doc
  <2>1. PICK x \in Document : x = doc[h.d]
    BY <1>1
  <2>2. doc' = [doc EXCEPT ![h.d] = x] /\ Names(ver[h.d], x.current)
    BY <1>1, <1>4, <2>1, RowsTyped DEF DocInv, RowsOK
  <2> QED
    BY <1>1, <1>2, <2>1, <2>2, LastStore DEF ProcessFail
<1> QED
  BY <1>1, <1>3, <1>4 DEF ProcessFail

-----------------------------------------------------------------------------
(* Uploads                                                                 *)

LEMMA InsertStep ==
  ASSUME DocInv, NEW p \in Procs, regime = "serial" => p = p1, regime' = regime, UploadInsert(p)
  PROVE  DocInv'
<1>1. PICK h \in Handlers : h = proc[p] /\ Relies(h) /\ (regime = "serial" => Alone(h))
  BY Held
<1>2. h \in Inserting /\ At(h, "upload", "insert")
  BY <1>1, KindOf DEF UploadInsert, At
<1>3. PICK c \in Contents : c = h.c
  BY <1>2 DEF Inserting
<1>4. PICK text \in Texts : text = extractInitialText(c)
  BY TextOfContent
<1>5. PICK d : d = CHOOSE x \in Docs \ Existing : TRUE
  OBVIOUS
<1>6. d \in Docs /\ doc[d] = None /\ ver[d] = <<>>
  <2>1. \E x \in Docs \ Existing : TRUE
    BY DEF UploadInsert, Existing
  <2>2. d \in Docs \ Existing
    BY <1>5, <2>1
  <2> QED
    BY <2>2 DEF Existing, DocInv, HistoryOK
<1>7. PICK x : x = [status |-> "pending", current |-> 1, text |-> text, deleted |-> FALSE]
  OBVIOUS
<1>8. x \in Document /\ x.current = 1 /\ x # None
  <2>1. 1 \in 1..MaxVersions
    BY DocumentConstants
  <2>2. x \in Document /\ x.current = 1
    BY <1>7, <2>1 DEF Document, Statuses
  <2> QED
    BY <2>2, DocumentConstants
<1>9. doc' = [doc EXCEPT ![d] = x]
  BY <1>1, <1>3, <1>4, <1>5, <1>7, Zenon DEF UploadInsert
<1>10. PICK r : r = [op |-> "upload", pc |-> "version", c |-> c, d |-> d]
  OBVIOUS
<1>11. r \in Filing /\ r.op = "upload" /\ r.pc = "version" /\ r.d = d
  BY <1>6, <1>10 DEF Filing
<1>12. r \in Handlers
  BY <1>11 DEF Handlers
<1>13. proc' = [proc EXCEPT ![p] = r]
  BY <1>1, <1>3, <1>5, <1>10, Zenon DEF UploadInsert, Continue
<1>14. /\ ver' = ver /\ rev' = rev /\ scored' = scored /\ used' = used /\ jobs' = jobs /\ timers' = timers
       /\ recovering' = recovering /\ abandoned' = abandoned
  BY DEF UploadInsert
<1>15. /\ doc' \in [Docs -> Document \cup {None}] /\ doc'[d] = x
       /\ \A e \in Docs : e # d => doc'[e] = doc[e]
  BY <1>6, <1>8, <1>9 DEF DocInv, RowsOK
<1>16. RowsOK'
  BY <1>14, <1>15, RowsKept, UsedKept DEF DocInv
<1>17. HistoryOK'
  BY <1>6, <1>8, <1>14, <1>15 DEF DocInv, HistoryOK, Names
<1>18. Grows /\ StillEmpty(p)
  BY <1>6, <1>14, <1>15, NoNewVersion DEF DocInv, Grows
<1>19. Relies(r)'
  BY <1>6, <1>8, <1>11, <1>14, <1>15 DEF Relies, At, Tasks
<1>20. Alike(p, r)
  BY <1>6, <1>11 DEF Alike, FilesRow, DocInv, HandlersOK, Relies
<1>21. QueueOK'
  <2>1. jobs' = jobs /\ timers' \subseteq timers /\ recovering' \subseteq recovering /\ abandoned' \subseteq Docs
    BY <1>14 DEF DocInv, QueueOK
  <2> QED
    BY <1>16, <1>18, <2>1, QueueKept DEF DocInv
<1>22. ASSUME regime = "serial"
       PROVE  OneActive' /\ OneAuto' /\ Alone(r)'
  <2>1. Active = {}
    BY <1>1, <1>2, <1>22 DEF Alone
  <2>2. \A e \in Active' : e = d
    BY <1>15, <2>1 DEF Active, Existing
  <2>3. OneActive'
    BY <2>2 DEF OneActive
  <2>4. OneAuto'
    BY <1>14, <1>22, SameReviews DEF DocInv, SerialOK
  <2>5. Alone(r)'
    BY <1>11 DEF Alone, At
  <2> QED
    BY <2>3, <2>4, <2>5
<1> QED
  BY <1>12, <1>13, <1>16, <1>17, <1>18, <1>19, <1>20, <1>21, <1>22, Stepped

(* A handler adds a row to the history of its document, or changes one.    *)
LEMMA HistoryStep ==
  ASSUME DocInv, NEW p \in Procs, regime = "serial" => p = p1, regime' = regime,
         NEW r \in Handlers, proc' = [proc EXCEPT ![p] = r], Relies(r)', ~FilesRow(r),
         regime = "serial" => Alone(r)',
         NEW d \in Docs, doc[d] # None, NEW s \in Seq(Rows), Unbroken(s), Extends(s, ver[d]),
         ver' = [ver EXCEPT ![d] = s], Names(s, doc[d].current), StillEmpty(p),
         doc' = doc, rev' = rev, scored' = scored, used' = used, 
         jobs' = jobs \/ \E w \in Works : Stored(w.d, w.v)' /\ jobs' = Append(jobs, w),
         timers' = timers, recovering' = recovering, abandoned' = abandoned
  PROVE  DocInv'
<1>1. /\ ver' \in [Docs -> Seq(Rows)] /\ ver'[d] = s
      /\ \A e \in Docs : e # d => ver'[e] = ver[e]
  BY DEF DocInv, RowsOK
<1>2. UsedOK'
  BY UsedKept DEF DocInv
<1>3. RowsOK'
  BY <1>1, <1>2 DEF DocInv, RowsOK, UsedOK
<1>4. HistoryOK'
  BY <1>1 DEF DocInv, HistoryOK
<1>5. \A e \in Docs : Extends(ver'[e], ver[e])
  BY <1>1, ExtendsItself DEF DocInv, RowsOK
<1>6. Grows
  BY <1>5 DEF Grows
<1>7. Alike(p, r)
  BY DEF Alike
<1>8. timers' \subseteq timers /\ recovering' \subseteq recovering /\ abandoned' \subseteq Docs
  BY DEF DocInv, QueueOK
<1>9. QueueOK'
  BY <1>3, <1>6, <1>8, QueueKept DEF DocInv
<1>10. ASSUME regime = "serial"
       PROVE  OneActive' /\ OneAuto' /\ Alone(r)'
  <2>1. OneActive /\ OneAuto
    BY <1>10 DEF DocInv, SerialOK
  <2>2. Active' = Active
    BY DEF Active, Existing
  <2>3. OneActive' /\ OneAuto'
    BY <2>1, <2>2, FewerActive, SameReviews
  <2> QED
    BY <1>10, <2>3
<1> QED
  BY <1>3, <1>4, <1>6, <1>7, <1>9, <1>10, Stepped

LEMMA OthersStillEmpty ==
  ASSUME DocInv, NEW p \in Procs, NEW d \in Docs, NEW s, ver' = [ver EXCEPT ![d] = s],
         ver[d] # <<>> \/ (FilesRow(proc[p]) /\ proc[p].d = d)
  PROVE  StillEmpty(p)
<1> SUFFICES ASSUME NEW q \in Procs, q # p, FilesRow(proc[q])
             PROVE  ver'[proc[q].d] = <<>>
  BY DEF StillEmpty
<1>1. ver[proc[q].d] = <<>>
  BY DEF DocInv, HandlersOK, Relies, FilesRow
<1>2. proc[q].d # d
  BY <1>1 DEF DocInv, HandlersOK
<1>3. proc[q].d \in Docs
  <2>1. PICK h \in Handlers : h = proc[q]
    BY Held
  <2>2. h \in Filing
    BY <2>1, KindOf DEF FilesRow
  <2> QED
    BY <2>1, <2>2 DEF Filing
<1> QED
  BY <1>1, <1>2, <1>3 DEF DocInv, RowsOK

LEMMA UploadVersionStep ==
  ASSUME DocInv, NEW p \in Procs, regime = "serial" => p = p1, regime' = regime, UploadVersion(p)
  PROVE  DocInv'
<1>1. PICK h \in Handlers : h = proc[p] /\ Relies(h)
  BY Held
<1>2. h \in Filing /\ At(h, "upload", "version")
  BY <1>1, KindOf DEF UploadVersion, At
<1>3. PICK c \in Contents, d \in Docs : c = h.c /\ d = h.d
  BY <1>2 DEF Filing
<1>4. doc[d] # None /\ ver[d] = <<>> /\ Names(ver[d], doc[d].current)
  BY <1>1, <1>2, <1>3, RowsTyped DEF Relies
<1>5. PICK text \in Texts : text = extractInitialText(c)
  BY TextOfContent
<1>6. PICK x : x = [number |-> 1, content |-> c, text |-> text]
  OBVIOUS
<1>7. x \in Rows /\ x.number = 1
  <2>1. 1 \in 1..MaxVersions
    BY DocumentConstants
  <2> QED
    BY <1>6, <2>1 DEF Rows
<1>8. ver[d] \in Seq(Rows) /\ Unbroken(ver[d]) /\ Len(ver[d]) < MaxVersions /\ Len(ver[d]) = 0
  BY <1>4, RowsTyped, DocumentConstants
<1>9. PICK s : s = Append(ver[d], x)
  OBVIOUS
<1>10. s \in Seq(Rows) /\ Unbroken(s) /\ Extends(s, ver[d]) /\ 1 \in DOMAIN s
  <2>1. ver[d] = <<>> /\ x.number = 1
    BY <1>4, <1>7
  <2>2. s \in Seq(Rows) /\ Unbroken(s) /\ Extends(s, ver[d]) /\ Len(ver[d]) + 1 \in DOMAIN s
    BY <1>7, <1>8, <1>9, <2>1, NextRow
  <2>3. Len(ver[d]) + 1 = 1
    BY <1>8
  <2> QED
    BY <2>2, <2>3
<1>11. ver' = [ver EXCEPT ![d] = s]
  BY <1>1, <1>3, <1>5, <1>6, <1>9 DEF UploadVersion
<1>12. Names(s, doc[d].current)
  BY <1>4, <1>8, <1>10, CurrentStays
<1>13. StillEmpty(p)
  BY <1>1, <1>2, <1>3, <1>11, OthersStillEmpty DEF FilesRow
<1>14. PICK r : r = [op |-> "upload", pc |-> "kickOff", c |-> c, d |-> d]
  OBVIOUS
<1>15. r \in Filing /\ r.op = "upload" /\ r.pc = "kickOff" /\ r.d = d
  BY <1>14 DEF Filing
<1>16. r \in Handlers /\ ~FilesRow(r)
  BY <1>15 DEF Handlers, FilesRow, At
<1>17. proc' = [proc EXCEPT ![p] = r]
  BY <1>1, <1>3, <1>14 DEF UploadVersion, Continue
<1>18. doc' = doc /\ ver'[d] = s
  BY <1>11 DEF UploadVersion, DocInv, RowsOK
<1>19. Relies(r)' /\ Alone(r)'
  BY <1>4, <1>10, <1>15, <1>18 DEF Relies, Alone, At, Tasks, Stored
<1>20. /\ rev' = rev /\ scored' = scored /\ used' = used /\ jobs' = jobs /\ timers' = timers
       /\ recovering' = recovering /\ abandoned' = abandoned
  BY DEF UploadVersion
<1> QED
  BY <1>4, <1>10, <1>11, <1>12, <1>13, <1>16, <1>17, <1>18, <1>19, <1>20, HistoryStep

LEMMA CreateVersionRowStep ==
  ASSUME DocInv, NEW p \in Procs, regime = "serial" => p = p1, regime' = regime, CreateVersionRow(p)
  PROVE  DocInv'
<1>1. PICK h \in Handlers : h = proc[p] /\ Relies(h) /\ (regime = "serial" => Alone(h))
  BY Held
<1>2. h \in Versioning /\ At(h, "newVersion", "version") /\ h.op = "newVersion"
  BY <1>1, KindOf DEF CreateVersionRow, At
<1>3. PICK d \in Docs, c \in Contents, n \in 1..MaxVersions, y \in Document :
        d = h.d /\ c = h.c /\ n = h.n /\ y = h.read
  BY <1>2 DEF Versioning
<1>4. doc[d] # None /\ n > 1 /\ HasNumber(ver[d], n - 1) /\ Names(ver[d], doc[d].current)
  BY <1>1, <1>2, <1>3, RowsTyped DEF Relies
<1>5. PICK text \in Texts : text = extractInitialText(c)
  BY TextOfContent
<1>6. PICK x : x = [number |-> n, content |-> c, text |-> text]
  OBVIOUS
<1>7. x \in Rows /\ x.number = n
  BY <1>6 DEF Rows
<1>8. ver[d] \in Seq(Rows) /\ Unbroken(ver[d]) /\ Len(ver[d]) \in Nat
  BY RowsTyped
<1>9. Len(ver[d]) < MaxVersions
  BY <1>1, <1>3 DEF CreateVersionRow
<1>10. PICK s : s = Append(ver[d], x)
  OBVIOUS
<1>11. PICK v : v = Len(ver[d]) + 1
  OBVIOUS
<1>12. s \in Seq(Rows) /\ Unbroken(s) /\ Extends(s, ver[d]) /\ v \in DOMAIN s /\ HasNumber(s, n)
  BY <1>4, <1>7, <1>8, <1>9, <1>10, <1>11, NextRow
<1>13. ver' = [ver EXCEPT ![d] = s]
  BY <1>1, <1>3, <1>5, <1>6, <1>10 DEF CreateVersionRow
<1>14. Names(s, doc[d].current)
  BY <1>4, <1>8, <1>12, CurrentStays
<1>15. ver[d] # <<>>
  BY <1>4 DEF HasNumber
<1>16. StillEmpty(p)
  BY <1>13, <1>15, OthersStillEmpty
<1>17. v \in 1..MaxVersions
  BY <1>8, <1>9, <1>11, DocumentConstants
<1>18. PICK r : r = [op |-> "newVersion", pc |-> "save", d |-> d, c |-> c, n |-> n, read |-> y, v |-> v]
  OBVIOUS
<1>19. r \in Saving /\ r.op = "newVersion" /\ r.pc = "save" /\ r.d = d /\ r.n = n /\ r.read = y /\ r.v = v
  BY <1>17, <1>18 DEF Saving
<1>20. r \in Handlers /\ ~FilesRow(r)
  BY <1>19 DEF Handlers, FilesRow, At
<1>21. proc' = [proc EXCEPT ![p] = r]
  BY <1>1, <1>3, <1>11, <1>18, Zenon DEF CreateVersionRow, Continue
<1>22. doc' = doc /\ ver'[d] = s
  BY <1>13 DEF CreateVersionRow, DocInv, RowsOK
<1>23. Relies(r)'
  BY <1>4, <1>12, <1>19, <1>22 DEF Relies, At, Tasks
<1>24. regime = "serial" => Alone(r)'
  <2>1. regime = "serial" => y.deleted = doc[d].deleted
    BY <1>1, <1>2, <1>3, Zenon DEF Alone
  <2> QED
    BY <1>19, <1>22, <2>1 DEF Alone, At
<1>25. /\ rev' = rev /\ scored' = scored /\ used' = used /\ jobs' = jobs /\ timers' = timers
       /\ recovering' = recovering /\ abandoned' = abandoned
  BY DEF CreateVersionRow
<1> QED
  BY <1>4, <1>12, <1>13, <1>14, <1>16, <1>20, <1>21, <1>22, <1>23, <1>24, <1>25, HistoryStep

(* Work on a document is queued, with its status stored or not.            *)
LEMMA EnqueueWorkStep ==
  ASSUME DocInv, NEW p \in Procs, regime = "serial" => p = p1, regime' = regime,
         NEW d \in Docs, NEW v, Stored(d, v), NEW s \in Statuses,
         doc' = doc \/ doc' = [doc EXCEPT ![d].status = s],
         ver' = ver, rev' = rev, scored' = scored, UsedOK',
         NEW op \in {"process", "metrics"}, NEW from \in {"request", "recovery"},
         enqueueOrFallback(op, p, d, v, from),
         recovering' \subseteq recovering, abandoned' = abandoned
  PROVE  DocInv'
<1>1. doc[d] # None /\ doc[d] \in Document /\ Names(ver[d], doc[d].current) /\ v \in 1..MaxVersions
  BY RowsTyped DEF Stored
<1>2. /\ doc' \in [Docs -> Document \cup {None}] /\ HistoryOK' /\ Grows /\ StillEmpty(p)
      /\ Active' \subseteq Active
  <2>1. CASE doc' = doc
    BY <2>1, NothingStored DEF DocInv, RowsOK
  <2>2. CASE doc' = [doc EXCEPT ![d].status = s]
    <3>1. PICK x : x = [doc[d] EXCEPT !.status = s]
      OBVIOUS
    <3>2. x \in Document /\ x.current = doc[d].current /\ x.deleted = doc[d].deleted
      BY <1>1, <3>1, FieldStored
    <3>3. doc' = [doc EXCEPT ![d] = x]
      BY <2>2, <3>1
    <3>4. Names(ver[d], x.current)
      BY <1>1, <3>2
    <3> QED
      BY <1>1, <3>2, <3>3, <3>4, DocumentStored DEF DocInv
  <2> QED
    BY <2>1, <2>2
<1>3. RowsOK'
  BY <1>2, RowsKept DEF DocInv
<1>4. Stored(d, v)'
  BY <1>2, <1>3, StaysStored DEF DocInv
<1>5. regime = "serial" => OneActive' /\ OneAuto'
  BY <1>2, FewerActive, SameReviews DEF DocInv, SerialOK
<1> QED
  BY <1>1, <1>2, <1>3, <1>4, <1>5, EnqueueStep

LEMMA UploadKickOffStep ==
  ASSUME DocInv, NEW p \in Procs, regime = "serial" => p = p1, regime' = regime, UploadKickOff(p)
  PROVE  DocInv'
<1>1. PICK h \in Handlers : h = proc[p] /\ Relies(h)
  BY Held
<1>2. h \in Filing /\ At(h, "upload", "kickOff")
  BY <1>1, KindOf DEF UploadKickOff, At
<1>3. PICK d \in Docs : d = h.d /\ Stored(d, 1)
  BY <1>1, <1>2 DEF Filing, Relies
<1>4. PICK s \in Statuses : s = "ready"
  BY DEF Statuses
<1>5. PICK op \in {"process", "metrics"} :
        enqueueOrFallback(op, p, d, 1, "request") /\ (doc' = doc \/ doc' = [doc EXCEPT ![d].status = s])
  BY <1>1, <1>3, <1>4 DEF UploadKickOff, enqueueMetricsOrFallback, enqueueProcessOrFallback
<1>6. ver' = ver /\ rev' = rev /\ scored' = scored /\ recovering' \subseteq recovering /\ abandoned' = abandoned
  BY DEF UploadKickOff
<1>7. UsedOK'
  BY UsedKept DEF DocInv, UploadKickOff
<1> QED
  BY <1>3, <1>5, <1>6, <1>7, EnqueueWorkStep

LEMMA ReprocessStep ==
  ASSUME DocInv, NEW p \in Procs, regime = "serial" => p = p1, regime' = regime,
         NEW d \in Docs, reprocessDocument(p, d)
  PROVE  DocInv'
<1>1. PICK v \in CurrentVersions(d) : enqueueOrFallback("metrics", p, d, v, "request")
  BY DEF reprocessDocument, enqueueMetricsOrFallback
<1>2. Stored(d, v)
  BY RowsTyped DEF reprocessDocument, CurrentVersions, Stored
<1>3. PICK s \in Statuses : s = "ready"
  BY DEF Statuses
<1>4. doc' = [doc EXCEPT ![d].status = s]
  BY <1>3 DEF reprocessDocument
<1>5. ver' = ver /\ rev' = rev /\ scored' = scored /\ recovering' \subseteq recovering /\ abandoned' = abandoned
  BY DEF reprocessDocument
<1>6. UsedOK'
  BY UsedKept DEF DocInv, reprocessDocument
<1> QED
  BY <1>1, <1>2, <1>4, <1>5, <1>6, EnqueueWorkStep

LEMMA RecoverStep ==
  ASSUME DocInv, NEW p \in Procs, regime = "serial" => p = p1, regime' = regime,
         NEW d \in Docs, RecoverDocument(p, d)
  PROVE  DocInv'
<1>1. /\ ver' = ver /\ rev' = rev /\ scored' = scored /\ recovering' \subseteq recovering /\ abandoned' = abandoned
      /\ d \in recovering
  BY DEF RecoverDocument
<1>2. UsedOK'
  BY UsedKept DEF DocInv, RecoverDocument
<1>3. CASE UNCHANGED <<doc, jobs, timers, proc>>
  <2>1. doc' = doc /\ jobs' = jobs /\ timers' \subseteq timers
    BY <1>3
  <2>2. proc' = [proc EXCEPT ![p] = Idle]
    BY <1>3 DEF RecoverDocument, DocInv, HandlersOK
  <2> QED
    BY <1>1, <1>2, <2>1, <2>2, IdleHandler, ReadingStep
<1>4. CASE \E v \in CurrentVersions(d) :
             /\ doc' = [doc EXCEPT ![d].status = "ready"]
             /\ enqueueMetricsOrFallback(p, d, v, "recovery")
  <2>1. PICK v \in CurrentVersions(d) : /\ doc' = [doc EXCEPT ![d].status = "ready"]
                                        /\ enqueueOrFallback("metrics", p, d, v, "recovery")
    BY <1>4 DEF enqueueMetricsOrFallback
  <2>2. Stored(d, v)
    BY <1>1 DEF CurrentVersions, Stored, DocInv, QueueOK
  <2>3. PICK s \in Statuses : s = "ready"
    BY DEF Statuses
  <2>4. doc' = [doc EXCEPT ![d].status = s]
    BY <2>1, <2>3
  <2> QED
    BY <1>1, <1>2, <2>1, <2>2, <2>4, EnqueueWorkStep
<1> QED
  BY <1>3, <1>4 DEF RecoverDocument

LEMMA ProcessVersionStep ==
  ASSUME DocInv, NEW p \in Procs, regime = "serial" => p = p1, regime' = regime, ProcessVersion(p)
  PROVE  DocInv'
<1>1. PICK h \in Tasks : h = proc[p] /\ Stored(h.d, h.v)
  BY TaskHeld DEF ProcessVersion
<1>2. PICK d \in Docs, v \in 1..MaxVersions : d = h.d /\ v = h.v
  BY DEF Tasks
<1>3. /\ doc[d] # None /\ v \in DOMAIN ver[d] /\ Names(ver[d], doc[d].current)
      /\ ver[d] \in Seq(Rows) /\ Unbroken(ver[d]) /\ ver[d][v] \in Rows
  BY <1>1, <1>2, RowsTyped DEF Stored
<1>4. PICK text \in Texts : text = extractedText(ver[d][v].content)
  BY <1>3, TextOfContent DEF Rows
<1>5. PICK x : x = [ver[d][v] EXCEPT !.text = text]
  OBVIOUS
<1>6. x \in Rows /\ x.number = ver[d][v].number
  BY <1>3, <1>5 DEF Rows
<1>7. PICK s : s = [ver[d] EXCEPT ![v] = x]
  OBVIOUS
<1>8. s \in Seq(Rows) /\ Unbroken(s) /\ Extends(s, ver[d])
  BY <1>3, <1>6, <1>7, SameNumbers
<1>9. ver' = [ver EXCEPT ![d] = s]
  <2>1. ver' = [ver EXCEPT ![d][v].text = text]
    BY <1>1, <1>2, <1>4, Zenon DEF ProcessVersion
  <2> QED
    BY <1>5, <1>7, <2>1
<1>10. Names(s, doc[d].current)
  BY <1>3, <1>8, CurrentStays
<1>11. StillEmpty(p)
  <2>1. ver[d] # <<>>
    BY <1>3
  <2> QED
    BY <1>9, <2>1, OthersStillEmpty
<1>12. /\ doc' = doc /\ rev' = rev /\ scored' = scored /\ used' = used /\ timers' = timers
       /\ recovering' = recovering /\ abandoned' = abandoned
  BY DEF ProcessVersion
<1>13. Stored(d, v)'
  <2>1. ver'[d] = s
    BY <1>9 DEF DocInv, RowsOK
  <2>2. v \in DOMAIN s
    BY <1>3, <1>8, NumbersStay
  <2> QED
    BY <1>3, <1>12, <2>1, <2>2 DEF Stored
<1>14. CASE jobs' = Append(jobs, Job("metrics", d, v)) /\ Finish(p)
  <2>1. PICK w : w = Job("metrics", d, v)
    OBVIOUS
  <2>2. w \in Works /\ w.d = d /\ w.v = v
    BY <2>1 DEF Works, Job
  <2>3. \E y \in Works : Stored(y.d, y.v)' /\ jobs' = Append(jobs, y)
    BY <1>13, <1>14, <2>1, <2>2, Zenon DEF Stored
  <2>4. PICK r \in Handlers : r = Idle
    BY IdleHandler
  <2>5. proc' = [proc EXCEPT ![p] = r] /\ ~FilesRow(r) /\ Relies(r)' /\ Alone(r)'
    BY <1>14, <2>4, IdleHandler DEF Finish
  <2> QED
    BY <1>3, <1>8, <1>9, <1>10, <1>11, <1>12, <2>3, <2>5, HistoryStep
<1>15. CASE Continue(p, [h EXCEPT !.op = "metrics"]) /\ jobs' = jobs
  <2>1. PICK r : r = [h EXCEPT !.op = "metrics"]
    OBVIOUS
  <2>2. r \in Tasks /\ r \in Handlers /\ r.op = "metrics" /\ r.d = d /\ r.v = v
    BY <1>2, <2>1, NextOfTask
  <2>3. proc' = [proc EXCEPT ![p] = r] /\ jobs' = jobs
    BY <1>15, <2>1 DEF Continue
  <2>4. Relies(r)' /\ ~FilesRow(r) /\ Alone(r)'
    BY <1>13, <2>2 DEF Relies, FilesRow, At, Tasks, Alone, Stored
  <2> QED
    BY <1>3, <1>8, <1>9, <1>10, <1>11, <1>12, <2>2, <2>3, <2>4, HistoryStep
<1> QED
  BY <1>1, <1>2, <1>14, <1>15, Zenon DEF ProcessVersion

-----------------------------------------------------------------------------
(* Reviews and metrics                                                     *)

(* Reviews or metric results are stored.                                   *)
LEMMA RecordingStep ==
  ASSUME DocInv, NEW p \in Procs, regime = "serial" => p = p1, regime' = regime,
         NEW r \in Handlers, proc' = [proc EXCEPT ![p] = r], Relies(r), ~FilesRow(r),
         rev' \in [Docs -> Seq(Reviews)], scored' \in [Docs -> [1..MaxVersions -> Texts \cup {None}]],
         regime = "serial" => OneAuto' /\ Alone(r)',
         doc' = doc, ver' = ver, used' = used, jobs' = jobs, timers' = timers,
         recovering' = recovering, abandoned' = abandoned
  PROVE  DocInv'
<1>1. UsedOK'
  BY UsedKept DEF DocInv
<1>2. RowsOK'
  BY <1>1 DEF DocInv, RowsOK, UsedOK
<1>3. HistoryOK' /\ Grows /\ StillEmpty(p) /\ Active' = Active
  BY NothingStored DEF DocInv
<1>4. Relies(r)'
  BY DEF Relies, Stored
<1>5. Alike(p, r)
  BY DEF Alike
<1>6. jobs' = jobs /\ timers' \subseteq timers /\ recovering' \subseteq recovering /\ abandoned' \subseteq Docs
  BY DEF DocInv, QueueOK
<1>7. QueueOK'
  BY <1>2, <1>3, <1>6, QueueKept DEF DocInv
<1>8. regime = "serial" => OneActive'
  BY <1>3, FewerActive DEF DocInv, SerialOK
<1> QED
  BY <1>2, <1>3, <1>4, <1>5, <1>7, <1>8, Stepped

(* A review that is not automatic, or the first automatic one of a version.*)
LEMMA ReviewAdded ==
  ASSUME RowsOK, NEW d \in Docs, NEW x \in Reviews, rev' = [rev EXCEPT ![d] = Append(@, x)]
  PROVE  /\ rev' \in [Docs -> Seq(Reviews)]
         /\ OneAuto /\ (x.auto => AutoReviews(d, x.v) = {}) => OneAuto'
<1>1. rev[d] \in Seq(Reviews)
  BY DEF RowsOK
<1>2. PICK m : m = Len(rev[d]) + 1
  OBVIOUS
<1>3. /\ rev' \in [Docs -> Seq(Reviews)] /\ rev'[d] = Append(rev[d], x)
      /\ \A e \in Docs : e # d => rev'[e] = rev[e]
  BY <1>1 DEF RowsOK
<1>4. \A i \in DOMAIN rev'[d] : \/ i \in DOMAIN rev[d] /\ rev'[d][i] = rev[d][i]
                                \/ i = m /\ rev'[d][i] = x
  BY <1>1, <1>2, <1>3
<1>5. ASSUME OneAuto, x.auto => AutoReviews(d, x.v) = {},
             NEW e \in Docs, NEW i \in DOMAIN rev'[e], NEW j \in DOMAIN rev'[e],
             rev'[e][i].auto, rev'[e][j].auto, rev'[e][i].v = rev'[e][j].v
      PROVE  i = j
  <2>1. CASE e # d
    <3>1. rev'[e] = rev[e]
      BY <1>3, <2>1
    <3> QED
      BY <1>5, <3>1 DEF OneAuto
  <2>2. CASE e = d
    <3>1. x.auto => \A k \in DOMAIN rev[d] : ~(rev[d][k].auto /\ rev[d][k].v = x.v)
      BY <1>5 DEF AutoReviews
    <3>2. \A k, l \in DOMAIN rev[d] : rev[d][k].auto /\ rev[d][l].auto /\ rev[d][k].v = rev[d][l].v => k = l
      BY <1>5 DEF OneAuto
    <3>3. /\ (i \in DOMAIN rev[d] /\ rev'[d][i] = rev[d][i]) \/ (i = m /\ rev'[d][i] = x)
          /\ (j \in DOMAIN rev[d] /\ rev'[d][j] = rev[d][j]) \/ (j = m /\ rev'[d][j] = x)
      BY <1>4, <2>2
    <3>4. rev'[d][i].auto /\ rev'[d][j].auto /\ rev'[d][i].v = rev'[d][j].v
      BY <1>5, <2>2
    <3> QED
      BY <3>1, <3>2, <3>3, <3>4, Zenon
  <2> QED
    BY <2>1, <2>2
<1>6. ASSUME OneAuto, x.auto => AutoReviews(d, x.v) = {}
      PROVE  OneAuto'
  BY <1>5, <1>6 DEF OneAuto
<1> QED
  BY <1>3, <1>6

LEMMA ReviewSaveStep ==
  ASSUME DocInv, NEW p \in Procs, regime = "serial" => p = p1, regime' = regime, ReviewSave(p)
  PROVE  DocInv'
<1>1. PICK h \in Handlers : h = proc[p] /\ Relies(h)
  BY Held
<1>2. h \in Reviewing /\ h.op = "review"
  BY <1>1, KindOf DEF ReviewSave
<1>3. PICK d \in Docs : d = h.d /\ doc[d] # None
  BY <1>1, <1>2 DEF Relies, Reviewing
<1>4. PICK x : x = [v |-> h.v, decision |-> h.decision, auto |-> FALSE]
  OBVIOUS
<1>5. x \in Reviews
  BY <1>2, <1>4 DEF Reviews, Reviewing
<1>6. ~x.auto
  BY <1>4
<1>7. rev' = [rev EXCEPT ![d] = Append(@, x)]
  BY <1>1, <1>3, <1>4, Zenon DEF ReviewSave
<1>8. PICK r : r = [h EXCEPT !.pc = "status"]
  OBVIOUS
<1>9. r \in Reviewing /\ r.op = "review" /\ r.d = d
  BY <1>2, <1>3, <1>8 DEF Reviewing
<1>10. r \in Handlers /\ proc' = [proc EXCEPT ![p] = r] /\ ~FilesRow(r)
  BY <1>1, <1>8, <1>9 DEF Handlers, Continue, FilesRow, At, ReviewSave
<1>11. Relies(r) /\ Alone(r)'
  BY <1>3, <1>9 DEF Relies, Alone, At, Tasks
<1>12. /\ doc' = doc /\ ver' = ver /\ used' = used /\ jobs' = jobs /\ timers' = timers
       /\ recovering' = recovering /\ abandoned' = abandoned
       /\ scored' \in [Docs -> [1..MaxVersions -> Texts \cup {None}]]
  BY DEF ReviewSave, DocInv, RowsOK
<1>13. rev' \in [Docs -> Seq(Reviews)] /\ (OneAuto => OneAuto')
  BY <1>5, <1>6, <1>7, ReviewAdded DEF DocInv
<1>14. regime = "serial" => OneAuto' /\ Alone(r)'
  BY <1>11, <1>13 DEF DocInv, SerialOK
<1>15. rev' \in [Docs -> Seq(Reviews)] /\ Relies(r)
  BY <1>11, <1>13
<1> QED
  BY <1>10, <1>12, <1>14, <1>15, RecordingStep

LEMMA MetricsSaveReviewStep ==
  ASSUME DocInv, NEW p \in Procs, regime = "serial" => p = p1, regime' = regime, MetricsSaveReview(p)
  PROVE  DocInv'
<1>1. PICK h \in Handlers : h = proc[p] /\ Relies(h) /\ (regime = "serial" => Alone(h))
  BY Held
<1>2. h \in Tasks /\ h.op = "saveReview"
  BY <1>1, KindOf DEF MetricsSaveReview
<1>3. PICK d \in Docs, v \in 1..MaxVersions : d = h.d /\ v = h.v
  BY <1>2 DEF Tasks
<1>4. PICK x : x = [v |-> v, decision |-> "needs_revision", auto |-> TRUE]
  OBVIOUS
<1>5. x \in Reviews /\ x.v = v
  BY <1>4 DEF Reviews, Decisions
<1>6. rev' = [rev EXCEPT ![d] = Append(@, x)]
  BY <1>1, <1>3, <1>4, Zenon DEF MetricsSaveReview
<1>7. rev' \in [Docs -> Seq(Reviews)] /\ (OneAuto /\ AutoReviews(d, v) = {} => OneAuto')
  BY <1>5, <1>6, ReviewAdded DEF DocInv
<1>8. PICK r \in Handlers : r = Idle
  BY IdleHandler
<1>9. proc' = [proc EXCEPT ![p] = r] /\ ~FilesRow(r) /\ Relies(r) /\ Alone(r)'
  BY <1>8, IdleHandler DEF Finish, MetricsSaveReview
<1>10. /\ doc' = doc /\ ver' = ver /\ used' = used /\ jobs' = jobs /\ timers' = timers
       /\ recovering' = recovering /\ abandoned' = abandoned
       /\ scored' \in [Docs -> [1..MaxVersions -> Texts \cup {None}]]
  BY DEF MetricsSaveReview, DocInv, RowsOK
<1>11. regime = "serial" => OneAuto' /\ Alone(r)'
  BY <1>1, <1>2, <1>3, <1>7, <1>9 DEF DocInv, SerialOK, Alone
<1> QED
  BY <1>7, <1>9, <1>10, <1>11, RecordingStep

LEMMA MetricsComputeStep ==
  ASSUME DocInv, NEW p \in Procs, regime = "serial" => p = p1, regime' = regime, MetricsCompute(p)
  PROVE  DocInv'
<1>1. PICK h \in Tasks : h = proc[p] /\ Stored(h.d, h.v) /\ doc[h.d] \in Document
  BY TaskHeld DEF MetricsCompute
<1>2. PICK d \in Docs, v \in 1..MaxVersions : d = h.d /\ v = h.v
  BY DEF Tasks
<1>3. PICK text \in Texts : text = doc[d].text
  BY <1>1, <1>2 DEF Document
<1>4. scored' = [scored EXCEPT ![d][v] = text]
  BY <1>1, <1>2, <1>3, Zenon DEF MetricsCompute
<1>5. scored' \in [Docs -> [1..MaxVersions -> Texts \cup {None}]]
  BY <1>4 DEF DocInv, RowsOK
<1>6. /\ doc' = doc /\ ver' = ver /\ rev' = rev /\ used' = used /\ jobs' = jobs /\ timers' = timers
       /\ recovering' = recovering /\ abandoned' = abandoned
  BY DEF MetricsCompute
<1>7. rev' \in [Docs -> Seq(Reviews)]
  BY <1>6 DEF DocInv, RowsOK
<1>8. regime = "serial" => OneAuto'
  BY <1>6, SameReviews DEF DocInv, SerialOK
<1>9. CASE Finish(p)
  <2>1. PICK r \in Handlers : r = Idle
    BY IdleHandler
  <2>2. proc' = [proc EXCEPT ![p] = r] /\ ~FilesRow(r) /\ Relies(r) /\ Alone(r)'
    BY <1>9, <2>1, IdleHandler DEF Finish
  <2> QED
    BY <1>5, <1>6, <1>7, <1>8, <2>2, RecordingStep
<1>10. CASE Continue(p, [h EXCEPT !.op = "findReview"])
  <2>1. PICK r : r = [h EXCEPT !.op = "findReview"]
    OBVIOUS
  <2>2. r \in Tasks /\ r \in Handlers /\ r.op = "findReview" /\ r.d = h.d /\ r.v = h.v
    BY <2>1, NextOfTask
  <2>3. proc' = [proc EXCEPT ![p] = r]
    BY <1>10, <2>1 DEF Continue
  <2>4. Relies(r) /\ ~FilesRow(r)
    BY <1>1, <2>2, TaskRelies
  <2>5. Alone(r)'
    BY <2>2 DEF Alone, At
  <2> QED
    BY <1>5, <1>6, <1>7, <1>8, <2>2, <2>3, <2>4, <2>5, RecordingStep
<1> QED
  BY <1>1, <1>9, <1>10, Zenon DEF MetricsCompute

-----------------------------------------------------------------------------
(* A restart                                                               *)

LEMMA InSomeOrder ==
  ASSUME NEW S, IsFiniteSet(S)
  PROVE  SetToSeq(S) \in Seq(S)
<1>1. Cardinality(S) \in Nat /\ ExistsBijection(1..Cardinality(S), S)
  BY FS_CardinalityType
<1>2. PICK n \in Nat : n = Cardinality(S)
  BY <1>1
<1>3. \E f \in [1..n -> S] : IsInjective(f)
  BY <1>1, <1>2 DEF ExistsBijection, Bijection, Injection, IsInjective
<1>4. SetToSeq(S) \in [1..n -> S]
  BY <1>2, <1>3 DEF SetToSeq
<1> QED
  BY <1>4

LEMMA CrashStep ==
  ASSUME DocInv, regime # "serial", regime' = regime, Crash
  PROVE  DocInv'
<1> DEFINE hit == {q \in Procs : /\ proc[q].op \in {"process", "extract", "stored"}
                                 /\ proc[q].from = "worker"}
           again == {Job("process", proc[q].d, proc[q].v) : q \in hit}
<1>1. /\ doc' = doc /\ ver' = ver /\ rev' = rev /\ scored' = scored /\ abandoned' = abandoned /\ timers' = {}
      /\ proc' = [q \in Procs |-> Idle] /\ recovering' \subseteq Active
  BY DEF Crash
<1>2. UsedOK'
  <2>1. PICK n \in 0..MaxCrashes : n = used.crashes
    BY DEF DocInv, RowsOK
  <2>2. n + 1 \in 0..MaxCrashes
    BY <2>1, DocumentConstants DEF Crash
  <2>3. used' = [used EXCEPT !.crashes = n + 1]
    BY <2>1 DEF Crash
  <2> QED
    BY <2>2, <2>3 DEF DocInv, RowsOK, UsedOK
<1>3. RowsOK'
  BY <1>1, <1>2, RowsKept DEF DocInv, RowsOK
<1>4. HistoryOK'
  BY <1>1 DEF DocInv, HistoryOK
<1>5. HandlersOK'
  BY <1>1, IdleHandler DEF HandlersOK
<1>6. again \subseteq Works /\ \A w \in again : Stored(w.d, w.v)
  <2>1. ASSUME NEW q \in hit
        PROVE  /\ Job("process", proc[q].d, proc[q].v) \in Works
               /\ Stored(Job("process", proc[q].d, proc[q].v).d, Job("process", proc[q].d, proc[q].v).v)
    <3>1. PICK h \in Tasks : h = proc[q] /\ Stored(h.d, h.v)
      BY TaskHeld
    <3>2. PICK w : w = Job("process", h.d, h.v)
      OBVIOUS
    <3>3. w \in Works /\ w.d = h.d /\ w.v = h.v
      BY <3>2 DEF Works, Job, Tasks
    <3>4. Stored(w.d, w.v)
      BY <3>1, <3>3
    <3> QED
      BY <3>1, <3>2, <3>3, <3>4, Zenon
  <2> QED
    BY <2>1
<1>7. IsFiniteSet(again)
  <2>1. IsFiniteSet(hit)
    BY DocumentConstants, FS_Subset
  <2>2. PICK f : f = [q \in hit |-> Job("process", proc[q].d, proc[q].v)]
    OBVIOUS
  <2>3. f \in Surjection(hit, again)
    BY <2>2 DEF Surjection
  <2> QED
    BY <2>1, <2>3, FS_Surjection
<1> HIDE DEF again, hit
<1>8. \A i \in DOMAIN jobs : jobs[i] \in Works /\ Stored(jobs[i].d, jobs[i].v)
  BY DEF DocInv, QueueOK
<1>9. jobs' \in Seq(Works) /\ \A i \in DOMAIN jobs' : Stored(jobs'[i].d, jobs'[i].v)
  <2>1. CASE jobs' = <<>>
    BY <2>1
  <2>2. CASE jobs' = SetToSeq(again) \o jobs
    <3>1. PICK s \in Seq(again) : s = SetToSeq(again)
      BY <1>7, InSomeOrder
    <3>2. s \in Seq(Works) /\ \A i \in DOMAIN s : s[i] \in again
      BY <1>6
    <3>3. jobs \in Seq(Works)
      BY DEF DocInv, QueueOK
    <3>4. /\ jobs' \in Seq(Works) /\ DOMAIN jobs' = 1..(Len(s) + Len(jobs)) /\ Len(s) \in Nat /\ Len(jobs) \in Nat
          /\ DOMAIN s = 1..Len(s) /\ DOMAIN jobs = 1..Len(jobs)
          /\ \A i \in DOMAIN jobs' : jobs'[i] = IF i <= Len(s) THEN s[i] ELSE jobs[i - Len(s)]
      BY <2>2, <3>1, <3>2, <3>3, ConcatProperties
    <3>5. \A i \in DOMAIN jobs' : \/ i \in DOMAIN s /\ jobs'[i] = s[i]
                                  \/ i - Len(s) \in DOMAIN jobs /\ jobs'[i] = jobs[i - Len(s)]
      BY <3>4
    <3> QED
      BY <1>6, <1>8, <3>2, <3>4, <3>5
  <2> QED
    BY <2>1, <2>2 DEF Crash, again, hit
<1>10. QueueOK'
  <2>1. recovering' \subseteq Docs /\ \A d \in recovering' : doc'[d] # None
    BY <1>1 DEF Active, Existing
  <2>2. abandoned' \subseteq Docs
    BY <1>1 DEF DocInv, QueueOK
  <2> QED
    BY <1>1, <1>9, <2>1, <2>2 DEF QueueOK, Stored
<1>11. SerialOK'
  BY DEF SerialOK
<1> QED
  BY <1>3, <1>4, <1>5, <1>10, <1>11 DEF DocInv

-----------------------------------------------------------------------------
(* The initial states                                                      *)

LEMMA QuietAtFirst ==
  ASSUME jobs = <<>>, timers = {}, recovering = {}, abandoned = {}, proc = [q \in Procs |-> Idle]
  PROVE  HandlersOK /\ QueueOK /\ \A q \in Procs : proc[q] = Idle /\ Alone(proc[q])
<1>1. HandlersOK
  BY IdleHandler DEF HandlersOK
<1>2. QueueOK
  BY DEF QueueOK
<1>3. \A q \in Procs : proc[q] = Idle /\ Alone(proc[q])
  BY IdleHandler
<1> QED
  BY <1>1, <1>2, <1>3

LEMMA BoundsTyped ==
  ASSUME NEW requests \in 0..4, NEW crashes \in 0..1, NEW faults \in SUBSET Faults
  PROVE  Bounds(requests, crashes, faults) \in
           [requests : 0..MaxRequests, crashes : 0..MaxCrashes, faults : SUBSET Faults]
<1>1. MaxRequests - requests \in 0..MaxRequests /\ MaxCrashes - crashes \in 0..MaxCrashes
  BY DocumentConstants, RegimeConstants
<1> QED
  BY <1>1 DEF Bounds

LEMMA SupersededAtFirst ==
  ASSUME NEW c \in Docx \cap Readable, NEW requests \in 0..4, NEW crashes \in 0..1, NEW faults \in SUBSET Faults,
         AfterSuperseding(c, Bounds(requests, crashes, faults)), regime # "serial"
  PROVE  DocInv
<1>1. c \in Contents /\ c \in Texts /\ d2 \in Docs /\ 1 \in 1..MaxVersions
  BY DocumentConstants, RegimeConstants DEF Texts
<1>2. PICK x : x = [status |-> "pending", current |-> 1, text |-> c, deleted |-> TRUE]
  OBVIOUS
<1>3. PICK y : y = [number |-> 1, content |-> c, text |-> c]
  OBVIOUS
<1>4. PICK z : z = [v |-> 1, decision |-> "needs_revision", auto |-> FALSE]
  OBVIOUS
<1>5. x \in Document /\ x.current = 1 /\ x # None
  <2>1. x \in Document /\ x.current = 1
    BY <1>1, <1>2 DEF Document, Statuses
  <2> QED
    BY <2>1, DocumentConstants
<1>6. y \in Rows /\ y.number = 1
  BY <1>1, <1>3 DEF Rows
<1>7. z \in Reviews
  BY <1>1, <1>4 DEF Reviews, Decisions
<1>8. /\ doc = [NoDocument EXCEPT ![d2] = x] /\ ver = [NoRows EXCEPT ![d2] = <<y>>]
      /\ rev = [NoRows EXCEPT ![d2] = <<z>>] /\ scored = [NoResults EXCEPT ![d2][1] = c]
      /\ used = Bounds(requests, crashes, faults)
      /\ jobs = <<>> /\ timers = {} /\ recovering = {} /\ abandoned = {} /\ proc = [q \in Procs |-> Idle]
  BY <1>2, <1>3, <1>4, Zenon DEF AfterSuperseding, InitWith
<1>9. /\ \A d \in Docs : doc[d] = IF d = d2 THEN x ELSE None
      /\ \A d \in Docs : ver[d] = IF d = d2 THEN <<y>> ELSE <<>>
      /\ doc \in [Docs -> Document \cup {None}]
  BY <1>1, <1>5, <1>8 DEF NoDocument, NoRows
<1>10. <<y>> \in Seq(Rows) /\ <<z>> \in Seq(Reviews) /\ <<>> \in Seq(Rows) /\ <<>> \in Seq(Reviews)
  BY <1>6, <1>7
<1>11. ver \in [Docs -> Seq(Rows)] /\ rev \in [Docs -> Seq(Reviews)]
  BY <1>1, <1>8, <1>10 DEF NoRows
<1>12. scored \in [Docs -> [1..MaxVersions -> Texts \cup {None}]]
  BY <1>1, <1>8 DEF NoResults
<1>13. RowsOK
  BY <1>8, <1>9, <1>11, <1>12, BoundsTyped DEF RowsOK
<1>14. Unbroken(<<y>>) /\ Names(<<y>>, 1)
  <2>1. /\ Len(<<>>) < MaxVersions /\ <<>> \in Seq(Rows) /\ Append(<<>>, y) = <<y>>
        /\ Unbroken(<<>>)
    BY NoHistory, DocumentConstants
  <2>2. Unbroken(Append(<<>>, y)) /\ HasNumber(Append(<<>>, y), 1)
    BY <1>6, <2>1, NextRow
  <2> QED
    BY <2>1, <2>2 DEF Names
<1>15. HistoryOK
  BY <1>5, <1>9, <1>14, NoHistory DEF HistoryOK
<1>16. HandlersOK /\ QueueOK
  BY <1>8, QuietAtFirst
<1> QED
  BY <1>13, <1>15, <1>16 DEF DocInv, SerialOK

LEMMA NothingAtFirst ==
  ASSUME InitWith(NoDocument, NoRows, NoRows, NoResults, Bounds(4, 0, {}))
  PROVE  DocInv
<1>1. /\ doc = NoDocument /\ ver = NoRows /\ rev = NoRows /\ scored = NoResults /\ used = Bounds(4, 0, {})
      /\ jobs = <<>> /\ timers = {} /\ recovering = {} /\ abandoned = {} /\ proc = [q \in Procs |-> Idle]
  BY DEF InitWith
<1>2. /\ doc \in [Docs -> Document \cup {None}] /\ ver \in [Docs -> Seq(Rows)] /\ rev \in [Docs -> Seq(Reviews)]
      /\ scored \in [Docs -> [1..MaxVersions -> Texts \cup {None}]]
      /\ \A d \in Docs : doc[d] = None /\ ver[d] = <<>> /\ rev[d] = <<>>
  BY <1>1 DEF NoDocument, NoRows, NoResults
<1>3. used \in [requests : 0..MaxRequests, crashes : 0..MaxCrashes, faults : SUBSET Faults]
  BY <1>1, BoundsTyped
<1>4. RowsOK
  BY <1>2, <1>3 DEF RowsOK
<1>5. HistoryOK
  BY <1>2, NoHistory DEF HistoryOK
<1>6. HandlersOK /\ QueueOK /\ \A q \in Procs : proc[q] = Idle /\ Alone(proc[q])
  BY <1>1, QuietAtFirst
<1>7. OneActive /\ OneAuto
  BY <1>2 DEF OneActive, OneAuto, Active, Existing
<1> QED
  BY <1>4, <1>5, <1>6, <1>7 DEF DocInv, SerialOK

LEMMA DocInvAtFirst ==
  ASSUME MCInit
  PROVE  DocInv
<1>1. CASE regime = "faulty" /\ \E c \in Docx \cap Readable : AfterSuperseding(c, Bounds(2, 1, Faults))
  BY <1>1, SupersededAtFirst
<1>2. CASE regime = "racing" /\ \E c \in Docx \cap Readable : AfterSuperseding(c, Bounds(3, 0, Faults \ {"task"}))
  BY <1>2, SupersededAtFirst
<1>3. CASE InitWith(NoDocument, NoRows, NoRows, NoResults, Bounds(4, 0, {}))
  BY <1>3, NothingAtFirst
<1> QED
  BY <1>1, <1>2, <1>3 DEF MCInit

-----------------------------------------------------------------------------
(* What the invariant says                                                 *)

LEMMA LargestOf ==
  ASSUME NEW n \in Nat, NEW found \in SUBSET (0..n), found # {}
  PROVE  Max(found) \in found /\ \A k \in found : k <= Max(found)
<1> DEFINE R == OpToRel(<, Nat)
           left == {k \in Nat : \E e \in found : k = n - e}
<1>1. IsWellFoundedOn(R, Nat)
  BY NatLessThanWellFounded
<1>2. \A x, y \in Nat : <<y, x>> \in R <=> y < x
  BY DEF OpToRel
<1>3. \A e \in found : e \in 0..n /\ n - e \in left
  OBVIOUS
<1>4. left \subseteq Nat /\ left # {}
  BY <1>3
<1> HIDE DEF R
<1>5. PICK k \in left : \A j \in left : ~ (<<j, k>> \in R)
  BY <1>1, <1>4, WFMin
<1>6. PICK e \in found : k = n - e
  OBVIOUS
<1>7. \A j \in found : e >= j
  <2> TAKE j \in found
  <2>1. n - j \in Nat /\ k \in Nat /\ ~ (n - j < k)
    BY <1>2, <1>3, <1>5
  <2>2. e \in 0..n /\ j \in 0..n
    BY <1>3
  <2> QED
    BY <1>6, <2>1, <2>2
<1>8. Max(found) \in found /\ \A j \in found : Max(found) >= j
  <2>1. \E x \in found : \A j \in found : x >= j
    BY <1>7
  <2> QED
    BY <2>1 DEF Max
<1>9. Max(found) \in 0..n
  BY <1>8
<1>10. ASSUME NEW j \in found
       PROVE  j <= Max(found)
  <2>1. j \in 0..n /\ Max(found) >= j
    BY <1>3, <1>8
  <2> QED
    BY <1>9, <2>1
<1> QED
  BY <1>8, <1>10

LEMMA HistoryHolds ==
  ASSUME DocInv
  PROVE  VersionHistory
<1> SUFFICES ASSUME NEW d \in Existing, ver[d] # <<>>
             PROVE  /\ {Number(d, v) : v \in DOMAIN ver[d]} = 1..LatestNumber(d)
                    /\ CurrentVersions(d) # {}
  BY DEF VersionHistory
<1> DEFINE found == {Number(d, v) : v \in DOMAIN ver[d]}
<1>1. /\ d \in Docs /\ ver[d] \in Seq(Rows) /\ Unbroken(ver[d]) /\ Names(ver[d], doc[d].current)
      /\ \A v \in DOMAIN ver[d] : ver[d][v].number \in 1..MaxVersions
  BY RowsTyped DEF Existing
<1>2. CurrentVersions(d) # {}
  BY <1>1 DEF Names, HasNumber, CurrentVersions, Number
<1>3. 1 \in DOMAIN ver[d]
  BY <1>1
<1>4. found \subseteq 1..MaxVersions /\ found # {} /\ \A n : n \in found <=> HasNumber(ver[d], n)
  BY <1>1, <1>3 DEF Number, HasNumber
<1>5. PICK m : m = LatestNumber(d)
  OBVIOUS
<1>6. m \in found \cup {0} /\ \A k \in found : k <= m
  <2>1. found \cup {0} \in SUBSET (0..MaxVersions) /\ found \cup {0} # {} /\ MaxVersions \in Nat
    BY <1>4, DocumentConstants
  <2>2. m = Max(found \cup {0})
    BY <1>5 DEF LatestNumber
  <2> HIDE DEF found
  <2> QED
    BY <2>1, <2>2, LargestOf
<1> HIDE DEF found
<1>7. m \in found
  <2>1. PICK k \in found : k \in 1..MaxVersions
    BY <1>4
  <2> QED
    BY <1>6, <2>1
<1>8. \A k \in 1..m : k \in found
  BY <1>1, <1>4, <1>7 DEF Unbroken
<1>9. found = 1..m
  <2>1. m \in 1..MaxVersions /\ MaxVersions \in Nat
    BY <1>4, <1>7, DocumentConstants
  <2>2. \A k \in found : k \in 1..MaxVersions /\ k <= m
    BY <1>4, <1>6
  <2>3. \A k \in found : k \in 1..m
    BY <2>1, <2>2
  <2> QED
    BY <1>8, <2>3
<1> QED
  BY <1>2, <1>5, <1>9 DEF found

LEMMA AtMostOne ==
  ASSUME NEW S, \A x, y \in S : x = y
  PROVE  Cardinality(S) <= 1
<1>1. CASE S = {}
  BY <1>1, FS_EmptySet
<1>2. CASE S # {}
  <2>1. PICK x : x \in S
    BY <1>2
  <2>2. S = {x}
    BY <2>1
  <2> QED
    BY <2>2, FS_Singleton
<1> QED
  BY <1>1, <1>2

LEMMA ShapesHold ==
  ASSUME DocInv
  PROVE  TypeOK
<1>1. /\ \A d \in Docs : doc[d] = None \/ doc[d] \in Document
      /\ \A d \in Docs : ver[d] \in Seq(Rows)
      /\ \A d \in Docs : rev[d] \in Seq(Reviews)
      /\ scored \in [Docs -> [1..MaxVersions -> Texts \cup {None}]]
      /\ jobs \in Seq(Works) /\ timers \subseteq Works
      /\ recovering \subseteq Docs /\ abandoned \subseteq Docs
      /\ used \in [requests : 0..MaxRequests, crashes : 0..MaxCrashes, faults : SUBSET Faults]
  BY DEF DocInv, RowsOK, QueueOK
<1> QED
  BY <1>1, Zenon DEF TypeOK, Rows, Reviews, Works

LEMMA DocInvHolds ==
  ASSUME DocInv
  PROVE  DocVersionsHold
<1>1. ASSUME regime = "serial"
      PROVE  OneAutoReview /\ OneSubmissionPerCycle
  <2>1. OneActive /\ OneAuto
    BY <1>1 DEF DocInv, SerialOK
  <2>2. ASSUME NEW d \in Docs, NEW v \in 1..MaxVersions
        PROVE  Cardinality(AutoReviews(d, v)) <= 1
    <3>1. \A i, j \in AutoReviews(d, v) : i = j
      BY <2>1 DEF OneAuto, AutoReviews
    <3> QED
      BY <3>1, AtMostOne
  <2>3. Cardinality(Active) <= 1
    BY <2>1, AtMostOne DEF OneActive
  <2> QED
    BY <2>2, <2>3 DEF OneAutoReview, OneSubmissionPerCycle
<1> QED
  BY <1>1, HistoryHolds, ShapesHold DEF DocVersionsHold

-----------------------------------------------------------------------------
(* Every step keeps the invariant                                          *)

LEMMA RequestKeeps ==
  ASSUME DocInv, NEW p \in Procs, regime = "serial" => p = p1, regime' = regime, Request(p)
  PROVE  DocInv'
<1>1. CASE \E c \in Contents : UploadCheck(p, c)
  BY <1>1, UploadCheckStep
<1>2. CASE \E d \in Docs : \E c \in Contents : CreateVersionRead(p, d, c)
  BY <1>2, CreateVersionReadStep
<1>3. CASE \E d \in Docs : submitReview(p, d) \/ returnDocumentForRevision(p, d)
  <2>1. PICK d \in Docs, decision \in Decisions : ReviewRead(p, d, decision)
    BY <1>3 DEF submitReview, returnDocumentForRevision, Decisions
  <2> QED
    BY <2>1, ReviewReadStep
<1>4. CASE \E d \in Docs : archiveDocument(p, d)
  BY <1>4, ArchiveReadStep
<1>5. CASE \E d \in Docs : deleteDocument(p, d)
  BY <1>5, DeleteReadStep
<1>6. CASE \E d \in Docs : reprocessDocument(p, d)
  BY <1>6, ReprocessStep
<1> QED
  BY <1>1, <1>2, <1>3, <1>4, <1>5, <1>6 DEF Request

LEMMA RunningKeeps ==
  ASSUME DocInv, NEW p \in Procs, regime = "serial" => p = p1, regime' = regime, Running(p)
  PROVE  DocInv'
<1>1. CASE uploadDocument(p)
  BY <1>1, SupersedeStep, InsertStep, UploadVersionStep, UploadKickOffStep DEF uploadDocument
<1>2. CASE createVersion(p)
  BY <1>2, CreateVersionRowStep, CreateVersionSaveStep DEF createVersion
<1>3. CASE ReviewSave(p) \/ ReviewStatus(p) \/ ArchiveUpdate(p) \/ DeleteSave(p)
  BY <1>3, ReviewSaveStep, ReviewStatusStep, ArchiveStep, DeleteSaveStep
<1>4. CASE handleDocumentProcessing(p)
  BY <1>4, ProcessStartStep, ProcessDocumentStep, ProcessVersionStep, ProcessFailStep
     DEF handleDocumentProcessing
<1>5. CASE computeMetricsAndAutoReview(p)
  BY <1>5, MetricsComputeStep, FindReviewStep, MetricsSaveReviewStep DEF computeMetricsAndAutoReview
<1> QED
  BY <1>1, <1>2, <1>3, <1>4, <1>5 DEF Running

LEMMA StepKeeps ==
  ASSUME DocInv, NEW p \in Procs, regime = "serial" => p = p1, regime' = regime, Step(p)
  PROVE  DocInv'
<1>1. CASE Request(p) \/ Running(p)
  BY <1>1, RequestKeeps, RunningKeeps
<1>2. CASE WorkerTake(p)
  BY <1>2, WorkerTakeStep
<1>3. CASE \E t \in timers : WatchdogFires(p, t)
  BY <1>3, WatchdogStep
<1>4. CASE \E d \in Docs : RecoverDocument(p, d)
  BY <1>4, RecoverStep
<1> QED
  BY <1>1, <1>2, <1>3, <1>4 DEF Step

LEMMA DocInvKept ==
  ASSUME DocInv, MCNext \/ UNCHANGED MCvars
  PROVE  DocInv'
<1>1. CASE UNCHANGED regime /\ regime = "serial" /\ Step(p1)
  BY <1>1, StepKeeps, RegimeConstants
<1>2. CASE UNCHANGED regime /\ regime # "serial" /\ Next
  <2>1. CASE \E p \in Procs : Step(p)
    BY <1>2, <2>1, StepKeeps
  <2>2. CASE Crash
    BY <1>2, <2>2, CrashStep
  <2> QED
    BY <1>2, <2>1, <2>2 DEF Next
<1>3. CASE UNCHANGED MCvars
  <2>1. /\ doc' = doc /\ ver' = ver /\ rev' = rev /\ scored' = scored /\ jobs' = jobs /\ timers' = timers
        /\ proc' = proc /\ recovering' = recovering /\ abandoned' = abandoned /\ used' = used
        /\ regime' = regime
    BY <1>3 DEF MCvars, vars
  <2>2. RowsOK' /\ HistoryOK'
    BY <2>1 DEF DocInv, RowsOK, HistoryOK
  <2>3. HandlersOK'
    BY <2>1 DEF DocInv, HandlersOK, Relies, Stored, FilesRow
  <2>4. QueueOK'
    BY <2>1 DEF DocInv, QueueOK, Stored
  <2>5. SerialOK'
    BY <2>1 DEF DocInv, SerialOK, OneActive, OneAuto, Active, Existing, Alone, AutoReviews
  <2> QED
    BY <2>2, <2>3, <2>4, <2>5 DEF DocInv
<1> QED
  BY <1>1, <1>2, <1>3 DEF MCNext

(* However uploads, new versions, returns, jobs, watchdogs, failures and    *)
(* restarts race (documents.service.ts and the processing module), every    *)
(* document keeps its shape, its version numbers have no gap and its        *)
(* current version has a row; with one handler at a time a version has at   *)
(* most one automatic review and the cycle at most one active submission.   *)
THEOREM VersionsStayWhole == MCSpec => []DocVersionsHold
<1>1. MCInit => DocInv
  BY DocInvAtFirst
<1>2. DocInv /\ [MCNext]_MCvars => DocInv'
  BY DocInvKept
<1>3. DocInv => DocVersionsHold
  BY DocInvHolds
<1> QED
  BY <1>1, <1>2, <1>3, PTL DEF MCSpec

-----------------------------------------------------------------------------
(* One handler at a time: the current version is scored on its own text    *)

(* A task or job that is going to store a text in the document d.          *)
Processes(w, d) == w.op = "process" /\ w.d = d
Writes(r, d)    == r.op \in {"process", "extract"} /\ r.d = d
Queued(op, d, v) == \E i \in DOMAIN jobs : jobs[i].op = op /\ jobs[i].d = d /\ jobs[i].v = v
SavesVersion(r, d) == At(r, "newVersion", "save") /\ r.d = d
KicksOff(r, d)     == At(r, "upload", "kickOff") /\ r.d = d

(* The versions of a document are processed in their order.                *)
InOrder(d) == \A i, j \in DOMAIN jobs :
                i < j /\ Processes(jobs[i], d) /\ Processes(jobs[j], d) => jobs[i].v <= jobs[j].v
Ahead(r, d) == Writes(r, d) => \A i \in DOMAIN jobs : Processes(jobs[i], d) => r.v <= jobs[i].v

(* The text of the last version is still going to be stored, or it is and  *)
(* has been scored, or is going to be.                                     *)
LastText(d) == extractedText(ver[d][Len(ver[d])].content)
Coming(r, d) == \/ Queued("process", d, Len(ver[d]))
                \/ Writes(r, d) /\ r.v = Len(ver[d])
                \/ SavesVersion(r, d) \/ KicksOff(r, d)
Scores(r, d, v) == r.op \in {"stored", "metrics"} /\ r.d = d /\ r.v = v
Arrived(r, d) == /\ doc[d].text = LastText(d)
                 /\ \A i \in DOMAIN jobs : Processes(jobs[i], d) => jobs[i].v = Len(ver[d])
                 /\ Writes(r, d) => r.v = Len(ver[d])
                 /\ \/ scored[d][Len(ver[d])] = LastText(d)
                    \/ Queued("metrics", d, Len(ver[d]))
                    \/ Scores(r, d, Len(ver[d]))
ScoredSoon(r, d) == ver[d] # <<>> /\ NeverReturned(d)
                      => InOrder(d) /\ Ahead(r, d) /\ (Coming(r, d) \/ Arrived(r, d))

(* Numbers are positions, the last version is current, and a document that *)
(* nobody returned is pending only before it has a second version.         *)
Numbered(r, d) == ver[d] # <<>> => /\ \A v \in DOMAIN ver[d] : ver[d][v].number = v
                                   /\ doc[d].current = Len(ver[d]) \/ SavesVersion(r, d)
PendingOnce(r, d) == NeverReturned(d) /\ doc[d].status = "pending" => Len(ver[d]) <= 1 \/ SavesVersion(r, d)

(* What the handler has in hand.                                           *)
InHand(r) ==
  /\ At(r, "upload", "version") => doc[r.d].text = extractInitialText(r.c)
  /\ At(r, "upload", "kickOff") => /\ Len(ver[r.d]) = 1 /\ ver[r.d][1].content = r.c
                                   /\ doc[r.d].text = extractInitialText(r.c)
  /\ At(r, "newVersion", "version") => r.n = Len(ver[r.d]) + 1
  /\ At(r, "newVersion", "save") => r.n = Len(ver[r.d]) /\ r.v = Len(ver[r.d])
  /\ r.op = "delete" => r.read = doc[r.d]
  /\ At(r, "review", "status") /\ r.decision # "compliant" => ~NeverReturned(r.d)

ScoreOK(r) ==
  /\ used.faults = {} /\ recovering = {} /\ InHand(r)
  /\ \A d \in Docs : doc[d] # None => Numbered(r, d) /\ ScoredSoon(r, d) /\ PendingOnce(r, d)
ScoreInv == regime = "serial" => ScoreOK(proc[p1])

-----------------------------------------------------------------------------
(* The queue of a document                                                 *)

(* No job is for a version that is not stored yet.                         *)
LEMMA QueueWithin ==
  ASSUME DocInv, NEW d \in Docs
  PROVE  /\ jobs \in Seq(Works) /\ Len(ver[d]) \in Nat
         /\ \A i \in DOMAIN jobs : /\ jobs[i] \in Works /\ jobs[i].v \in 1..MaxVersions
                                   /\ Processes(jobs[i], d) => jobs[i].v <= Len(ver[d])
                                   /\ Processes(jobs[i], d) => jobs[i].v \in DOMAIN ver[d]
<1>1. jobs \in Seq(Works) /\ Len(ver[d]) \in Nat /\ DOMAIN ver[d] = 1..Len(ver[d])
  BY RowsTyped DEF DocInv, QueueOK
<1>2. ASSUME NEW i \in DOMAIN jobs
      PROVE  jobs[i] \in Works /\ Stored(jobs[i].d, jobs[i].v)
  BY <1>1 DEF DocInv, QueueOK
<1>3. \A i \in DOMAIN jobs : jobs[i].v \in 1..MaxVersions
  BY <1>2 DEF Works
<1>4. \A i \in DOMAIN jobs : Processes(jobs[i], d) => jobs[i].v \in DOMAIN ver[d]
  BY <1>2 DEF Processes, Stored
<1>5. \A i \in DOMAIN jobs : Processes(jobs[i], d) => jobs[i].v <= Len(ver[d])
  BY <1>1, <1>4
<1> QED
  BY <1>1, <1>2, <1>3, <1>4, <1>5

LEMMA JobAdded ==
  ASSUME NEW w \in Works, jobs \in Seq(Works), jobs' = Append(jobs, w), NEW d
  PROVE  /\ \A i \in DOMAIN jobs' : jobs'[i] = w \/ (i \in DOMAIN jobs /\ jobs'[i] = jobs[i])
         /\ \A op, v : Queued(op, d, v) => Queued(op, d, v)'
         /\ Queued(w.op, w.d, w.v)'
         /\ InOrder(d) /\ (Processes(w, d) => \A i \in DOMAIN jobs : Processes(jobs[i], d) => jobs[i].v <= w.v)
              => InOrder(d)'
<1>1. PICK m : m = Len(jobs) + 1
  OBVIOUS
<1>2. /\ DOMAIN jobs' = 1..m /\ DOMAIN jobs = 1..(m - 1) /\ m \in Nat /\ m >= 1 /\ m \in DOMAIN jobs' /\ jobs'[m] = w
      /\ \A i \in DOMAIN jobs : i \in DOMAIN jobs' /\ jobs'[i] = jobs[i]
  BY <1>1
<1>3. \A i \in DOMAIN jobs' : (i = m /\ jobs'[i] = w) \/ (i \in DOMAIN jobs /\ jobs'[i] = jobs[i])
  BY <1>2
<1>4. \A op, v : Queued(op, d, v) => Queued(op, d, v)'
  BY <1>2 DEF Queued
<1>5. Queued(w.op, w.d, w.v)'
  BY <1>2 DEF Queued
<1>6. ASSUME InOrder(d), Processes(w, d) => \A i \in DOMAIN jobs : Processes(jobs[i], d) => jobs[i].v <= w.v
      PROVE  InOrder(d)'
  <2> SUFFICES ASSUME NEW i \in DOMAIN jobs', NEW j \in DOMAIN jobs', i < j,
                      Processes(jobs'[i], d), Processes(jobs'[j], d)
               PROVE  jobs'[i].v <= jobs'[j].v
    BY DEF InOrder, Processes
  <2>1. i \in DOMAIN jobs /\ jobs'[i] = jobs[i]
    BY <1>2, <1>3
  <2>2. CASE j \in DOMAIN jobs /\ jobs'[j] = jobs[j]
    BY <1>6, <2>1, <2>2 DEF InOrder
  <2>3. CASE jobs'[j] = w
    BY <1>6, <2>1, <2>3
  <2> QED
    BY <1>3, <2>2, <2>3
<1> QED
  BY <1>3, <1>4, <1>5, <1>6

(* The handler neither stores the document's text nor hands work over, but *)
(* it may go on with it, or queue work on the last version.                *)
LEMMA StillSoon ==
  ASSUME DocInv, NEW h, NEW r, NEW d \in Docs, ver'[d] = ver[d], NeverReturned(d)' => NeverReturned(d),
         doc'[d].text = doc[d].text, scored'[d] = scored[d],
         jobs' = jobs \/ \E w \in Works : jobs' = Append(jobs, w) /\ (Processes(w, d) => w.v = Len(ver[d])),
         ScoredSoon(h, d), ~Writes(r, d), ~Writes(h, d), ~SavesVersion(h, d), ~KicksOff(h, d),
         ~Scores(h, d, Len(ver[d]))
  PROVE  ScoredSoon(r, d)'
<1> SUFFICES ASSUME ver[d] # <<>>, NeverReturned(d)'
             PROVE  InOrder(d)' /\ Ahead(r, d)' /\ (Coming(r, d)' \/ Arrived(r, d)')
  BY DEF ScoredSoon
<1>1. InOrder(d) /\ (Coming(h, d) \/ Arrived(h, d))
  BY DEF ScoredSoon
<1>2. PICK n : n = Len(ver[d])
  OBVIOUS
<1>3. /\ InOrder(d)' /\ \A op, v : Queued(op, d, v) => Queued(op, d, v)'
      /\ (\A i \in DOMAIN jobs : Processes(jobs[i], d) => jobs[i].v = n)
           => \A i \in DOMAIN jobs' : Processes(jobs'[i], d) => jobs'[i].v = n
  <2>1. CASE jobs' = jobs
    BY <1>1, <2>1 DEF InOrder, Queued
  <2>2. CASE \E w \in Works : jobs' = Append(jobs, w) /\ (Processes(w, d) => w.v = Len(ver[d]))
    <3>1. PICK w \in Works : jobs' = Append(jobs, w) /\ (Processes(w, d) => w.v = n)
      BY <1>2, <2>2
    <3>2. \A i \in DOMAIN jobs : Processes(jobs[i], d) => jobs[i].v <= n
      BY <1>2, QueueWithin
    <3> QED
      BY <1>1, <3>1, <3>2, JobAdded, QueueWithin
  <2> QED
    BY <2>1, <2>2
<1>4. Ahead(r, d)'
  BY DEF Ahead, Writes
<1>5. CASE Coming(h, d)
  <2>1. Queued("process", d, n)'
    BY <1>2, <1>3, <1>5 DEF Coming
  <2>2. Coming(r, d)'
    BY <1>2, <2>1 DEF Coming
  <2> QED
    BY <1>3, <1>4, <2>2
<1>6. CASE Arrived(h, d)
  <2>1. LastText(d)' = LastText(d)
    BY DEF LastText
  <2>2. /\ doc[d].text = LastText(d)
        /\ \A i \in DOMAIN jobs' : Processes(jobs'[i], d) => jobs'[i].v = n
        /\ scored[d][n] = LastText(d) \/ Queued("metrics", d, n)'
    BY <1>2, <1>3, <1>6 DEF Arrived
  <2>3. Arrived(r, d)'
    BY <1>2, <2>1, <2>2 DEF Arrived, Writes, Processes
  <2> QED
    BY <1>3, <1>4, <2>3
<1> QED
  BY <1>1, <1>5, <1>6

(* The document the handler stores something of.                           *)
About(r, d) == \/ Writes(r, d) \/ SavesVersion(r, d) \/ KicksOff(r, d)
               \/ r.op \in {"stored", "metrics"} /\ r.d = d

LEMMA FaultsKept ==
  ASSUME RowsOK, used.faults = {}
  PROVE  (used' = used => used'.faults = {}) /\ \A p : Free(p) => used'.faults = {}
<1>1. ASSUME NEW p, Free(p)
      PROVE  used'.faults = {}
  BY <1>1 DEF Free, RowsOK
<1> QED
  BY <1>1

(* The handler had nothing to store of a document's text or results.       *)
LEMMA AsideStep ==
  ASSUME DocInv, NEW h, NEW r, ScoreOK(h), \A d \in Docs : ~About(h, d) /\ ~Writes(r, d),
         ver' = ver, scored' = scored, \A d \in Docs : NeverReturned(d)' => NeverReturned(d),
         \A d \in Docs : doc'[d] # None /\ ver[d] # <<>> =>
            /\ doc[d] # None /\ doc'[d].text = doc[d].text /\ doc'[d].current = doc[d].current
            /\ doc'[d].status = "pending" => doc[d].status = "pending" \/ ~NeverReturned(d),
         jobs' = jobs \/ \E w \in Works : w.op = "metrics" /\ jobs' = Append(jobs, w),
         used'.faults = {}, recovering' \subseteq recovering, InHand(r)'
  PROVE  ScoreOK(r)'
<1> SUFFICES ASSUME NEW d \in Docs, doc'[d] # None
             PROVE  Numbered(r, d)' /\ ScoredSoon(r, d)' /\ PendingOnce(r, d)'
  BY DEF ScoreOK
<1>1. CASE ver[d] = <<>>
  BY <1>1 DEF Numbered, ScoredSoon, PendingOnce
<1>2. CASE ver[d] # <<>>
  <2>1. /\ doc[d] # None /\ doc'[d].text = doc[d].text /\ doc'[d].current = doc[d].current
        /\ doc'[d].status = "pending" => doc[d].status = "pending" \/ ~NeverReturned(d)
    BY <1>2
  <2>2. Numbered(h, d) /\ ScoredSoon(h, d) /\ PendingOnce(h, d)
    BY <2>1 DEF ScoreOK
  <2>3. ~Writes(h, d) /\ ~SavesVersion(h, d) /\ ~KicksOff(h, d) /\ ~Scores(h, d, Len(ver[d])) /\ ~Writes(r, d)
    BY DEF About, Scores
  <2>4. ver'[d] = ver[d] /\ scored'[d] = scored[d] /\ (NeverReturned(d)' => NeverReturned(d))
    OBVIOUS
  <2>5. jobs' = jobs \/ \E w \in Works : jobs' = Append(jobs, w) /\ (Processes(w, d) => w.v = Len(ver[d]))
    BY DEF Processes
  <2>6. ScoredSoon(r, d)'
    BY <2>1, <2>2, <2>3, <2>4, <2>5, StillSoon
  <2>7. Numbered(r, d)'
    BY <2>1, <2>2, <2>3, <2>4 DEF Numbered
  <2>8. PendingOnce(r, d)'
    BY <2>1, <2>2, <2>3, <2>4 DEF PendingOnce
  <2> QED
    BY <2>6, <2>7, <2>8
<1> QED
  BY <1>1, <1>2

(* The handler works on one document.                                      *)
LEMMA OneDocumentStep ==
  ASSUME DocInv, NEW h, NEW r, ScoreOK(h), NEW d \in Docs,
         \A e \in Docs : About(h, e) \/ About(r, e) => e = d,
         rev' = rev,
         \A e \in Docs : e # d => doc'[e] = doc[e] /\ ver'[e] = ver[e] /\ scored'[e] = scored[e],
         jobs' = jobs \/ \E w \in Works : w.d = d /\ jobs' = Append(jobs, w),
         used' = used, recovering' = recovering, InHand(r)',
         Numbered(r, d)' /\ ScoredSoon(r, d)' /\ PendingOnce(r, d)'
  PROVE  ScoreOK(r)'
<1> SUFFICES ASSUME NEW e \in Docs, doc'[e] # None
             PROVE  Numbered(r, e)' /\ ScoredSoon(r, e)' /\ PendingOnce(r, e)'
  BY DEF ScoreOK
<1>1. CASE e = d
  BY <1>1
<1>2. CASE e # d
  <2>1. doc'[e] = doc[e] /\ ver'[e] = ver[e] /\ scored'[e] = scored[e] /\ doc[e] # None
    BY <1>2
  <2>2. Numbered(h, e) /\ ScoredSoon(h, e) /\ PendingOnce(h, e)
    BY <2>1 DEF ScoreOK
  <2>3. ~Writes(h, e) /\ ~SavesVersion(h, e) /\ ~KicksOff(h, e) /\ ~Scores(h, e, Len(ver[e])) /\ ~Writes(r, e)
    BY <1>2 DEF About, Scores
  <2>4. NeverReturned(e)' => NeverReturned(e)
    BY DEF NeverReturned
  <2>5. jobs' = jobs \/ \E w \in Works : jobs' = Append(jobs, w) /\ (Processes(w, e) => w.v = Len(ver[e]))
    BY <1>2 DEF Processes
  <2>6. ScoredSoon(r, e)'
    BY <2>1, <2>2, <2>3, <2>4, <2>5, StillSoon
  <2>7. Numbered(r, e)'
    BY <2>1, <2>2, <2>3 DEF Numbered
  <2>8. PendingOnce(r, e)'
    BY <2>1, <2>2, <2>3, <2>4 DEF PendingOnce
  <2> QED
    BY <2>6, <2>7, <2>8
<1> QED
  BY <1>1, <1>2

LEMMA HandsOver ==
  ASSUME DocInv, NEW p \in Procs, NEW r, proc' = [proc EXCEPT ![p] = r], ScoreOK(r)'
  PROVE  ScoreOK(proc[p])'
<1>1. proc'[p] = r
  BY DEF DocInv, HandlersOK
<1> QED
  BY <1>1

LEMMA IdleAside ==
  /\ \A d : ~About(Idle, d) /\ ~Writes(Idle, d)
  /\ InHand(Idle) /\ InHand(Idle)'
BY DEF Idle, About, Writes, SavesVersion, KicksOff, InHand, At

(* A handler that only reads.                                              *)
LEMMA ReadsOnly ==
  ASSUME DocInv, NEW p \in Procs, ScoreOK(proc[p]), \A d \in Docs : ~About(proc[p], d),
         NEW r, \A d \in Docs : ~Writes(r, d), proc' = [proc EXCEPT ![p] = r], InHand(r)',
         doc' = doc, ver' = ver, rev' = rev, scored' = scored, jobs' = jobs, recovering' = recovering,
         used' = used \/ Free(p)
  PROVE  ScoreOK(proc[p])'
<1>1. PICK h : h = proc[p]
  OBVIOUS
<1>2. ScoreOK(h) /\ \A d \in Docs : ~About(h, d) /\ ~Writes(r, d)
  BY <1>1
<1>3. used'.faults = {}
  BY <1>2, FaultsKept DEF ScoreOK, DocInv
<1>4. \A d \in Docs : NeverReturned(d)' => NeverReturned(d)
  BY DEF NeverReturned
<1>5. \A d \in Docs : doc'[d] # None /\ ver[d] # <<>> =>
            /\ doc[d] # None /\ doc'[d].text = doc[d].text /\ doc'[d].current = doc[d].current
            /\ doc'[d].status = "pending" => doc[d].status = "pending" \/ ~NeverReturned(d)
  OBVIOUS
<1>6. jobs' = jobs /\ recovering' \subseteq recovering
  OBVIOUS
<1>7. ScoreOK(r)'
  BY <1>2, <1>3, <1>4, <1>5, <1>6, AsideStep
<1> QED
  BY <1>7, HandsOver

LEMMA UploadCheckScores ==
  ASSUME DocInv, NEW p \in Procs, ScoreOK(proc[p]), NEW c \in Contents, UploadCheck(p, c)
  PROVE  ScoreOK(proc[p])'
<1>1. PICK r : proc' = [proc EXCEPT ![p] = r] /\ r.op = "upload" /\ r.pc \in {"insert", "supersede"}
  <2>1. CASE Continue(p, [op |-> "upload", pc |-> "insert", c |-> c])
    <3>1. PICK r : r = [op |-> "upload", pc |-> "insert", c |-> c]
      OBVIOUS
    <3>2. r.op = "upload" /\ r.pc = "insert"
      BY <3>1
    <3>3. proc' = [proc EXCEPT ![p] = r]
      BY <2>1, <3>1 DEF Continue
    <3> QED
      BY <3>2, <3>3
  <2>2. CASE \E e \in Active : Continue(p, [op |-> "upload", pc |-> "supersede", c |-> c, e |-> e])
    <3>0. PICK e \in Active : Continue(p, [op |-> "upload", pc |-> "supersede", c |-> c, e |-> e])
      BY <2>2
    <3>1. PICK r : r = [op |-> "upload", pc |-> "supersede", c |-> c, e |-> e]
      OBVIOUS
    <3>2. r.op = "upload" /\ r.pc = "supersede"
      BY <3>1
    <3>3. proc' = [proc EXCEPT ![p] = r]
      BY <3>0, <3>1 DEF Continue
    <3> QED
      BY <3>2, <3>3
  <2> QED
    BY <2>1, <2>2 DEF UploadCheck
<1>2. \A d \in Docs : ~Writes(r, d)
  BY <1>1 DEF Writes
<1>3. InHand(r)'
  BY <1>1 DEF InHand, At
<1>4. \A d \in Docs : ~About(proc[p], d)
  BY IdleAside DEF UploadCheck, Free
<1> QED
  BY <1>1, <1>2, <1>3, <1>4, ReadsOnly DEF UploadCheck

(* Without races the latest number is the number of rows.                  *)
LEMMA LatestIsLast ==
  ASSUME DocInv, NEW r, ScoreOK(r), NEW d \in Docs, doc[d] # None, ver[d] # <<>>
  PROVE  LatestNumber(d) = Len(ver[d])
<1>1. /\ Len(ver[d]) \in Nat /\ DOMAIN ver[d] = 1..Len(ver[d]) /\ ver[d] \in Seq(Rows)
      /\ \A v \in DOMAIN ver[d] : Number(d, v) = v
  BY RowsTyped DEF ScoreOK, Numbered, Number
<1>2. PICK n \in Nat : n = Len(ver[d])
  BY <1>1
<1>3. {Number(d, v) : v \in DOMAIN ver[d]} = 1..n /\ n >= 1
  BY <1>1, <1>2
<1>4. PICK m : m = LatestNumber(d)
  OBVIOUS
<1>5. {Number(d, v) : v \in DOMAIN ver[d]} = 1..m
  BY <1>4, HistoryHolds DEF VersionHistory, Existing
<1>6. m \in 0..n /\ m \in Nat
  <2>1. (1..n) \cup {0} \in SUBSET (0..n) /\ (1..n) \cup {0} # {}
    BY <1>3
  <2>2. m = Max((1..n) \cup {0})
    BY <1>3, <1>4 DEF LatestNumber
  <2>3. m \in (1..n) \cup {0}
    BY <2>1, <2>2, LargestOf
  <2> QED
    BY <2>3
<1>7. 1..n = 1..m
  BY <1>3, <1>5
<1>8. n \in 1..m
  <2>1. n \in 1..n
    BY <1>2, <1>3
  <2> QED
    BY <1>7, <2>1
<1>9. m = n
  BY <1>6, <1>8
<1> QED
  BY <1>2, <1>4, <1>9

LEMMA CreateVersionReadScores ==
  ASSUME DocInv, NEW p \in Procs, ScoreOK(proc[p]), NEW d \in Docs, NEW c \in Contents, CreateVersionRead(p, d, c)
  PROVE  ScoreOK(proc[p])'
<1>1. PICK v \in DOMAIN ver[d] : ver[d][v].number = LatestNumber(d)
  BY DEF CreateVersionRead, Number
<1>2. doc[d] # None /\ ver[d] # <<>>
  BY <1>1, RowsTyped DEF CreateVersionRead, Active
<1>3. LatestNumber(d) = Len(ver[d])
  BY <1>2, LatestIsLast
<1>4. PICK r : r = [op |-> "newVersion", pc |-> "version", d |-> d, c |-> c,
                    n |-> LatestNumber(d) + 1, read |-> doc[d]]
  OBVIOUS
<1>5. proc' = [proc EXCEPT ![p] = r] /\ r.op = "newVersion" /\ r.pc = "version" /\ r.d = d /\ r.n = LatestNumber(d) + 1
  BY <1>4 DEF CreateVersionRead, Continue
<1>6. \A e \in Docs : ~Writes(r, e)
  BY <1>5 DEF Writes
<1>7. ver' = ver
  BY DEF CreateVersionRead
<1>8. InHand(r)'
  BY <1>3, <1>5, <1>7 DEF InHand, At
<1>9. \A e \in Docs : ~About(proc[p], e)
  BY IdleAside DEF CreateVersionRead, Free
<1>10. /\ doc' = doc /\ rev' = rev /\ scored' = scored /\ jobs' = jobs /\ recovering' = recovering /\ Free(p)
  BY DEF CreateVersionRead
<1> HIDE <1>4
<1> QED
  BY <1>5, <1>6, <1>7, <1>8, <1>9, <1>10, ReadsOnly

LEMMA ReviewReadScores ==
  ASSUME DocInv, NEW p \in Procs, ScoreOK(proc[p]), NEW d \in Docs, NEW decision \in Decisions,
         ReviewRead(p, d, decision)
  PROVE  ScoreOK(proc[p])'
<1>1. PICK r : proc' = [proc EXCEPT ![p] = r] /\ r.op = "review" /\ r.pc = "save"
  <2>1. PICK v : Continue(p, [op |-> "review", pc |-> "save", d |-> d, v |-> v, decision |-> decision])
    BY DEF ReviewRead
  <2>2. PICK r : r = [op |-> "review", pc |-> "save", d |-> d, v |-> v, decision |-> decision]
    OBVIOUS
  <2>3. r.op = "review" /\ r.pc = "save"
    BY <2>2
  <2>4. proc' = [proc EXCEPT ![p] = r]
    BY <2>1, <2>2 DEF Continue
  <2> QED
    BY <2>3, <2>4
<1>2. (\A e \in Docs : ~Writes(r, e)) /\ InHand(r)'
  BY <1>1 DEF Writes, InHand, At
<1>3. \A e \in Docs : ~About(proc[p], e)
  BY IdleAside DEF ReviewRead, Free
<1>4. /\ doc' = doc /\ ver' = ver /\ rev' = rev /\ scored' = scored /\ jobs' = jobs /\ recovering' = recovering /\ Free(p)
  BY DEF ReviewRead
<1> QED
  BY <1>1, <1>2, <1>3, <1>4, ReadsOnly

LEMMA ArchiveReadScores ==
  ASSUME DocInv, NEW p \in Procs, ScoreOK(proc[p]), NEW d \in Docs, archiveDocument(p, d)
  PROVE  ScoreOK(proc[p])'
<1>1. PICK r : proc' = [proc EXCEPT ![p] = r] /\ r.op = "archive"
  <2>1. PICK r : r = [op |-> "archive", d |-> d]
    OBVIOUS
  <2>2. r.op = "archive"
    BY <2>1
  <2>3. proc' = [proc EXCEPT ![p] = r]
    BY <2>1 DEF archiveDocument, Continue
  <2> QED
    BY <2>2, <2>3
<1>2. (\A e \in Docs : ~Writes(r, e)) /\ InHand(r)'
  BY <1>1 DEF Writes, InHand, At
<1>3. \A e \in Docs : ~About(proc[p], e)
  BY IdleAside DEF archiveDocument, Free
<1>4. /\ doc' = doc /\ ver' = ver /\ rev' = rev /\ scored' = scored /\ jobs' = jobs /\ recovering' = recovering /\ Free(p)
  BY DEF archiveDocument
<1> QED
  BY <1>1, <1>2, <1>3, <1>4, ReadsOnly

LEMMA DeleteReadScores ==
  ASSUME DocInv, NEW p \in Procs, ScoreOK(proc[p]), NEW d \in Docs, deleteDocument(p, d)
  PROVE  ScoreOK(proc[p])'
<1>1. PICK r : proc' = [proc EXCEPT ![p] = r] /\ r.op = "delete" /\ r.d = d /\ r.read = doc[d]
  <2>1. PICK r : r = [op |-> "delete", d |-> d, read |-> doc[d]]
    OBVIOUS
  <2>2. r.op = "delete" /\ r.d = d /\ r.read = doc[d]
    BY <2>1
  <2>3. proc' = [proc EXCEPT ![p] = r]
    BY <2>1 DEF deleteDocument, Continue
  <2> QED
    BY <2>2, <2>3
<1>2. (\A e \in Docs : ~Writes(r, e)) /\ doc' = doc
  BY <1>1 DEF Writes, deleteDocument
<1>3. InHand(r)'
  BY <1>1, <1>2 DEF InHand, At
<1>4. \A e \in Docs : ~About(proc[p], e)
  BY IdleAside DEF deleteDocument, Free
<1>5. /\ ver' = ver /\ rev' = rev /\ scored' = scored /\ jobs' = jobs /\ recovering' = recovering /\ Free(p)
  BY DEF deleteDocument
<1> QED
  BY <1>1, <1>2, <1>3, <1>4, <1>5, ReadsOnly

LEMMA FindReviewScores ==
  ASSUME DocInv, NEW p \in Procs, ScoreOK(proc[p]), MetricsFindReview(p)
  PROVE  ScoreOK(proc[p])'
<1>1. proc[p].op = "findReview"
  BY DEF MetricsFindReview
<1>2. PICK r : proc' = [proc EXCEPT ![p] = r] /\ r.op \in {"idle", "saveReview"}
  <2>1. PICK h \in Tasks : h = proc[p]
    BY <1>1, TaskHeld
  <2>2. CASE Finish(p)
    BY <2>2, IdleHandler DEF Finish
  <2>3. CASE Continue(p, [proc[p] EXCEPT !.op = "saveReview"])
    <3>1. PICK r : r = [h EXCEPT !.op = "saveReview"]
      OBVIOUS
    <3>2. r.op = "saveReview"
      BY <3>1, NextOfTask
    <3>3. proc' = [proc EXCEPT ![p] = r]
      BY <2>1, <2>3, <3>1 DEF Continue
    <3> QED
      BY <3>2, <3>3
  <2> QED
    BY <2>2, <2>3 DEF MetricsFindReview
<1>3. (\A d \in Docs : ~Writes(r, d)) /\ InHand(r)'
  BY <1>2 DEF Writes, InHand, At
<1>4. \A d \in Docs : ~About(proc[p], d)
  BY <1>1 DEF About, Writes, SavesVersion, KicksOff, At
<1>5. /\ doc' = doc /\ ver' = ver /\ rev' = rev /\ scored' = scored /\ jobs' = jobs
      /\ recovering' = recovering /\ used' = used
  BY DEF MetricsFindReview
<1> QED
  BY <1>2, <1>3, <1>4, <1>5, ReadsOnly

(* A document is stored with its text, and not back among the pending.     *)
LEMMA DocumentAside ==
  ASSUME DocInv, NEW p \in Procs, ScoreOK(proc[p]), \A e \in Docs : ~About(proc[p], e),
         NEW r, \A e \in Docs : ~Writes(r, e), proc' = [proc EXCEPT ![p] = r], InHand(r)',
         NEW d \in Docs, NEW x, doc' = [doc EXCEPT ![d] = x],
         ver[d] # <<>> => /\ x.text = doc[d].text /\ x.current = doc[d].current
                          /\ x.status = "pending" => doc[d].status = "pending" \/ ~NeverReturned(d),
         ver' = ver, rev' = rev, scored' = scored, recovering' = recovering,
         jobs' = jobs \/ \E w \in Works : w.op = "metrics" /\ jobs' = Append(jobs, w),
         used' = used \/ Free(p)
  PROVE  ScoreOK(proc[p])'
<1>1. PICK h : h = proc[p]
  OBVIOUS
<1>2. ScoreOK(h) /\ \A e \in Docs : ~About(h, e) /\ ~Writes(r, e)
  BY <1>1
<1>3. used'.faults = {}
  BY <1>2, FaultsKept DEF ScoreOK, DocInv
<1>4. \A e \in Docs : NeverReturned(e)' => NeverReturned(e)
  BY DEF NeverReturned
<1>5. doc'[d] = x /\ \A e \in Docs : e # d => doc'[e] = doc[e]
  BY DEF DocInv, RowsOK
<1>6. \A e \in Docs : doc'[e] # None /\ ver[e] # <<>> =>
            /\ doc[e] # None /\ doc'[e].text = doc[e].text /\ doc'[e].current = doc[e].current
            /\ doc'[e].status = "pending" => doc[e].status = "pending" \/ ~NeverReturned(e)
  BY <1>5 DEF DocInv, HistoryOK
<1>7. recovering' \subseteq recovering
  OBVIOUS
<1>8. ScoreOK(r)'
  BY <1>2, <1>3, <1>4, <1>6, <1>7, AsideStep
<1> QED
  BY <1>8, HandsOver

LEMMA SameText ==
  ASSUME NEW x \in Document
  PROVE  /\ \A s \in Statuses : /\ [x EXCEPT !.status = s].text = x.text /\ [x EXCEPT !.status = s].status = s
                                /\ [x EXCEPT !.status = s].current = x.current
         /\ /\ [x EXCEPT !.deleted = TRUE].text = x.text /\ [x EXCEPT !.deleted = TRUE].status = x.status
            /\ [x EXCEPT !.deleted = TRUE].current = x.current
<1>1. ASSUME NEW s \in Statuses
      PROVE  /\ [x EXCEPT !.status = s].text = x.text /\ [x EXCEPT !.status = s].status = s
             /\ [x EXCEPT !.status = s].current = x.current
  BY DEF Document
<1>2. /\ [x EXCEPT !.deleted = TRUE].text = x.text /\ [x EXCEPT !.deleted = TRUE].status = x.status
      /\ [x EXCEPT !.deleted = TRUE].current = x.current
  BY DEF Document
<1> QED
  BY <1>1, <1>2

LEMMA SupersedeScores ==
  ASSUME DocInv, NEW p \in Procs, ScoreOK(proc[p]), UploadSupersede(p)
  PROVE  ScoreOK(proc[p])'
<1>1. PICK h \in Handlers : h = proc[p] /\ Relies(h)
  BY Held
<1>2. h \in Superseding /\ At(h, "upload", "supersede")
  BY <1>1, KindOf DEF UploadSupersede, At
<1>3. PICK e \in Docs, c \in Contents : e = h.e /\ c = h.c
  BY <1>2 DEF Superseding
<1>4. doc[e] \in Document
  BY <1>1, <1>2, <1>3, RowsTyped DEF Relies
<1>5. PICK x : x = [doc[e] EXCEPT !.deleted = TRUE]
  OBVIOUS
<1>6. x.text = doc[e].text /\ x.current = doc[e].current /\ x.status = doc[e].status
  BY <1>4, <1>5, SameText
<1>7. doc' = [doc EXCEPT ![e] = x]
  BY <1>1, <1>3, <1>5 DEF UploadSupersede
<1>8. \A d \in Docs : ~About(proc[p], d)
  BY <1>1, <1>2 DEF About, Writes, SavesVersion, KicksOff, At
<1>9. PICK r : proc' = [proc EXCEPT ![p] = r] /\ (r.op = "idle" \/ At(r, "upload", "insert"))
  <2>1. CASE Continue(p, [op |-> "upload", pc |-> "insert", c |-> c])
    <3>1. PICK r : r = [op |-> "upload", pc |-> "insert", c |-> c]
      OBVIOUS
    <3>2. At(r, "upload", "insert")
      BY <3>1 DEF At
    <3>3. proc' = [proc EXCEPT ![p] = r]
      BY <2>1, <3>1 DEF Continue
    <3> QED
      BY <3>2, <3>3
  <2>2. CASE Finish(p)
    BY <2>2, IdleHandler DEF Finish
  <2> QED
    BY <1>1, <1>3, <2>1, <2>2 DEF UploadSupersede
<1>10. (\A d \in Docs : ~Writes(r, d)) /\ InHand(r)'
  BY <1>9 DEF Writes, InHand, At
<1>11. /\ ver' = ver /\ rev' = rev /\ scored' = scored /\ jobs' = jobs /\ recovering' = recovering /\ used' = used
  BY DEF UploadSupersede
<1> QED
  BY <1>6, <1>7, <1>8, <1>9, <1>10, <1>11, DocumentAside

LEMMA InsertScores ==
  ASSUME DocInv, NEW p \in Procs, ScoreOK(proc[p]), UploadInsert(p)
  PROVE  ScoreOK(proc[p])'
<1>1. PICK h \in Handlers : h = proc[p]
  BY Held
<1>2. h \in Inserting /\ At(h, "upload", "insert")
  BY <1>1, KindOf DEF UploadInsert, At
<1>3. PICK c, text : c = h.c /\ text = extractInitialText(c)
  OBVIOUS
<1>4. PICK d : d = CHOOSE x \in Docs \ Existing : TRUE
  OBVIOUS
<1>5. d \in Docs /\ ver[d] = <<>>
  <2>1. \E x \in Docs \ Existing : TRUE
    BY DEF UploadInsert, Existing
  <2>2. d \in Docs \ Existing
    BY <1>4, <2>1
  <2> QED
    BY <2>2 DEF Existing, DocInv, HistoryOK
<1>6. PICK x : x = [status |-> "pending", current |-> 1, text |-> text, deleted |-> FALSE]
  OBVIOUS
<1>7. x.text = text
  BY <1>6
<1>8. doc' = [doc EXCEPT ![d] = x]
  BY <1>1, <1>3, <1>4, <1>6, Zenon DEF UploadInsert
<1>9. PICK r : r = [op |-> "upload", pc |-> "version", c |-> c, d |-> d]
  OBVIOUS
<1>10. r.op = "upload" /\ r.pc = "version" /\ r.c = c /\ r.d = d
  BY <1>9
<1>11. proc' = [proc EXCEPT ![p] = r]
  BY <1>1, <1>3, <1>4, <1>9, Zenon DEF UploadInsert, Continue
<1>12. doc'[d].text = extractInitialText(r.c)
  BY <1>3, <1>5, <1>7, <1>8, <1>10 DEF DocInv, RowsOK
<1>13. (\A e \in Docs : ~Writes(r, e)) /\ InHand(r)'
  BY <1>10, <1>12 DEF Writes, InHand, At
<1>14. \A e \in Docs : ~About(proc[p], e)
  BY <1>1, <1>2 DEF About, Writes, SavesVersion, KicksOff, At
<1>15. /\ ver' = ver /\ rev' = rev /\ scored' = scored /\ jobs' = jobs /\ recovering' = recovering /\ used' = used
  BY DEF UploadInsert
<1> HIDE <1>6, <1>9
<1> QED
  BY <1>5, <1>8, <1>11, <1>13, <1>14, <1>15, DocumentAside

(* Where nothing fails, work is queued and never taken up here.            *)
LEMMA OnlyQueued ==
  ASSUME NEW p \in Procs, ScoreOK(proc[p]), NEW op \in {"process", "metrics"}, NEW d \in Docs, NEW v \in 1..MaxVersions,
         NEW from \in {"request", "recovery"}, enqueueOrFallback(op, p, d, v, from)
  PROVE  \E w \in Works : /\ w.op = op /\ w.d = d /\ w.v = v
                          /\ jobs' = Append(jobs, w) /\ proc' = [proc EXCEPT ![p] = Idle]
<1>1. PICK w : w = Job(op, d, v)
  OBVIOUS
<1>2. w \in Works /\ w.op = op /\ w.d = d /\ w.v = v
  BY <1>1 DEF Job, Works
<1>3. jobs' = Append(jobs, w) /\ proc' = [proc EXCEPT ![p] = Idle]
  BY <1>1 DEF enqueueOrFallback, ScoreOK, Finish
<1> QED
  BY <1>2, <1>3

LEMMA ReviewStatusScores ==
  ASSUME DocInv, NEW p \in Procs, ScoreOK(proc[p]), ReviewStatus(p)
  PROVE  ScoreOK(proc[p])'
<1>1. PICK h \in Handlers : h = proc[p] /\ Relies(h) /\ InHand(h)
  BY Held DEF ScoreOK
<1>2. h \in Reviewing /\ At(h, "review", "status")
  BY <1>1, KindOf DEF ReviewStatus, At
<1>3. PICK d \in Docs : d = h.d /\ doc[d] # None
  BY <1>1, <1>2 DEF Relies, Reviewing, At
<1>4. doc[d] \in Document
  BY <1>3, RowsTyped
<1>5. PICK s \in Statuses : s = IF h.decision = "compliant" THEN "ready" ELSE "pending"
  BY DEF Statuses
<1>6. PICK x : x = [doc[d] EXCEPT !.status = s]
  OBVIOUS
<1>7. x.text = doc[d].text /\ x.current = doc[d].current /\ x.status = s
  BY <1>4, <1>6, SameText
<1>8. doc' = [doc EXCEPT ![d] = x]
  BY <1>1, <1>3, <1>5, <1>6 DEF ReviewStatus
<1>9. x.status = "pending" => ~NeverReturned(d)
  BY <1>1, <1>2, <1>3, <1>5, <1>7 DEF InHand
<1>10. \A e \in Docs : ~About(proc[p], e)
  BY <1>1, <1>2 DEF About, Writes, SavesVersion, KicksOff, At
<1>11. proc' = [proc EXCEPT ![p] = Idle] /\ (\A e \in Docs : ~Writes(Idle, e)) /\ InHand(Idle)'
  BY IdleAside DEF ReviewStatus, Finish
<1>12. /\ ver' = ver /\ rev' = rev /\ scored' = scored /\ jobs' = jobs /\ recovering' = recovering /\ used' = used
  BY DEF ReviewStatus
<1> QED
  BY <1>7, <1>8, <1>9, <1>10, <1>11, <1>12, DocumentAside

LEMMA ArchiveUpdateScores ==
  ASSUME DocInv, NEW p \in Procs, ScoreOK(proc[p]), ArchiveUpdate(p)
  PROVE  ScoreOK(proc[p])'
<1>1. PICK h \in Handlers : h = proc[p] /\ Relies(h)
  BY Held
<1>2. h \in Archiving
  BY <1>1, KindOf DEF ArchiveUpdate
<1>3. PICK d \in Docs : d = h.d /\ doc[d] # None
  BY <1>1, <1>2 DEF Relies, Archiving
<1>4. doc[d] \in Document
  BY <1>3, RowsTyped
<1>5. PICK x : x = [doc[d] EXCEPT !.deleted = TRUE]
  OBVIOUS
<1>6. x.text = doc[d].text /\ x.current = doc[d].current /\ x.status = doc[d].status
  BY <1>4, <1>5, SameText
<1>7. doc' = [doc EXCEPT ![d] = x]
  BY <1>1, <1>3, <1>5 DEF ArchiveUpdate
<1>8. \A e \in Docs : ~About(proc[p], e)
  BY DEF ArchiveUpdate, About, Writes, SavesVersion, KicksOff, At
<1>9. proc' = [proc EXCEPT ![p] = Idle] /\ (\A e \in Docs : ~Writes(Idle, e)) /\ InHand(Idle)'
  BY IdleAside DEF ArchiveUpdate, Finish
<1>10. /\ ver' = ver /\ rev' = rev /\ scored' = scored /\ jobs' = jobs /\ recovering' = recovering /\ used' = used
  BY DEF ArchiveUpdate
<1> QED
  BY <1>6, <1>7, <1>8, <1>9, <1>10, DocumentAside

LEMMA DeleteSaveScores ==
  ASSUME DocInv, NEW p \in Procs, ScoreOK(proc[p]), DeleteSave(p)
  PROVE  ScoreOK(proc[p])'
<1>1. PICK h \in Handlers : h = proc[p] /\ Relies(h) /\ InHand(h)
  BY Held DEF ScoreOK
<1>2. h \in Deleting /\ h.op = "delete"
  BY <1>1, KindOf DEF DeleteSave
<1>3. PICK d \in Docs : d = h.d /\ doc[d] # None /\ h.read = doc[d]
  BY <1>1, <1>2 DEF Relies, Deleting, InHand
<1>4. doc[d] \in Document
  BY <1>3, RowsTyped
<1>5. PICK x : x = [doc[d] EXCEPT !.deleted = TRUE]
  OBVIOUS
<1>6. x.text = doc[d].text /\ x.current = doc[d].current /\ x.status = doc[d].status
  BY <1>4, <1>5, SameText
<1>7. doc' = [doc EXCEPT ![d] = x]
  BY <1>1, <1>3, <1>5 DEF DeleteSave
<1>8. \A e \in Docs : ~About(proc[p], e)
  BY DEF DeleteSave, About, Writes, SavesVersion, KicksOff, At
<1>9. proc' = [proc EXCEPT ![p] = Idle] /\ (\A e \in Docs : ~Writes(Idle, e)) /\ InHand(Idle)'
  BY IdleAside DEF DeleteSave, Finish
<1>10. /\ ver' = ver /\ rev' = rev /\ scored' = scored /\ jobs' = jobs /\ recovering' = recovering /\ used' = used
  BY DEF DeleteSave
<1> QED
  BY <1>6, <1>7, <1>8, <1>9, <1>10, DocumentAside

LEMMA ReprocessScores ==
  ASSUME DocInv, NEW p \in Procs, ScoreOK(proc[p]), NEW d \in Docs, reprocessDocument(p, d)
  PROVE  ScoreOK(proc[p])'
<1>1. PICK v \in CurrentVersions(d) : enqueueOrFallback("metrics", p, d, v, "request")
  BY DEF reprocessDocument, enqueueMetricsOrFallback
<1>2. doc[d] \in Document /\ v \in 1..MaxVersions
  BY RowsTyped DEF reprocessDocument, CurrentVersions
<1>3. PICK w \in Works : /\ w.op = "metrics" /\ jobs' = Append(jobs, w) /\ proc' = [proc EXCEPT ![p] = Idle]
  BY <1>1, <1>2, OnlyQueued
<1>4. PICK x : x = [doc[d] EXCEPT !.status = "ready"]
  OBVIOUS
<1>5. x.text = doc[d].text /\ x.current = doc[d].current /\ x.status = "ready"
  BY <1>2, <1>4, SameText DEF Statuses
<1>6. doc' = [doc EXCEPT ![d] = x]
  BY <1>4 DEF reprocessDocument
<1>7. \A e \in Docs : ~About(proc[p], e)
  BY IdleAside DEF reprocessDocument, Free
<1>8. (\A e \in Docs : ~Writes(Idle, e)) /\ InHand(Idle)'
  BY IdleAside
<1>9. /\ ver' = ver /\ rev' = rev /\ scored' = scored /\ recovering' = recovering /\ Free(p)
  BY DEF reprocessDocument
<1> QED
  BY <1>3, <1>5, <1>6, <1>7, <1>8, <1>9, DocumentAside

(* A review is added: what was returned stays returned.                    *)
LEMMA ReviewAside ==
  ASSUME DocInv, NEW p \in Procs, ScoreOK(proc[p]), \A e \in Docs : ~About(proc[p], e),
         NEW r, \A e \in Docs : ~Writes(r, e), proc' = [proc EXCEPT ![p] = r],
         NEW d \in Docs, NEW x \in Reviews, rev' = [rev EXCEPT ![d] = Append(@, x)],
         ~NeverReturned(d)' \/ x.auto \/ x.decision = "compliant" => InHand(r)',
         doc' = doc, ver' = ver, scored' = scored, jobs' = jobs, recovering' = recovering, used' = used
  PROVE  ScoreOK(proc[p])'
<1>1. PICK h : h = proc[p]
  OBVIOUS
<1>2. ScoreOK(h) /\ \A e \in Docs : ~About(h, e) /\ ~Writes(r, e)
  BY <1>1
<1>3. used'.faults = {}
  BY <1>2 DEF ScoreOK
<1>4. rev[d] \in Seq(Reviews) /\ rev'[d] = Append(rev[d], x) /\ \A e \in Docs : e # d => rev'[e] = rev[e]
  BY DEF DocInv, RowsOK
<1>5. PICK m : m = Len(rev[d]) + 1
  OBVIOUS
<1>6. /\ m \in DOMAIN rev'[d] /\ rev'[d][m] = x
      /\ \A i \in DOMAIN rev[d] : i \in DOMAIN rev'[d] /\ rev'[d][i] = rev[d][i]
  BY <1>4, <1>5
<1>7. \A e \in Docs : NeverReturned(e)' => NeverReturned(e)
  BY <1>4, <1>6 DEF NeverReturned
<1>8. InHand(r)'
  BY <1>6 DEF NeverReturned
<1>9. \A e \in Docs : doc'[e] # None /\ ver[e] # <<>> =>
            /\ doc[e] # None /\ doc'[e].text = doc[e].text /\ doc'[e].current = doc[e].current
            /\ doc'[e].status = "pending" => doc[e].status = "pending" \/ ~NeverReturned(e)
  OBVIOUS
<1>10. recovering' \subseteq recovering
  OBVIOUS
<1>11. ScoreOK(r)'
  BY <1>2, <1>3, <1>7, <1>8, <1>9, <1>10, AsideStep
<1> QED
  BY <1>11, HandsOver

LEMMA ReviewSaveScores ==
  ASSUME DocInv, NEW p \in Procs, ScoreOK(proc[p]), ReviewSave(p)
  PROVE  ScoreOK(proc[p])'
<1>1. PICK h \in Handlers : h = proc[p]
  BY Held
<1>2. h \in Reviewing
  BY <1>1, KindOf DEF ReviewSave
<1>3. PICK d \in Docs, v \in 1..MaxVersions, decision \in Decisions : d = h.d /\ v = h.v /\ decision = h.decision
  BY <1>2 DEF Reviewing
<1>4. PICK x : x = [v |-> v, decision |-> decision, auto |-> FALSE]
  OBVIOUS
<1>5. x \in Reviews /\ x.decision = decision /\ ~x.auto
  BY <1>4 DEF Reviews
<1>6. rev' = [rev EXCEPT ![d] = Append(@, x)]
  BY <1>1, <1>3, <1>4 DEF ReviewSave
<1>7. PICK r : r = [h EXCEPT !.pc = "status"]
  OBVIOUS
<1>8. r.op = "review" /\ r.pc = "status" /\ r.d = d /\ r.decision = decision
  BY <1>2, <1>3, <1>7 DEF Reviewing
<1>9. proc' = [proc EXCEPT ![p] = r]
  BY <1>1, <1>7 DEF ReviewSave, Continue
<1>10. ~NeverReturned(d)' \/ x.auto \/ x.decision = "compliant" => InHand(r)'
  BY <1>5, <1>8 DEF InHand, At
<1>11. \A e \in Docs : ~About(proc[p], e) /\ ~Writes(r, e)
  BY <1>1, <1>2, <1>8 DEF About, Writes, SavesVersion, KicksOff, At, Reviewing
<1>12. /\ doc' = doc /\ ver' = ver /\ scored' = scored /\ jobs' = jobs /\ recovering' = recovering /\ used' = used
  BY DEF ReviewSave
<1> QED
  BY <1>5, <1>6, <1>9, <1>10, <1>11, <1>12, ReviewAside

LEMMA SaveReviewScores ==
  ASSUME DocInv, NEW p \in Procs, ScoreOK(proc[p]), MetricsSaveReview(p)
  PROVE  ScoreOK(proc[p])'
<1>1. PICK h \in Tasks : h = proc[p] /\ h.op = "saveReview"
  BY TaskHeld DEF MetricsSaveReview
<1>2. PICK d \in Docs, v \in 1..MaxVersions : d = h.d /\ v = h.v
  BY <1>1 DEF Tasks
<1>3. PICK x : x = [v |-> v, decision |-> "needs_revision", auto |-> TRUE]
  OBVIOUS
<1>4. x \in Reviews /\ x.auto
  BY <1>3 DEF Reviews, Decisions
<1>5. rev' = [rev EXCEPT ![d] = Append(@, x)]
  BY <1>1, <1>2, <1>3 DEF MetricsSaveReview
<1>6. proc' = [proc EXCEPT ![p] = Idle] /\ InHand(Idle)' /\ \A e \in Docs : ~Writes(Idle, e)
  BY IdleAside DEF MetricsSaveReview, Finish
<1>7. \A e \in Docs : ~About(proc[p], e)
  BY <1>1 DEF About, Writes, SavesVersion, KicksOff, At
<1>8. /\ doc' = doc /\ ver' = ver /\ scored' = scored /\ jobs' = jobs /\ recovering' = recovering /\ used' = used
  BY DEF MetricsSaveReview
<1> QED
  BY <1>4, <1>5, <1>6, <1>7, <1>8, ReviewAside

(* Nothing fails and nothing is recovered.                                 *)
LEMMA NoFailure ==
  ASSUME NEW p \in Procs, ScoreOK(proc[p])
  PROVE  ~ProcessFail(p) /\ \A d : ~RecoverDocument(p, d)
BY DEF ScoreOK, ProcessFail, RecoverDocument

-----------------------------------------------------------------------------
(* Handlers that store something of their document                         *)

LEMMA OneDocument ==
  ASSUME DocInv, NEW p \in Procs, ScoreOK(proc[p]), NEW d \in Docs, NEW r, proc' = [proc EXCEPT ![p] = r],
         \A e \in Docs : About(proc[p], e) \/ About(r, e) => e = d,
         rev' = rev,
         \A e \in Docs : e # d => doc'[e] = doc[e] /\ ver'[e] = ver[e] /\ scored'[e] = scored[e],
         jobs' = jobs \/ \E w \in Works : w.d = d /\ jobs' = Append(jobs, w),
         used' = used, recovering' = recovering, InHand(r)',
         Numbered(r, d)', ScoredSoon(r, d)', PendingOnce(r, d)'
  PROVE  ScoreOK(proc[p])'
<1>1. PICK h : h = proc[p]
  OBVIOUS
<1>2. ScoreOK(h) /\ \A e \in Docs : About(h, e) \/ About(r, e) => e = d
  BY <1>1
<1>3. ScoreOK(r)'
  BY <1>2, OneDocumentStep
<1> QED
  BY <1>3, HandsOver

LEMMA UploadVersionScores ==
  ASSUME DocInv, NEW p \in Procs, ScoreOK(proc[p]), UploadVersion(p)
  PROVE  ScoreOK(proc[p])'
<1>1. PICK h \in Handlers : h = proc[p] /\ Relies(h) /\ InHand(h)
  BY Held DEF ScoreOK
<1>2. h \in Filing /\ At(h, "upload", "version")
  BY <1>1, KindOf DEF UploadVersion, At
<1>3. PICK c \in Contents, d \in Docs : c = h.c /\ d = h.d
  BY <1>2 DEF Filing
<1>4. doc[d] # None /\ ver[d] = <<>> /\ doc[d].text = extractInitialText(c) /\ doc[d].current = 1
  <2>1. doc[d] # None /\ ver[d] = <<>> /\ doc[d].text = extractInitialText(c)
    BY <1>1, <1>2, <1>3 DEF Relies, InHand
  <2>2. doc[d].current = 1
    BY <2>1, RowsTyped DEF Names, HasNumber
  <2> QED
    BY <2>1, <2>2
<1>5. PICK x : x = [number |-> 1, content |-> c, text |-> extractInitialText(c)]
  OBVIOUS
<1>6. x.number = 1 /\ x.content = c
  BY <1>5
<1>7. ver' = [ver EXCEPT ![d] = Append(@, x)]
  BY <1>1, <1>3, <1>5 DEF UploadVersion
<1>8. ver'[d] = <<x>> /\ \A e \in Docs : e # d => ver'[e] = ver[e]
  BY <1>4, <1>7 DEF DocInv, RowsOK
<1>9. Len(ver'[d]) = 1 /\ ver'[d][1] = x /\ DOMAIN ver'[d] = {1}
  BY <1>8
<1>10. PICK r : r = [op |-> "upload", pc |-> "kickOff", c |-> c, d |-> d]
  OBVIOUS
<1>11. r.op = "upload" /\ r.pc = "kickOff" /\ r.c = c /\ r.d = d
  BY <1>10
<1>12. proc' = [proc EXCEPT ![p] = r]
  BY <1>1, <1>3, <1>10 DEF UploadVersion, Continue
<1>13. /\ doc' = doc /\ rev' = rev /\ scored' = scored /\ jobs' = jobs /\ used' = used /\ recovering' = recovering
  BY DEF UploadVersion
<1>14. InHand(r)'
  BY <1>4, <1>6, <1>9, <1>11, <1>13 DEF InHand, At
<1>15. Numbered(r, d)'
  BY <1>4, <1>6, <1>9, <1>13 DEF Numbered
<1>16. PendingOnce(r, d)'
  BY <1>9 DEF PendingOnce
<1>17. ScoredSoon(r, d)'
  <2>1. \A i \in DOMAIN jobs' : ~Processes(jobs'[i], d)
    BY <1>4, <1>13, QueueWithin
  <2>2. InOrder(d)'
    BY <2>1 DEF InOrder, Processes
  <2>3. Ahead(r, d)' /\ Coming(r, d)'
    BY <1>11 DEF Ahead, Writes, Coming, KicksOff, At
  <2> QED
    BY <2>2, <2>3 DEF ScoredSoon
<1>18. \A e \in Docs : About(proc[p], e) \/ About(r, e) => e = d
  BY <1>1, <1>2, <1>3, <1>11 DEF About, Writes, SavesVersion, KicksOff, At
<1> HIDE <1>5, <1>10
<1> QED
  BY <1>8, <1>12, <1>13, <1>14, <1>15, <1>16, <1>17, <1>18, OneDocument

LEMMA KickOffScores ==
  ASSUME DocInv, NEW p \in Procs, ScoreOK(proc[p]), UploadKickOff(p)
  PROVE  ScoreOK(proc[p])'
<1>1. PICK h \in Handlers : h = proc[p] /\ Relies(h) /\ InHand(h) /\ ScoreOK(h)
  BY Held DEF ScoreOK
<1>2. h \in Filing /\ At(h, "upload", "kickOff")
  BY <1>1, KindOf DEF UploadKickOff, At
<1>3. PICK c \in Contents, d \in Docs : c = h.c /\ d = h.d
  BY <1>2 DEF Filing
<1>4. doc[d] # None /\ Len(ver[d]) = 1 /\ ver[d][1].content = c /\ doc[d].text = extractInitialText(c)
  BY <1>1, <1>2, <1>3 DEF Relies, InHand, Stored
<1>5. doc[d] \in Document /\ ver[d] # <<>> /\ DOMAIN ver[d] = {1}
  BY <1>4, RowsTyped
<1>6. LastText(d) = extractedText(c)
  BY <1>4 DEF LastText
<1>7. Numbered(h, d) /\ ScoredSoon(h, d) /\ ~SavesVersion(h, d)
  BY <1>1, <1>2, <1>4 DEF ScoreOK, SavesVersion, At
<1>8. PICK op \in {"process", "metrics"} :
        /\ enqueueOrFallback(op, p, d, 1, "request")
        /\ op = "metrics" <=> extractInitialText(c) # NoText
        /\ doc' = doc \/ doc' = [doc EXCEPT ![d].status = "ready"]
  BY <1>1, <1>3 DEF UploadKickOff, enqueueMetricsOrFallback, enqueueProcessOrFallback
<1>9. 1 \in 1..MaxVersions
  BY DocumentConstants
<1>10. PICK w \in Works : /\ w.op = op /\ w.d = d /\ w.v = 1
                          /\ jobs' = Append(jobs, w) /\ proc' = [proc EXCEPT ![p] = Idle]
  BY <1>8, <1>9, OnlyQueued
<1>11. /\ doc'[d].text = doc[d].text /\ doc'[d].current = doc[d].current
       /\ \A e \in Docs : e # d => doc'[e] = doc[e]
  <2>1. PICK x : x = [doc[d] EXCEPT !.status = "ready"]
    OBVIOUS
  <2>2. x.text = doc[d].text /\ x.current = doc[d].current
    BY <1>5, <2>1, SameText DEF Statuses
  <2>3. doc' = doc \/ doc' = [doc EXCEPT ![d] = x]
    BY <1>8, <2>1
  <2> QED
    BY <2>2, <2>3 DEF DocInv, RowsOK
<1>12. /\ ver' = ver /\ rev' = rev /\ scored' = scored /\ used' = used /\ recovering' = recovering
  BY DEF UploadKickOff
<1>13. PICK r : r = Idle /\ r.op = "idle"
  BY IdleHandler
<1>14. Numbered(r, d)'
  BY <1>7, <1>11, <1>12 DEF Numbered
<1>15. PendingOnce(r, d)'
  <2>1. Len(ver'[d]) = 1
    BY <1>4, <1>12
  <2> QED
    BY <2>1 DEF PendingOnce
<1>16. \A i \in DOMAIN jobs : Processes(jobs[i], d) => jobs[i].v = 1
  BY <1>5, QueueWithin
<1>17. ASSUME NeverReturned(d)'
       PROVE  InOrder(d)'
  <2>1. InOrder(d)
    BY <1>5, <1>7, <1>12, <1>17 DEF ScoredSoon, NeverReturned
  <2>2. \A i \in DOMAIN jobs : Processes(jobs[i], d) => jobs[i].v <= w.v
    BY <1>10, <1>16
  <2> QED
    BY <1>10, <2>1, <2>2, JobAdded, QueueWithin
<1>18. Queued(op, d, 1)' /\ \A i \in DOMAIN jobs' : Processes(jobs'[i], d) => jobs'[i].v = 1
  BY <1>10, <1>16, JobAdded, QueueWithin
<1>19. Coming(r, d)' \/ Arrived(r, d)'
  <2>1. CASE op = "process"
    BY <1>4, <1>12, <1>18, <2>1 DEF Coming
  <2>2. CASE op = "metrics"
    <3>1. doc'[d].text = LastText(d)'
      <4>1. doc[d].text = extractedText(c)
        BY <1>4, <1>8, <2>2 DEF extractInitialText, extractedText
      <4> QED
        BY <1>6, <1>11, <1>12, <4>1 DEF LastText
    <3>2. ~Writes(r, d)
      BY <1>13 DEF Writes
    <3> QED
      BY <1>4, <1>12, <1>18, <2>2, <3>1, <3>2 DEF Arrived, Processes, Writes
  <2> QED
    BY <2>1, <2>2
<1>20. ScoredSoon(r, d)'
  BY <1>13, <1>17, <1>19 DEF ScoredSoon, Ahead, Writes
<1>21. \A e \in Docs : About(proc[p], e) \/ About(r, e) => e = d
  BY <1>1, <1>2, <1>3, <1>13 DEF About, Writes, SavesVersion, KicksOff, At
<1>22. InHand(r)'
  BY <1>13 DEF InHand, At
<1>23. proc' = [proc EXCEPT ![p] = r] /\ \E x \in Works : x.d = d /\ jobs' = Append(jobs, x)
  BY <1>10, <1>13
<1> QED
  BY <1>11, <1>12, <1>14, <1>15, <1>20, <1>21, <1>22, <1>23, OneDocument

LEMMA CreateVersionRowScores ==
  ASSUME DocInv, NEW p \in Procs, ScoreOK(proc[p]), CreateVersionRow(p)
  PROVE  ScoreOK(proc[p])'
<1>1. PICK h \in Handlers : h = proc[p] /\ Relies(h) /\ InHand(h) /\ ScoreOK(h)
  BY Held DEF ScoreOK
<1>2. h \in Versioning /\ At(h, "newVersion", "version")
  BY <1>1, KindOf DEF CreateVersionRow, At
<1>3. PICK d \in Docs, c \in Contents, n \in 1..MaxVersions, y \in Document :
        d = h.d /\ c = h.c /\ n = h.n /\ y = h.read
  BY <1>2 DEF Versioning
<1>4. PICK m : m = Len(ver[d]) + 1
  OBVIOUS
<1>5. doc[d] # None /\ n = m /\ ver[d] # <<>>
  BY <1>1, <1>2, <1>3, <1>4 DEF Relies, InHand, HasNumber
<1>6. ver[d] \in Seq(Rows) /\ Len(ver[d]) \in Nat /\ DOMAIN ver[d] = 1..Len(ver[d])
  BY RowsTyped
<1>7. PICK x : x = [number |-> n, content |-> c, text |-> extractInitialText(c)]
  OBVIOUS
<1>8. x.number = n
  BY <1>7
<1>9. ver' = [ver EXCEPT ![d] = Append(@, x)]
  BY <1>1, <1>3, <1>7 DEF CreateVersionRow
<1>10. ver'[d] = Append(ver[d], x) /\ \A e \in Docs : e # d => ver'[e] = ver[e]
  BY <1>9 DEF DocInv, RowsOK
<1>11. /\ Len(ver'[d]) = m /\ ver'[d][m] = x /\ DOMAIN ver'[d] = 1..m /\ m \in Nat
       /\ \A v \in DOMAIN ver[d] : ver'[d][v] = ver[d][v]
  BY <1>4, <1>6, <1>10
<1>12. PICK r : r = [op |-> "newVersion", pc |-> "save", d |-> d, c |-> c, n |-> n, read |-> y, v |-> m]
  OBVIOUS
<1>13. r.op = "newVersion" /\ r.pc = "save" /\ r.d = d /\ r.n = n /\ r.v = m
  BY <1>12
<1>14. proc' = [proc EXCEPT ![p] = r]
  BY <1>1, <1>3, <1>4, <1>12, Zenon DEF CreateVersionRow, Continue
<1>15. /\ doc' = doc /\ rev' = rev /\ scored' = scored /\ jobs' = jobs /\ used' = used /\ recovering' = recovering
  BY DEF CreateVersionRow
<1>16. InHand(r)'
  BY <1>5, <1>11, <1>13 DEF InHand, At
<1>17. SavesVersion(r, d) /\ SavesVersion(r, d)'
  BY <1>13 DEF SavesVersion, At
<1>18. Numbered(h, d) /\ ScoredSoon(h, d)
  BY <1>1, <1>5 DEF ScoreOK
<1>19. Numbered(r, d)'
  <2>1. ASSUME NEW v \in DOMAIN ver'[d]
        PROVE  ver'[d][v].number = v
    <3>1. CASE v = m
      BY <1>5, <1>8, <1>11, <3>1
    <3>2. CASE v # m
      <4>1. v \in DOMAIN ver[d]
        BY <1>4, <1>6, <1>11, <3>2
      <4> QED
        BY <1>5, <1>11, <1>18, <4>1 DEF Numbered
    <3> QED
      BY <3>1, <3>2
  <2> QED
    BY <1>17, <2>1 DEF Numbered
<1>20. PendingOnce(r, d)'
  BY <1>17 DEF PendingOnce
<1>21. ScoredSoon(r, d)'
  <2>1. NeverReturned(d)' => InOrder(d)'
    BY <1>5, <1>15, <1>18 DEF ScoredSoon, NeverReturned, InOrder
  <2>2. Ahead(r, d)' /\ Coming(r, d)'
    BY <1>13, <1>17 DEF Ahead, Writes, Coming
  <2> QED
    BY <2>1, <2>2 DEF ScoredSoon
<1>22. \A e \in Docs : About(proc[p], e) \/ About(r, e) => e = d
  BY <1>1, <1>2, <1>3, <1>13 DEF About, Writes, SavesVersion, KicksOff, At
<1> HIDE <1>7, <1>12
<1> QED
  BY <1>10, <1>14, <1>15, <1>16, <1>19, <1>20, <1>21, <1>22, OneDocument

LEMMA CreateVersionSaveScores ==
  ASSUME DocInv, NEW p \in Procs, ScoreOK(proc[p]), CreateVersionSave(p)
  PROVE  ScoreOK(proc[p])'
<1>1. PICK h \in Handlers : h = proc[p] /\ Relies(h) /\ InHand(h) /\ ScoreOK(h)
  BY Held DEF ScoreOK
<1>2. h \in Saving /\ At(h, "newVersion", "save")
  BY <1>1, KindOf DEF CreateVersionSave, At
<1>3. PICK d \in Docs, c \in Contents, n \in 1..MaxVersions, y \in Document, v \in 1..MaxVersions :
        d = h.d /\ c = h.c /\ n = h.n /\ y = h.read /\ v = h.v
  BY <1>2 DEF Saving
<1>4. doc[d] # None /\ n = Len(ver[d]) /\ v = n /\ ver[d] # <<>>
  BY <1>1, <1>2, <1>3 DEF Relies, InHand
<1>5. PICK text \in Texts : text = extractInitialText(c)
  BY TextOfContent
<1>6. PICK x : x = [y EXCEPT !.current = n, !.status = "ready", !.text = text]
  OBVIOUS
<1>7. x.current = n /\ x.status = "ready"
  BY <1>6 DEF Document
<1>8. doc' = [doc EXCEPT ![d] = x]
  BY <1>1, <1>3, <1>5, <1>6, Zenon DEF CreateVersionSave
<1>9. doc'[d] = x /\ \A e \in Docs : e # d => doc'[e] = doc[e]
  BY <1>8 DEF DocInv, RowsOK
<1>10. PICK w : w = Job("process", d, v)
  OBVIOUS
<1>11. w \in Works /\ w.op = "process" /\ w.d = d /\ w.v = v
  BY <1>10 DEF Works, Job
<1>12. jobs' = Append(jobs, w)
  BY <1>1, <1>3, <1>10 DEF CreateVersionSave, ScoreOK
<1>13. /\ ver' = ver /\ rev' = rev /\ scored' = scored /\ used' = used /\ recovering' = recovering
  BY DEF CreateVersionSave
<1>14. PICK r : r = Idle /\ r.op = "idle"
  BY IdleHandler
<1>15. proc' = [proc EXCEPT ![p] = r]
  BY <1>14 DEF CreateVersionSave, Finish
<1>16. Numbered(h, d) /\ ScoredSoon(h, d)
  BY <1>1, <1>4 DEF ScoreOK
<1>17. Numbered(r, d)'
  <2>1. \A i \in DOMAIN ver[d] : ver[d][i].number = i
    BY <1>4, <1>16 DEF Numbered
  <2>2. doc'[d].current = Len(ver'[d])
    BY <1>4, <1>7, <1>9, <1>13
  <2> QED
    BY <1>13, <2>1, <2>2 DEF Numbered
<1>18. PendingOnce(r, d)'
  BY <1>7, <1>9 DEF PendingOnce
<1>19. ASSUME NeverReturned(d)'
       PROVE  InOrder(d)'
  <2>1. InOrder(d)
    BY <1>4, <1>13, <1>16, <1>19 DEF ScoredSoon, NeverReturned
  <2>2. \A i \in DOMAIN jobs : Processes(jobs[i], d) => jobs[i].v <= w.v
    BY <1>4, <1>11, QueueWithin
  <2> QED
    BY <1>11, <1>12, <2>1, <2>2, JobAdded, QueueWithin
<1>20. Coming(r, d)'
  <2>1. Queued("process", d, n)'
    BY <1>4, <1>11, <1>12, JobAdded, QueueWithin
  <2>2. Len(ver'[d]) = n
    BY <1>4, <1>13
  <2> QED
    BY <2>1, <2>2 DEF Coming
<1>21. ScoredSoon(r, d)'
  BY <1>14, <1>19, <1>20 DEF ScoredSoon, Ahead, Writes
<1>22. \A e \in Docs : About(proc[p], e) \/ About(r, e) => e = d
  BY <1>1, <1>2, <1>3, <1>14 DEF About, Writes, SavesVersion, KicksOff, At
<1>23. InHand(r)'
  BY <1>14 DEF InHand, At
<1>24. \E z \in Works : z.d = d /\ jobs' = Append(jobs, z)
  BY <1>11, <1>12
<1> QED
  BY <1>9, <1>13, <1>15, <1>17, <1>18, <1>21, <1>22, <1>23, <1>24, OneDocument

LEMMA ProcessStartScores ==
  ASSUME DocInv, NEW p \in Procs, ScoreOK(proc[p]), ProcessStart(p)
  PROVE  ScoreOK(proc[p])'
<1>1. PICK h \in Tasks : h = proc[p] /\ ScoreOK(h) /\ h.op = "process" /\ Stored(h.d, h.v) /\ doc[h.d] \in Document
  BY TaskHeld DEF ProcessStart
<1>2. PICK d \in Docs, v \in 1..MaxVersions : d = h.d /\ v = h.v
  BY DEF Tasks
<1>3. doc[d] # None /\ ver[d] # <<>> /\ Writes(h, d)
  BY <1>1, <1>2, RowsTyped DEF Stored, Writes
<1>4. PICK x : x = [doc[d] EXCEPT !.status = "processing"]
  OBVIOUS
<1>5. x.text = doc[d].text /\ x.current = doc[d].current /\ x.status = "processing"
  BY <1>1, <1>2, <1>4, SameText DEF Statuses
<1>6. doc' = [doc EXCEPT ![d] = x]
  BY <1>1, <1>2, <1>4 DEF ProcessStart
<1>7. doc'[d] = x /\ \A e \in Docs : e # d => doc'[e] = doc[e]
  BY <1>6 DEF DocInv, RowsOK
<1>8. PICK r : r = [h EXCEPT !.op = "extract"]
  OBVIOUS
<1>9. r.op = "extract" /\ r.d = d /\ r.v = v
  BY <1>2, <1>8, NextOfTask
<1>10. proc' = [proc EXCEPT ![p] = r]
  BY <1>1, <1>8 DEF Continue, ProcessStart
<1>11. /\ ver' = ver /\ rev' = rev /\ scored' = scored /\ jobs' = jobs /\ used' = used /\ recovering' = recovering
  BY DEF ProcessStart
<1>12. Numbered(h, d) /\ ScoredSoon(h, d) /\ ~SavesVersion(h, d)
  BY <1>1, <1>3 DEF ScoreOK, SavesVersion, At
<1>13. Numbered(r, d)'
  BY <1>5, <1>7, <1>11, <1>12 DEF Numbered
<1>14. PendingOnce(r, d)'
  BY <1>5, <1>7 DEF PendingOnce
<1>15. ScoredSoon(r, d)'
  <2> SUFFICES ASSUME NeverReturned(d)'
               PROVE  InOrder(d)' /\ Ahead(r, d)' /\ (Coming(r, d)' \/ Arrived(r, d)')
    BY DEF ScoredSoon
  <2>1. InOrder(d) /\ Ahead(h, d) /\ (Coming(h, d) \/ Arrived(h, d))
    BY <1>3, <1>11, <1>12 DEF ScoredSoon, NeverReturned
  <2>2. InOrder(d)' /\ Ahead(r, d)'
    BY <1>1, <1>2, <1>3, <1>9, <1>11, <2>1 DEF InOrder, Ahead
  <2>3. Coming(h, d) => Coming(r, d)'
    BY <1>1, <1>2, <1>9, <1>11 DEF Coming, Queued, Writes, SavesVersion, KicksOff, At
  <2>4. Arrived(h, d) => Arrived(r, d)'
    <3>1. LastText(d)' = LastText(d)
      BY <1>11 DEF LastText
    <3> QED
      BY <1>1, <1>2, <1>3, <1>5, <1>7, <1>9, <1>11, <3>1 DEF Arrived, Queued, Writes, Scores, Processes
  <2> QED
    BY <2>1, <2>2, <2>3, <2>4
<1>16. \A e \in Docs : About(proc[p], e) \/ About(r, e) => e = d
  BY <1>1, <1>2, <1>9 DEF About, Writes, SavesVersion, KicksOff, At
<1>17. InHand(r)'
  BY <1>9 DEF InHand, At
<1> HIDE <1>4, <1>8
<1> QED
  BY <1>7, <1>10, <1>11, <1>13, <1>14, <1>15, <1>16, <1>17, OneDocument

LEMMA ProcessDocumentScores ==
  ASSUME DocInv, NEW p \in Procs, ScoreOK(proc[p]), ProcessDocument(p)
  PROVE  ScoreOK(proc[p])'
<1>1. PICK h \in Tasks : h = proc[p] /\ ScoreOK(h) /\ h.op = "extract" /\ Stored(h.d, h.v) /\ doc[h.d] \in Document
  BY TaskHeld DEF ProcessDocument
<1>2. PICK d \in Docs, v \in 1..MaxVersions : d = h.d /\ v = h.v
  BY DEF Tasks
<1>3. doc[d] # None /\ ver[d] # <<>> /\ Writes(h, d)
  BY <1>1, <1>2, RowsTyped DEF Stored, Writes
<1>4. PICK text : text = extractedText(ver[d][v].content)
  OBVIOUS
<1>5. PICK y \in Document : y = doc[d]
  BY <1>1, <1>2
<1>6. PICK x : x = [y EXCEPT !.text = text, !.status = "ready"]
  OBVIOUS
<1>7. x.text = text /\ x.current = y.current /\ x.status = "ready"
  BY <1>6 DEF Document
<1>8. doc' = [doc EXCEPT ![d] = x]
  <2>1. doc' = [doc EXCEPT ![d].text = text, ![d].status = "ready"]
    BY <1>1, <1>2, <1>4, Zenon DEF ProcessDocument
  <2>2. doc \in [Docs -> Document \cup {None}]
    BY DEF DocInv, RowsOK
  <2> QED
    BY <1>5, <1>6, <2>1, <2>2
<1>9. doc'[d] = x /\ \A e \in Docs : e # d => doc'[e] = doc[e]
  BY <1>8 DEF DocInv, RowsOK
<1>10. PICK r : r = [h EXCEPT !.op = "stored"]
  OBVIOUS
<1>11. r.op = "stored" /\ r.d = d /\ r.v = v
  BY <1>2, <1>10, NextOfTask
<1>12. proc' = [proc EXCEPT ![p] = r]
  BY <1>1, <1>10 DEF Continue, ProcessDocument
<1>13. /\ ver' = ver /\ rev' = rev /\ scored' = scored /\ jobs' = jobs /\ used' = used /\ recovering' = recovering
  BY DEF ProcessDocument
<1>14. Numbered(h, d) /\ ScoredSoon(h, d) /\ ~SavesVersion(h, d) /\ ~KicksOff(h, d)
  BY <1>1, <1>3 DEF ScoreOK, SavesVersion, KicksOff, At
<1>15. Numbered(r, d)'
  BY <1>5, <1>7, <1>9, <1>13, <1>14 DEF Numbered
<1>16. PendingOnce(r, d)'
  BY <1>7, <1>9 DEF PendingOnce
<1>17. ~Writes(r, d)
  BY <1>11 DEF Writes
<1>18. ScoredSoon(r, d)'
  <2> SUFFICES ASSUME NeverReturned(d)'
               PROVE  InOrder(d)' /\ Ahead(r, d)' /\ (Coming(r, d)' \/ Arrived(r, d)')
    BY DEF ScoredSoon
  <2>1. InOrder(d) /\ Ahead(h, d) /\ (Coming(h, d) \/ Arrived(h, d))
    BY <1>3, <1>13, <1>14 DEF ScoredSoon, NeverReturned
  <2>2. InOrder(d)' /\ Ahead(r, d)'
    BY <1>13, <1>17, <2>1 DEF InOrder, Ahead, Writes
  <2>3. CASE v = Len(ver[d])
    <3>1. LastText(d)' = text
      BY <1>4, <1>13, <2>3 DEF LastText
    <3>2. \A i \in DOMAIN jobs : Processes(jobs[i], d) => jobs[i].v <= v /\ jobs[i].v \in 1..MaxVersions
      BY <2>3, QueueWithin
    <3>3. \A i \in DOMAIN jobs : Processes(jobs[i], d) => v <= jobs[i].v
      BY <1>2, <1>3, <2>1 DEF Ahead
    <3>4. \A i \in DOMAIN jobs : Processes(jobs[i], d) => jobs[i].v = v
      BY <3>2, <3>3, DocumentConstants
    <3>5. Scores(r, d, v)'
      BY <1>11 DEF Scores
    <3>6. Arrived(r, d)'
      BY <1>7, <1>9, <1>13, <1>17, <2>3, <3>1, <3>4, <3>5 DEF Arrived, Writes, Processes
    <3> QED
      BY <2>2, <3>6
  <2>4. CASE v # Len(ver[d])
    <3>1. ~Arrived(h, d)
      BY <1>2, <1>3, <2>4 DEF Arrived
    <3>2. Queued("process", d, Len(ver[d]))
      BY <1>2, <1>14, <2>1, <2>4, <3>1 DEF Coming
    <3>3. Coming(r, d)'
      BY <1>13, <3>2 DEF Coming, Queued
    <3> QED
      BY <2>2, <3>3
  <2> QED
    BY <2>3, <2>4
<1>19. \A e \in Docs : About(proc[p], e) \/ About(r, e) => e = d
  BY <1>1, <1>2, <1>11 DEF About, Writes, SavesVersion, KicksOff, At
<1>20. InHand(r)'
  BY <1>11 DEF InHand, At
<1> HIDE <1>6, <1>10
<1> QED
  BY <1>9, <1>12, <1>13, <1>15, <1>16, <1>18, <1>19, <1>20, OneDocument

LEMMA ProcessVersionScores ==
  ASSUME DocInv, NEW p \in Procs, ScoreOK(proc[p]), ProcessVersion(p)
  PROVE  ScoreOK(proc[p])'
<1>1. PICK h \in Tasks : h = proc[p] /\ ScoreOK(h) /\ h.op = "stored" /\ Stored(h.d, h.v)
  BY TaskHeld DEF ProcessVersion
<1>2. PICK d \in Docs, v \in 1..MaxVersions : d = h.d /\ v = h.v
  BY DEF Tasks
<1>3. /\ doc[d] # None /\ ver[d] # <<>> /\ v \in DOMAIN ver[d] /\ ver[d] \in Seq(Rows) /\ ver[d][v] \in Rows
      /\ Len(ver[d]) \in Nat /\ DOMAIN ver[d] = 1..Len(ver[d])
  BY <1>1, <1>2, RowsTyped DEF Stored
<1>4. PICK text : text = extractedText(ver[d][v].content)
  OBVIOUS
<1>5. PICK x : x = [ver[d][v] EXCEPT !.text = text]
  OBVIOUS
<1>6. x.number = ver[d][v].number /\ x.content = ver[d][v].content
  BY <1>3, <1>5 DEF Rows
<1>7. PICK s : s = [ver[d] EXCEPT ![v] = x]
  OBVIOUS
<1>8. /\ Len(s) = Len(ver[d]) /\ DOMAIN s = DOMAIN ver[d]
      /\ \A i \in DOMAIN ver[d] : s[i].number = ver[d][i].number /\ s[i].content = ver[d][i].content
  <2>1. Len(s) = Len(ver[d])
    BY <1>3, <1>7
  <2>2. DOMAIN s = DOMAIN ver[d] /\ \A i \in DOMAIN ver[d] : s[i] = IF i = v THEN x ELSE ver[d][i]
    BY <1>3, <1>7
  <2> QED
    BY <1>6, <2>1, <2>2
<1>9. ver' = [ver EXCEPT ![d] = s]
  <2>1. ver' = [ver EXCEPT ![d][v].text = text]
    BY <1>1, <1>2, <1>4, Zenon DEF ProcessVersion
  <2> QED
    BY <1>5, <1>7, <2>1
<1>10. ver'[d] = s /\ \A e \in Docs : e # d => ver'[e] = ver[e]
  BY <1>9 DEF DocInv, RowsOK
<1>11. /\ doc' = doc /\ rev' = rev /\ scored' = scored /\ used' = used /\ recovering' = recovering
  BY DEF ProcessVersion
<1>12. Numbered(h, d) /\ ScoredSoon(h, d) /\ PendingOnce(h, d)
       /\ ~Writes(h, d) /\ ~SavesVersion(h, d) /\ ~KicksOff(h, d)
  BY <1>1, <1>3 DEF ScoreOK, Writes, SavesVersion, KicksOff, At
<1>13. PICK n : n = Len(ver[d]) /\ n = Len(ver'[d]) /\ n \in DOMAIN ver[d]
  <2>1. Len(ver[d]) \in DOMAIN ver[d]
    BY <1>3
  <2> QED
    BY <1>8, <1>10, <2>1
<1>14. LastText(d)' = LastText(d)
  BY <1>8, <1>10, <1>13 DEF LastText
<1>15. PICK r : /\ r.op \in {"idle", "metrics"} /\ (r.op = "metrics" => r.d = d /\ r.v = v)
                /\ proc' = [proc EXCEPT ![p] = r]
                /\ \/ jobs' = jobs /\ r.op = "metrics"
                   \/ \E w \in Works : w.op = "metrics" /\ w.d = d /\ w.v = v /\ jobs' = Append(jobs, w)
  <2>1. CASE jobs' = Append(jobs, Job("metrics", d, v)) /\ Finish(p)
    <3>1. PICK w : w = Job("metrics", d, v)
      OBVIOUS
    <3>2. w \in Works /\ w.op = "metrics" /\ w.d = d /\ w.v = v
      BY <3>1 DEF Works, Job
    <3>3. jobs' = Append(jobs, w)
      BY <2>1, <3>1
    <3> QED
      BY <2>1, <3>2, <3>3, IdleHandler DEF Finish
  <2>2. CASE Continue(p, [h EXCEPT !.op = "metrics"]) /\ jobs' = jobs
    <3>1. PICK r : r = [h EXCEPT !.op = "metrics"]
      OBVIOUS
    <3>2. r.op = "metrics" /\ r.d = d /\ r.v = v
      BY <1>2, <3>1, NextOfTask
    <3>3. proc' = [proc EXCEPT ![p] = r] /\ jobs' = jobs
      BY <2>2, <3>1 DEF Continue
    <3> QED
      BY <3>2, <3>3
  <2> QED
    BY <1>1, <1>2, <2>1, <2>2, Zenon DEF ProcessVersion
<1>16. ~Writes(r, d) /\ ~SavesVersion(r, d)
  BY <1>15 DEF Writes, SavesVersion, At
<1>17. Numbered(r, d)'
  <2>1. \A i \in DOMAIN ver'[d] : ver'[d][i].number = i
    BY <1>3, <1>8, <1>10, <1>12 DEF Numbered
  <2>2. doc'[d].current = Len(ver'[d])
    BY <1>3, <1>11, <1>12, <1>13 DEF Numbered
  <2> QED
    BY <2>1, <2>2 DEF Numbered
<1>18. PendingOnce(r, d)'
  BY <1>11, <1>12, <1>13 DEF PendingOnce, NeverReturned
<1>19. /\ \A op, y : Queued(op, d, y) => Queued(op, d, y)'
       /\ (\A i \in DOMAIN jobs : Processes(jobs[i], d) => jobs[i].v = n)
            => \A i \in DOMAIN jobs' : Processes(jobs'[i], d) => jobs'[i].v = n
       /\ InOrder(d) => InOrder(d)'
       /\ Queued("metrics", d, v)' \/ Scores(r, d, v)
  <2>1. CASE jobs' = jobs /\ r.op = "metrics"
    BY <1>15, <2>1 DEF InOrder, Queued, Scores
  <2>2. CASE \E w \in Works : /\ w.op = "metrics" /\ w.d = d /\ w.v = v /\ jobs' = Append(jobs, w)
    <3>1. PICK w \in Works : /\ w.op = "metrics" /\ w.d = d /\ w.v = v /\ jobs' = Append(jobs, w)
      BY <2>2
    <3>2. ~Processes(w, d)
      BY <3>1 DEF Processes
    <3> QED
      BY <3>1, <3>2, JobAdded, QueueWithin
  <2> QED
    BY <1>15, <2>1, <2>2
<1>20. ScoredSoon(r, d)'
  <2> SUFFICES ASSUME NeverReturned(d)'
               PROVE  InOrder(d)' /\ Ahead(r, d)' /\ (Coming(r, d)' \/ Arrived(r, d)')
    BY DEF ScoredSoon
  <2>1. InOrder(d) /\ (Coming(h, d) \/ Arrived(h, d))
    BY <1>3, <1>11, <1>12 DEF ScoredSoon, NeverReturned
  <2>2. InOrder(d)' /\ Ahead(r, d)'
    BY <1>16, <1>19, <2>1 DEF Ahead, Writes
  <2>3. CASE Coming(h, d)
    <3>1. Queued("process", d, n)'
      BY <1>12, <1>13, <1>19, <2>3 DEF Coming
    <3>2. Coming(r, d)'
      BY <1>13, <3>1 DEF Coming
    <3> QED
      BY <2>2, <3>2
  <2>4. CASE Arrived(h, d)
    <3>1. /\ doc[d].text = LastText(d)
          /\ \A i \in DOMAIN jobs' : Processes(jobs'[i], d) => jobs'[i].v = n
      BY <1>13, <1>19, <2>4 DEF Arrived
    <3>2. scored[d][n] = LastText(d) \/ Queued("metrics", d, n)' \/ Scores(r, d, n)
      <4>1. scored[d][n] = LastText(d) \/ Queued("metrics", d, n) \/ v = n
        BY <1>2, <1>13, <2>4 DEF Arrived, Scores
      <4> QED
        BY <1>19, <4>1
    <3>3. Arrived(r, d)'
      BY <1>11, <1>13, <1>14, <1>16, <3>1, <3>2 DEF Arrived, Writes, Scores, Processes
    <3> QED
      BY <2>2, <3>3
  <2> QED
    BY <2>1, <2>3, <2>4
<1>21. \A e \in Docs : About(proc[p], e) \/ About(r, e) => e = d
  BY <1>1, <1>2, <1>15 DEF About, Writes, SavesVersion, KicksOff, At
<1>22. InHand(r)'
  BY <1>15 DEF InHand, At
<1>23. jobs' = jobs \/ \E w \in Works : w.d = d /\ jobs' = Append(jobs, w)
  BY <1>15
<1> QED
  BY <1>10, <1>11, <1>15, <1>17, <1>18, <1>20, <1>21, <1>22, <1>23, OneDocument

LEMMA MetricsComputeScores ==
  ASSUME DocInv, NEW p \in Procs, ScoreOK(proc[p]), MetricsCompute(p)
  PROVE  ScoreOK(proc[p])'
<1>1. PICK h \in Tasks : h = proc[p] /\ ScoreOK(h) /\ h.op = "metrics" /\ Stored(h.d, h.v)
  BY TaskHeld DEF MetricsCompute
<1>2. PICK d \in Docs, v \in 1..MaxVersions : d = h.d /\ v = h.v
  BY DEF Tasks
<1>3. doc[d] # None /\ ver[d] # <<>> /\ v \in DOMAIN ver[d]
  BY <1>1, <1>2, RowsTyped DEF Stored
<1>4. PICK text : text = doc[d].text
  OBVIOUS
<1>5. scored' = [scored EXCEPT ![d][v] = text]
  BY <1>1, <1>2, <1>4, Zenon DEF MetricsCompute
<1>6. PICK n : n = Len(ver[d])
  OBVIOUS
<1>7. n \in 1..MaxVersions
  <2>1. n \in DOMAIN ver[d]
    BY <1>3, <1>6, RowsTyped
  <2> QED
    BY <2>1, RowsTyped
<1>8. scored'[d][n] = (IF n = v THEN text ELSE scored[d][n]) /\ \A e \in Docs : e # d => scored'[e] = scored[e]
  BY <1>5, <1>7 DEF DocInv, RowsOK
<1>9. /\ doc' = doc /\ ver' = ver /\ rev' = rev /\ jobs' = jobs /\ used' = used /\ recovering' = recovering
  BY DEF MetricsCompute
<1>10. PICK r : proc' = [proc EXCEPT ![p] = r] /\ r.op \in {"idle", "findReview"}
  <2>1. CASE Finish(p)
    BY <2>1, IdleHandler DEF Finish
  <2>2. CASE Continue(p, [h EXCEPT !.op = "findReview"])
    <3>1. PICK r : r = [h EXCEPT !.op = "findReview"]
      OBVIOUS
    <3>2. r.op = "findReview"
      BY <3>1, NextOfTask
    <3>3. proc' = [proc EXCEPT ![p] = r]
      BY <2>2, <3>1 DEF Continue
    <3> QED
      BY <3>2, <3>3
  <2> QED
    BY <1>1, <2>1, <2>2, Zenon DEF MetricsCompute
<1>11. Numbered(h, d) /\ ScoredSoon(h, d) /\ PendingOnce(h, d)
       /\ ~Writes(h, d) /\ ~SavesVersion(h, d) /\ ~KicksOff(h, d)
  BY <1>1, <1>3 DEF ScoreOK, Writes, SavesVersion, KicksOff, At
<1>12. ~Writes(r, d)
  BY <1>10 DEF Writes
<1>13. Numbered(r, d)'
  BY <1>9, <1>11 DEF Numbered
<1>14. PendingOnce(r, d)'
  BY <1>9, <1>11 DEF PendingOnce, NeverReturned
<1>15. ScoredSoon(r, d)'
  <2> SUFFICES ASSUME NeverReturned(d)'
               PROVE  InOrder(d)' /\ Ahead(r, d)' /\ (Coming(r, d)' \/ Arrived(r, d)')
    BY DEF ScoredSoon
  <2>1. InOrder(d) /\ (Coming(h, d) \/ Arrived(h, d))
    BY <1>3, <1>9, <1>11 DEF ScoredSoon, NeverReturned
  <2>2. InOrder(d)' /\ Ahead(r, d)'
    BY <1>9, <1>12, <2>1 DEF InOrder, Ahead, Writes
  <2>3. Coming(h, d) => Coming(r, d)'
    BY <1>9, <1>11 DEF Coming, Queued
  <2>4. CASE Arrived(h, d)
    <3>1. LastText(d)' = LastText(d)
      BY <1>9 DEF LastText
    <3>2. /\ doc[d].text = LastText(d)
          /\ \A i \in DOMAIN jobs : Processes(jobs[i], d) => jobs[i].v = n
          /\ scored[d][n] = LastText(d) \/ Queued("metrics", d, n) \/ v = n
      BY <1>2, <1>6, <2>4 DEF Arrived, Scores
    <3>3. scored'[d][n] = LastText(d) \/ Queued("metrics", d, n)
      BY <1>4, <1>8, <3>2
    <3>4. Arrived(r, d)'
      BY <1>6, <1>9, <1>12, <3>1, <3>2, <3>3 DEF Arrived, Writes, Queued, Processes
    <3> QED
      BY <2>2, <3>4
  <2> QED
    BY <2>1, <2>2, <2>3, <2>4
<1>16. \A e \in Docs : About(proc[p], e) \/ About(r, e) => e = d
  BY <1>1, <1>2, <1>10 DEF About, Writes, SavesVersion, KicksOff, At
<1>17. InHand(r)'
  BY <1>10 DEF InHand, At
<1> QED
  BY <1>8, <1>9, <1>10, <1>13, <1>14, <1>15, <1>16, <1>17, OneDocument

-----------------------------------------------------------------------------
(* Work that is taken up                                                   *)

LEMMA WorkerTakeScores ==
  ASSUME DocInv, NEW p \in Procs, ScoreOK(proc[p]), WorkerTake(p)
  PROVE  ScoreOK(proc[p])'
<1>1. PICK h : h = proc[p] /\ ScoreOK(h) /\ h = Idle /\ h.op = "idle"
  BY IdleHandler DEF WorkerTake
<1>2. jobs \in Seq(Works) /\ jobs # <<>>
  BY DEF DocInv, QueueOK, WorkerTake
<1>3. PICK w \in Works : w = Head(jobs) /\ w = jobs[1]
  BY <1>2
<1>4. PICK r : r = Task(w.op, w.d, w.v, "worker")
  OBVIOUS
<1>5. r.op = w.op /\ r.d = w.d /\ r.v = w.v /\ r.op \in {"process", "metrics"}
  BY <1>4 DEF Task, Works
<1>6. proc' = [proc EXCEPT ![p] = r]
  BY <1>3, <1>4 DEF WorkerTake, Continue
<1>7. /\ 1 \in DOMAIN jobs
      /\ \A i \in DOMAIN jobs' : i + 1 \in DOMAIN jobs /\ i \in Nat /\ 1 < i + 1 /\ jobs'[i] = jobs[i + 1]
      /\ \A i \in DOMAIN jobs : i = 1 \/ \E k \in DOMAIN jobs' : jobs'[k] = jobs[i]
  <2>1. jobs' = Tail(jobs)
    BY DEF WorkerTake
  <2>2. PICK m \in Nat : m = Len(jobs) /\ m >= 1 /\ DOMAIN jobs = 1..m /\ DOMAIN jobs' = 1..(m - 1)
    BY <1>2, <2>1
  <2>3. \A i \in 1..(m - 1) : jobs'[i] = jobs[i + 1]
    BY <1>2, <2>1, <2>2
  <2>4. \A i \in 1..m : i = 1 \/ (i - 1 \in 1..(m - 1) /\ jobs'[i - 1] = jobs[i])
    BY <2>2, <2>3
  <2> QED
    BY <2>2, <2>3, <2>4
<1>8. /\ doc' = doc /\ ver' = ver /\ rev' = rev /\ scored' = scored /\ used' = used /\ recovering' = recovering
  BY DEF WorkerTake
<1>9. ASSUME NEW d \in Docs, doc[d] # None
      PROVE  Numbered(r, d)' /\ ScoredSoon(r, d)' /\ PendingOnce(r, d)'
  <2>1. Numbered(h, d) /\ ScoredSoon(h, d) /\ PendingOnce(h, d) /\ ~Writes(h, d)
        /\ ~SavesVersion(h, d) /\ ~KicksOff(h, d)
    BY <1>1, <1>9 DEF ScoreOK, Writes, SavesVersion, KicksOff, At
  <2>2. Numbered(r, d)' /\ PendingOnce(r, d)'
    BY <1>8, <2>1 DEF Numbered, PendingOnce, NeverReturned
  <2>3. Writes(r, d) <=> Processes(w, d)
    BY <1>5 DEF Writes, Processes
  <2>4. \A op, v : Queued(op, d, v) => Queued(op, d, v)' \/ (w.op = op /\ w.d = d /\ w.v = v)
    BY <1>3, <1>7 DEF Queued
  <2>5. ScoredSoon(r, d)'
    <3> SUFFICES ASSUME NeverReturned(d)', ver[d] # <<>>
                 PROVE  InOrder(d)' /\ Ahead(r, d)' /\ (Coming(r, d)' \/ Arrived(r, d)')
      BY <1>8 DEF ScoredSoon
    <3>0. PICK n : n = Len(ver[d]) /\ n = Len(ver'[d])
      BY <1>8
    <3>1. InOrder(d) /\ (Coming(h, d) \/ Arrived(h, d))
      BY <1>8, <2>1 DEF ScoredSoon, NeverReturned
    <3>2. InOrder(d)'
      BY <1>7, <3>1 DEF InOrder, Processes
    <3>3. Ahead(r, d)'
      BY <1>3, <1>5, <1>7, <2>3, <3>1 DEF InOrder, Ahead, Processes, Writes
    <3>4. CASE Coming(h, d)
      <4>1. Queued("process", d, n)
        BY <3>0, <2>1, <3>4 DEF Coming
      <4>2. CASE Queued("process", d, n)'
        <5>1. Coming(r, d)'
          BY <3>0, <4>2 DEF Coming
        <5> QED
          BY <3>2, <3>3, <5>1
      <4>3. CASE w.op = "process" /\ w.d = d /\ w.v = n
        <5>1. Coming(r, d)'
          BY <3>0, <1>5, <4>3 DEF Coming, Writes
        <5> QED
          BY <3>2, <3>3, <5>1
      <4> QED
        BY <2>4, <4>1, <4>2, <4>3
    <3>5. CASE Arrived(h, d)
      <4>1. LastText(d)' = LastText(d)
        BY <1>8 DEF LastText
      <4>2. /\ doc[d].text = LastText(d)
            /\ \A i \in DOMAIN jobs : Processes(jobs[i], d) => jobs[i].v = n
            /\ scored[d][n] = LastText(d) \/ Queued("metrics", d, n)
        BY <3>0, <1>1, <3>5 DEF Arrived, Scores
      <4>3. \A i \in DOMAIN jobs' : Processes(jobs'[i], d) => jobs'[i].v = n
        BY <1>7, <4>2
      <4>4. Writes(r, d) => r.v = n
        BY <1>3, <1>5, <1>7, <2>3, <4>2
      <4>5. \/ scored[d][n] = LastText(d) \/ Queued("metrics", d, n)'
            \/ Scores(r, d, n)
        BY <1>5, <2>4, <4>2 DEF Scores
      <4>6. Arrived(r, d)'
        BY <3>0, <1>8, <4>1, <4>2, <4>3, <4>4, <4>5 DEF Arrived, Processes, Writes, Scores
      <4> QED
        BY <3>2, <3>3, <4>6
    <3> QED
      BY <3>1, <3>4, <3>5
  <2> QED
    BY <2>2, <2>5
<1>10. InHand(r)'
  BY <1>5 DEF InHand, At
<1>11. ScoreOK(r)'
  BY <1>1, <1>8, <1>9, <1>10 DEF ScoreOK
<1> QED
  BY <1>6, <1>11, HandsOver

LEMMA WatchdogScores ==
  ASSUME DocInv, NEW p \in Procs, ScoreOK(proc[p]), NEW t \in timers, WatchdogFires(p, t)
  PROVE  ScoreOK(proc[p])'
<1>1. PICK h : h = proc[p] /\ ScoreOK(h) /\ h = Idle /\ h.op = "idle"
  BY IdleHandler DEF WatchdogFires
<1>2. t \in Works /\ Stored(t.d, t.v)
  BY DEF DocInv, QueueOK
<1>3. PICK d \in Docs, v \in 1..MaxVersions : d = t.d /\ v = t.v
  BY <1>2 DEF Works
<1>4. /\ doc' = doc /\ ver' = ver /\ rev' = rev /\ scored' = scored /\ jobs' = jobs
      /\ used' = used /\ recovering' = recovering
  BY DEF WatchdogFires
<1>5. \A e \in Docs : ~About(proc[p], e)
  BY <1>1, IdleAside
<1>6. CASE proc' = proc
  <2>1. proc' = [proc EXCEPT ![p] = Idle]
    BY <1>1, <1>6 DEF DocInv, HandlersOK
  <2>2. InHand(Idle)' /\ \A e \in Docs : ~Writes(Idle, e)
    BY IdleAside
  <2> QED
    BY <1>4, <1>5, <2>1, <2>2, ReadsOnly
<1>7. CASE Continue(p, Task("metrics", t.d, t.v, "watchdog"))
  <2>1. PICK r : r = Task("metrics", t.d, t.v, "watchdog")
    OBVIOUS
  <2>2. r.op = "metrics"
    BY <2>1 DEF Task
  <2>3. proc' = [proc EXCEPT ![p] = r]
    BY <1>7, <2>1 DEF Continue
  <2>4. InHand(r)' /\ \A e \in Docs : ~Writes(r, e)
    BY <2>2 DEF InHand, Writes, At
  <2> QED
    BY <1>4, <1>5, <2>3, <2>4, ReadsOnly
<1>8. CASE doc[t.d].status = "pending" /\ Continue(p, Task("process", t.d, t.v, "watchdog"))
  <2>1. PICK r : r = Task("process", t.d, t.v, "watchdog")
    OBVIOUS
  <2>2. r.op = "process" /\ r.d = d /\ r.v = v
    BY <1>3, <2>1 DEF Task
  <2>3. proc' = [proc EXCEPT ![p] = r]
    BY <1>8, <2>1 DEF Continue
  <2>4. /\ doc[d] # None /\ v \in DOMAIN ver[d] /\ DOMAIN ver[d] = 1..Len(ver[d]) /\ Len(ver[d]) \in Nat
        /\ doc[d].status = "pending"
    BY <1>2, <1>3, <1>8, RowsTyped DEF Stored
  <2>5. Numbered(h, d) /\ ScoredSoon(h, d) /\ PendingOnce(h, d) /\ ~SavesVersion(h, d)
    BY <1>1, <2>4 DEF ScoreOK, SavesVersion, At
  <2>6. Numbered(r, d)'
    BY <1>4, <2>5 DEF Numbered
  <2>7. PendingOnce(r, d)'
    BY <1>4, <2>5 DEF PendingOnce, NeverReturned
  <2>8. ScoredSoon(r, d)'
    <3> SUFFICES ASSUME NeverReturned(d)', ver[d] # <<>>
                 PROVE  InOrder(d)' /\ Ahead(r, d)' /\ Coming(r, d)'
      BY <1>4 DEF ScoredSoon
    <3>1. InOrder(d) /\ Len(ver[d]) <= 1
      BY <1>4, <2>4, <2>5 DEF ScoredSoon, PendingOnce, NeverReturned
    <3>2. v = 1 /\ Len(ver[d]) = 1
      <4>1. PICK n \in Nat : n = Len(ver[d])
        BY <2>4
      <4>2. v \in 1..n /\ n <= 1
        BY <2>4, <3>1, <4>1
      <4>3. v = 1 /\ n = 1
        BY <4>2
      <4> QED
        BY <4>1, <4>3
    <3>3. \A i \in DOMAIN jobs : Processes(jobs[i], d) => v <= jobs[i].v
      <4>1. \A i \in DOMAIN jobs : Processes(jobs[i], d) => jobs[i].v \in DOMAIN ver[d]
        BY QueueWithin
      <4> QED
        BY <2>4, <3>2, <4>1
    <3>4. Ahead(r, d)'
      BY <1>4, <2>2, <3>3 DEF Ahead, Processes
    <3>5. Coming(r, d)'
      <4>1. Len(ver'[d]) = v
        BY <1>4, <3>2
      <4> QED
        BY <2>2, <4>1 DEF Coming, Writes
    <3>6. InOrder(d)'
      BY <1>4, <3>1 DEF InOrder
    <3> QED
      BY <3>4, <3>5, <3>6
  <2>9. \A e \in Docs : About(proc[p], e) \/ About(r, e) => e = d
    BY <1>5, <2>2 DEF About, Writes, SavesVersion, KicksOff, At
  <2>10. InHand(r)'
    BY <2>2 DEF InHand, At
  <2> QED
    BY <1>4, <2>3, <2>6, <2>7, <2>8, <2>9, <2>10, OneDocument
<1> QED
  BY <1>6, <1>7, <1>8 DEF WatchdogFires, scheduleProcessWatchdog, scheduleMetricsWatchdog

-----------------------------------------------------------------------------
(* Every step keeps the invariant of the one handler                       *)

LEMMA RequestScores ==
  ASSUME DocInv, NEW p \in Procs, ScoreOK(proc[p]), Request(p)
  PROVE  ScoreOK(proc[p])'
<1>1. CASE \E c \in Contents : UploadCheck(p, c)
  BY <1>1, UploadCheckScores
<1>2. CASE \E d \in Docs : \E c \in Contents : CreateVersionRead(p, d, c)
  BY <1>2, CreateVersionReadScores
<1>3. CASE \E d \in Docs : submitReview(p, d) \/ returnDocumentForRevision(p, d)
  <2>1. PICK d \in Docs, decision \in Decisions : ReviewRead(p, d, decision)
    BY <1>3 DEF submitReview, returnDocumentForRevision, Decisions
  <2> QED
    BY <2>1, ReviewReadScores
<1>4. CASE \E d \in Docs : archiveDocument(p, d)
  BY <1>4, ArchiveReadScores
<1>5. CASE \E d \in Docs : deleteDocument(p, d)
  BY <1>5, DeleteReadScores
<1>6. CASE \E d \in Docs : reprocessDocument(p, d)
  BY <1>6, ReprocessScores
<1> QED
  BY <1>1, <1>2, <1>3, <1>4, <1>5, <1>6 DEF Request

LEMMA RunningScores ==
  ASSUME DocInv, NEW p \in Procs, ScoreOK(proc[p]), Running(p)
  PROVE  ScoreOK(proc[p])'
<1>1. CASE uploadDocument(p)
  BY <1>1, SupersedeScores, InsertScores, UploadVersionScores, KickOffScores DEF uploadDocument
<1>2. CASE createVersion(p)
  BY <1>2, CreateVersionRowScores, CreateVersionSaveScores DEF createVersion
<1>3. CASE ReviewSave(p) \/ ReviewStatus(p) \/ ArchiveUpdate(p) \/ DeleteSave(p)
  BY <1>3, ReviewSaveScores, ReviewStatusScores, ArchiveUpdateScores, DeleteSaveScores
<1>4. CASE handleDocumentProcessing(p)
  BY <1>4, ProcessStartScores, ProcessDocumentScores, ProcessVersionScores, NoFailure
     DEF handleDocumentProcessing
<1>5. CASE computeMetricsAndAutoReview(p)
  BY <1>5, MetricsComputeScores, FindReviewScores, SaveReviewScores DEF computeMetricsAndAutoReview
<1> QED
  BY <1>1, <1>2, <1>3, <1>4, <1>5 DEF Running

LEMMA StepScores ==
  ASSUME DocInv, NEW p \in Procs, ScoreOK(proc[p]), Step(p)
  PROVE  ScoreOK(proc[p])'
<1>1. CASE Request(p) \/ Running(p)
  BY <1>1, RequestScores, RunningScores
<1>2. CASE WorkerTake(p)
  BY <1>2, WorkerTakeScores
<1>3. CASE \E t \in timers : WatchdogFires(p, t)
  BY <1>3, WatchdogScores
<1> QED
  BY <1>1, <1>2, <1>3, NoFailure DEF Step

LEMMA ScoreInvAtFirst ==
  ASSUME MCInit
  PROVE  ScoreInv
<1> SUFFICES ASSUME regime = "serial"
             PROVE  ScoreOK(proc[p1])
  BY DEF ScoreInv
<1>1. InitWith(NoDocument, NoRows, NoRows, NoResults, Bounds(4, 0, {}))
  BY DEF MCInit
<1>2. proc[p1] = Idle /\ recovering = {} /\ used.faults = {} /\ \A d \in Docs : doc[d] = None
  BY <1>1, RegimeConstants DEF InitWith, Bounds, NoDocument
<1>3. InHand(proc[p1])
  BY <1>2, IdleAside
<1> QED
  BY <1>2, <1>3 DEF ScoreOK

LEMMA ScoreInvKept ==
  ASSUME DocInv, ScoreInv, MCNext \/ UNCHANGED MCvars
  PROVE  ScoreInv'
<1> SUFFICES ASSUME regime' = "serial"
             PROVE  ScoreOK(proc[p1])'
  BY DEF ScoreInv
<1>1. CASE MCNext
  <2>1. regime = "serial" /\ Step(p1)
    BY <1>1 DEF MCNext
  <2>2. ScoreOK(proc[p1]) /\ p1 \in Procs
    BY <2>1, RegimeConstants DEF ScoreInv
  <2> QED
    BY <2>1, <2>2, StepScores
<1>2. CASE UNCHANGED MCvars
  <2>1. /\ doc' = doc /\ ver' = ver /\ rev' = rev /\ scored' = scored /\ jobs' = jobs
        /\ proc' = proc /\ recovering' = recovering /\ used' = used /\ regime' = regime
    BY <1>2 DEF MCvars, vars
  <2>2. PICK r : r = proc[p1] /\ ScoreOK(r)
    BY <2>1 DEF ScoreInv
  <2>3. InHand(r)'
    BY <2>1, <2>2 DEF ScoreOK, InHand, NeverReturned
  <2>4. ASSUME NEW d \in Docs, doc'[d] # None
        PROVE  Numbered(r, d)' /\ ScoredSoon(r, d)' /\ PendingOnce(r, d)'
    <3>1. Numbered(r, d) /\ ScoredSoon(r, d) /\ PendingOnce(r, d)
      BY <2>1, <2>2, <2>4 DEF ScoreOK
    <3>2. Numbered(r, d)' /\ PendingOnce(r, d)'
      BY <2>1, <3>1 DEF Numbered, PendingOnce, NeverReturned, SavesVersion
    <3>3. (InOrder(d) <=> InOrder(d)') /\ (Ahead(r, d) <=> Ahead(r, d)')
      BY <2>1 DEF InOrder, Ahead
    <3>4. Coming(r, d) <=> Coming(r, d)'
      BY <2>1 DEF Coming, Queued, Writes, SavesVersion, KicksOff
    <3>5. Arrived(r, d) <=> Arrived(r, d)'
      BY <2>1 DEF Arrived, Queued, LastText, Scores, Writes, Processes
    <3>6. ScoredSoon(r, d)'
      BY <2>1, <3>1, <3>3, <3>4, <3>5 DEF ScoredSoon, NeverReturned
    <3> QED
      BY <3>2, <3>6
  <2>5. ScoreOK(r)'
    BY <2>1, <2>2, <2>3, <2>4 DEF ScoreOK
  <2> QED
    BY <2>1, <2>2, <2>5
<1> QED
  BY <1>1, <1>2

LEMMA ScoreInvHolds ==
  ASSUME DocInv, ScoreInv
  PROVE  DocCurrentVersionScored
<1> SUFFICES ASSUME regime = "serial", Quiet, NEW d \in Active, NEW v \in CurrentVersions(d), NeverReturned(d)
             PROVE  scored[d][v] = extractedText(ver[d][v].content)
  BY DEF DocCurrentVersionScored, CurrentVersionScored
<1>1. PICK h : h = Idle /\ ScoreOK(h) /\ h.op = "idle"
  BY RegimeConstants, IdleHandler DEF ScoreInv, Quiet
<1>2. d \in Docs /\ doc[d] # None /\ v \in DOMAIN ver[d] /\ ver[d] # <<>> /\ ver[d][v].number = doc[d].current
  BY RowsTyped DEF Active, Existing, CurrentVersions, Number
<1>3. Numbered(h, d) /\ ScoredSoon(h, d) /\ ~SavesVersion(h, d)
  BY <1>1, <1>2 DEF ScoreOK, SavesVersion, At
<1>4. v = Len(ver[d])
  BY <1>2, <1>3 DEF Numbered
<1>5. \A op, w : ~Queued(op, d, w)
  BY DEF Quiet, Queued
<1>6. Arrived(h, d)
  BY <1>1, <1>2, <1>3, <1>5 DEF ScoredSoon, Coming, Writes, KicksOff, At
<1>7. scored[d][v] = LastText(d)
  BY <1>1, <1>4, <1>5, <1>6 DEF Arrived, Scores
<1> QED
  BY <1>4, <1>7 DEF LastText

(* Where one handler runs at a time and nothing fails, the queue, the two   *)
(* watchdogs and the metrics job (documents.service.ts and the processing   *)
(* module) leave the current version of every ready document that nobody    *)
(* returned with metric results computed on the text of that version.       *)
THEOREM CurrentVersionIsScored == MCSpec => []DocCurrentVersionScored
<1>1. MCInit => DocInv /\ ScoreInv
  BY DocInvAtFirst, ScoreInvAtFirst
<1>2. (DocInv /\ ScoreInv) /\ [MCNext]_MCvars => (DocInv /\ ScoreInv)'
  BY DocInvKept, ScoreInvKept
<1>3. DocInv /\ ScoreInv => DocCurrentVersionScored
  BY ScoreInvHolds
<1> QED
  BY <1>1, <1>2, <1>3, PTL DEF MCSpec
=============================================================================
