------------------------ MODULE RegulatoryIssuances ------------------------
(***************************************************************************)
(* The catalogue of regulatory issuances: rows with a life cycle, their    *)
(* compliance domains, sources, relationships and the decision to list     *)
(* them in the official register.                                          *)
(*                                                                         *)
(* Every request of IssuanceService reads what it needs, checks it, and    *)
(* then writes in several statements without a transaction.  A request is  *)
(* therefore a job: it is entered with what it read and runs step by step. *)
(* In the regime "serial" one request runs at a time and to its end, in    *)
(* "crash" it may stop between two statements (restart, database error),   *)
(* in "overlap" several run interleaved, each with what it read.           *)
(***************************************************************************)
EXTENDS Integers, FiniteSets

CONSTANTS Issuances,  \* issuance numbers, unique in the table
          Domains,    \* codes of compliance domains
          Files,      \* attachments, told apart by their SHA-256
          Requests,   \* requests that can be in progress
          Forms,      \* contents of the creation form
          Edits,      \* contents of the update form: the fields it carries
          Links,      \* source URLs with their types: records [kind, url]
          Starts,     \* catalogues found at the start
          Regimes,    \* regimes explored
          None,
          MaxCalls,   \* bound on the requests made
          MaxOverlap  \* the same where they overlap or the server stops

Lives == {"draft", "under_review", "active", "superseded", "retired"}
Applicability == {"pending_review", "applicable", "not_applicable"}

Urls == {l.url : l \in Links} \cup {None}

Row == [life : Lives, appl : Applicability, dec : {"pending", "included", "excluded"},
        active : BOOLEAN, url : Urls, amend : Issuances \cup {None}, name : Files \cup {None}]

\* Rows of issuance_sources with ids up to n, and of issuance_relationships.
SourceRows(n) ==
  [id : 1..n, kind : {l.kind : l \in Links} \cup {"uploaded_copy", "official_external"},
   url : Urls, file : Files \cup {None}, primary : BOOLEAN, verified : BOOLEAN]
Relations == [from : Issuances, to : Issuances, type : {"amends", "related_to"}]

\* A catalogue between requests that ran to their end.
InOrder(c) ==
  /\ c.row \in [Issuances -> Row \cup {None}] /\ c.blob \in [Issuances -> Files \cup {None}]
  /\ c.doms \in [Issuances -> SUBSET Domains] /\ c.domain \in [Domains -> {"absent", "active", "inactive"}]
  /\ \A i \in Issuances : c.row[i] = None => c.src[i] = {}
  /\ \A i \in Issuances : c.row[i] # None =>
       /\ c.row[i].active <=> c.row[i].life = "active"
       /\ c.row[i].dec = "included" =>
            /\ c.row[i].life = "active" /\ c.row[i].appl = "applicable"
            /\ \E d \in c.doms[i] : c.domain[d] = "active"
            /\ c.src[i] # {} \/ c.row[i].url # None
       /\ c.row[i].url # None => \E s \in c.src[i] : s.primary /\ s.url = c.row[i].url
       /\ c.row[i].amend # None => c.row[i].amend # i /\ c.row[c.row[i].amend] # None
       /\ \A t \in Issuances :
            [from |-> i, to |-> t, type |-> "amends"] \in c.rel <=> c.row[i].amend = t
  /\ c.rel \in SUBSET Relations
  /\ \A x \in c.rel : x.from # x.to /\ c.row[x.from] # None /\ c.row[x.to] # None
  /\ c.made \in Nat /\ c.src \in [Issuances -> SUBSET SourceRows(c.made)]
  /\ \A i \in Issuances : \A s, t \in c.src[i] :
       s.id = t.id \/ (s.primary /\ t.primary) \/ (s.file = t.file /\ s.file # None) => s = t
  /\ \A i \in Issuances : \A s \in c.src[i] : s.file # None => s.url = None

ASSUME IssuancesAssumption ==
  /\ None \notin Issuances /\ None \notin Files /\ None \notin Lives /\ None \notin Row
  /\ \A l \in Links : l.url # None
  /\ \A e \in Forms : e \in [life : Lives, appl : Applicability, doms : SUBSET Domains,
                             url : Urls, amend : Issuances \cup {None}]
  /\ \A e \in Edits :
       /\ DOMAIN e \subseteq {"reason", "dec", "life", "appl", "doms", "url", "amend"}
       /\ "life" \in DOMAIN e => e.life \in Lives
       /\ "appl" \in DOMAIN e => e.appl \in Applicability
       /\ "doms" \in DOMAIN e => e.doms \in SUBSET Domains
       /\ "url" \in DOMAIN e => e.url \in Urls
       /\ "amend" \in DOMAIN e => e.amend \in Issuances \cup {None}
  /\ \A c \in Starts : InOrder(c)

VARIABLES
  row,      \* issuances: columns of the row, None if there is no row
  blob,     \* attachment_blob, which is not loaded with the row
  doms,     \* issuance_domains
  domain,   \* compliance_domains: absent, active or inactive
  src,      \* issuance_sources
  rel,      \* issuance_relationships
  hist,     \* the last entry of the life cycle history
  log,      \* the last entry of the register decision history
  recs,     \* status of the recommendation about the issuance
  assessed, \* issuances with an assessment
  made,     \* sources created so far; their ids follow the order of creation
  job,      \* requests in progress
  calls,    \* requests made so far
  regime
vars == <<row, blob, doms, domain, src, rel, hist, log, recs, assessed, made, job, calls, regime>>
tables == <<row, blob, doms, domain, src, rel, hist, log, recs, assessed, made>>

Put(f, k, v) == [f EXCEPT ![k] = v]
Patch(w, e) == [c \in DOMAIN w |-> IF c \in DOMAIN e THEN e[c] ELSE w[c]]
Exists(i) == row[i] # None
Amends(i) == {x \in rel : x.from = i /\ x.type = "amends"}

----------------------------------------------------------------------------
(* Requests *)
Limit == IF regime = "serial" THEN MaxCalls ELSE MaxOverlap

Job(op, step, i, w, ds, x) == [op |-> op, at |-> step, i |-> i, row |-> w, doms |-> ds, arg |-> x]

\* No request in progress.
Idle == Job("idle", "done", None, None, {}, None)

Enter(r, j) ==
  /\ job[r] = Idle /\ calls < Limit
  /\ (regime # "overlap") => \A q \in Requests : job[q] = Idle
  /\ job' = [job EXCEPT ![r] = j] /\ calls' = calls + 1
  /\ UNCHANGED <<tables, regime>>

At(r, ops, step) == job[r] # Idle /\ job[r].op \in ops /\ job[r].at = step
Goto(r, step) == job' = [job EXCEPT ![r].at = step]
Leave(r) == job' = [job EXCEPT ![r] = Idle]

\* A request stops where it is: its earlier statements stay.
Crash(r) ==
  /\ regime = "crash" /\ job[r] # Idle /\ Leave(r)
  /\ UNCHANGED <<tables, calls, regime>>

----------------------------------------------------------------------------
(* Checks *)
\* resolveDomains: inactive domains are accepted only where already assigned.
resolveDomains(ds, held) ==
  \A d \in ds : domain[d] = "active" \/ (domain[d] = "inactive" /\ d \in held)

assertAmendmentTarget(i, t) == t # None => t # i /\ Exists(t)

\* What the register asks of an included row.
mayInclude(w, ds, n) ==
  /\ w.life = "active" /\ w.appl = "applicable"
  /\ \E d \in ds : domain[d] = "active"
  /\ n > 0 \/ w.url # None

----------------------------------------------------------------------------
(* createIssuance: the controller makes the decision pending. *)
CreateRead(r) ==
  \E i \in Issuances, e \in Forms :
    /\ ~Exists(i)
    /\ resolveDomains(e.doms, {}) /\ assertAmendmentTarget(i, e.amend)
    /\ Enter(r, Job("create", "save", i,
                    [life |-> e.life, appl |-> e.appl, dec |-> "pending",
                     active |-> e.life = "active", url |-> e.url, amend |-> e.amend,
                     name |-> None],
                    e.doms, e.life))

\* The decision follows the life cycle.
followLifecycle(w, prev) ==
  [w EXCEPT !.active = (w.life = "active"),
            !.dec = IF w.life # "active" /\ w.dec = "included" THEN "excluded"
                    ELSE IF w.life = "active" /\ prev # "active" /\ w.dec = "excluded"
                         THEN "pending" ELSE w.dec]

\* Mutant: the update form may decide
anyPayload(e) == e

\* The controller's payload carries no decision.
payload(e) == [c \in DOMAIN e \ {"dec"} |-> e[c]]

\* updateIssuance
UpdateRead(r) ==
  \E i \in Issuances, form \in Edits :
    /\ Exists(i)
    /\ \E w \in {followLifecycle(Patch(row[i], payload(form)), row[i].life)},
          ds \in {IF "doms" \in DOMAIN form THEN form.doms ELSE doms[i]} :
         /\ w.life # row[i].life => form.reason
         /\ resolveDomains(ds, doms[i]) /\ assertAmendmentTarget(i, w.amend)
         /\ w.dec = "included" => mayInclude(w, ds, Cardinality(src[i]))
         /\ Enter(r, Job("update", "save", i, w, ds,
                         IF w.life # row[i].life THEN w.life ELSE None))

\* decideRegisterInclusion
DecideRead(r) ==
  \E i \in Issuances, d \in {"included", "excluded"}, a \in Applicability, ds \in SUBSET Domains :
    /\ Exists(i) /\ resolveDomains(ds, doms[i])
    /\ d = "included" => mayInclude([row[i] EXCEPT !.appl = a], ds, Cardinality(src[i]))
    /\ Enter(r, Job("decide", "save", i, [row[i] EXCEPT !.appl = a, !.dec = d], ds, d))

unusedDraft(i) ==
  row[i].life = "draft" /\ i \notin assessed /\ \A x \in rel : i \notin {x.from, x.to}

\* deleteIssuance: an unused draft is erased, anything else retired.
DeleteRead(r) ==
  \E i \in Issuances :
    /\ Exists(i)
    /\ IF unusedDraft(i) THEN Enter(r, Job("erase", "save", i, None, {}, None))
       ELSE /\ row[i].life # "retired"
            /\ Enter(r, Job("retire", "save", i,
                            [row[i] EXCEPT !.life = "retired", !.dec = "excluded", !.active = FALSE],
                            {}, "retired"))

\* uploadAttachment: a file belongs to one issuance.
UploadRead(r) ==
  \E i \in Issuances, f \in Files :
    /\ Exists(i) /\ \A k \in Issuances \ {i} : \A s \in src[k] : s.file # f
    /\ \E dup \in {{s \in src[i] : s.file = f}} :
         Enter(r, Job("upload", "save", i, [row[i] EXCEPT !.name = f], {}, [file |-> f, dup |-> dup]))

\* Mutant: the last source of an included issuance may go
anyAttachment(i, own) == TRUE

mayDetach(i, own) == row[i].dec = "included" => src[i] \ own # {}

\* deleteAttachment
DetachRead(r) ==
  \E i \in Issuances :
    /\ Exists(i) /\ row[i].name # None /\ blob[i] # None
    /\ \E own \in {{s \in src[i] : s.kind = "uploaded_copy" /\ s.file = blob[i]}} :
         /\ mayDetach(i, own)
         /\ Enter(r, Job("detach", "save", i, [row[i] EXCEPT !.name = None], {}, own))

----------------------------------------------------------------------------
(* The statements of a request *)
\* issuanceRepo.save writes the row as the request holds it, the domains where
\* the request loaded them; a number taken meanwhile breaks the unique index.
SaveRow(r) ==
  /\ At(r, {"create", "update", "decide", "retire", "upload", "detach"}, "save")
  /\ \E j \in {job[r]} :
       IF j.op = "create" /\ Exists(j.i) THEN Leave(r) /\ UNCHANGED <<row, blob, doms>>
       ELSE /\ row' = Put(row, j.i, j.row)
            /\ doms' = IF j.op \in {"create", "update", "decide"} THEN Put(doms, j.i, j.doms) ELSE doms
            /\ blob' = CASE j.op = "upload" -> Put(blob, j.i, j.arg.file)
                         [] j.op = "detach" -> Put(blob, j.i, None)
                         [] OTHER -> blob
            /\ Goto(r, CASE j.op \in {"create", "update"} -> "amends"
                         [] j.op \in {"upload", "detach"} -> "source"
                         [] j.op = "retire" -> "history"
                         [] j.op = "decide" -> "log")
  /\ UNCHANGED <<domain, src, rel, hist, log, recs, assessed, made, calls, regime>>

\* The row goes with everything that refers to it (ON DELETE CASCADE).
Erase(r) ==
  /\ At(r, {"erase"}, "save")
  /\ \E i \in {job[r].i} :
       /\ row' = Put(row, i, None) /\ blob' = Put(blob, i, None)
       /\ doms' = Put(doms, i, {}) /\ src' = Put(src, i, {})
       /\ rel' = {x \in rel : i \notin {x.from, x.to}}
       /\ hist' = Put(hist, i, None) /\ log' = Put(log, i, None) /\ recs' = Put(recs, i, None)
       /\ assessed' = assessed \ {i}
  /\ Leave(r)
  /\ UNCHANGED <<domain, made, calls, regime>>

syncAmends(i, w) ==
  IF w.amend = None THEN rel \ Amends(i)
  ELSE IF ~Exists(w.amend) THEN rel
  ELSE (rel \ Amends(i)) \cup {[from |-> i, to |-> w.amend, type |-> "amends"]}

\* syncLegacyAmendmentRelationship
SyncAmendment(r) ==
  /\ At(r, {"create", "update"}, "amends")
  /\ rel' = syncAmends(job[r].i, job[r].row)
  /\ Goto(r, "source")
  /\ UNCHANGED <<row, blob, doms, domain, src, hist, log, recs, assessed, made, calls, regime>>

unsetPrimary(ss) == {[s EXCEPT !.primary = FALSE] : s \in ss}

Source(kind, url, file, primary) ==
  [id |-> made + 1, kind |-> kind, url |-> url, file |-> file, primary |-> primary, verified |-> FALSE]
Uploads(ss) == {s \in ss : s.kind = "uploaded_copy"}
Newest(ss) == CHOOSE s \in ss : \A t \in ss : t.id <= s.id

\* Sources once the row's URL is gone: the newest uploaded copy is primary.
withoutUrl(ss) ==
  IF Uploads(ss) # {}
  THEN unsetPrimary(ss \ {Newest(Uploads(ss))}) \cup {[Newest(Uploads(ss)) EXCEPT !.primary = TRUE]}
  ELSE {IF s.kind = "official_external" THEN [s EXCEPT !.primary = FALSE] ELSE s : s \in ss}

\* Sources with the row's URL: its source is found or added, and is primary.
withUrl(ss, u) ==
  LET found == {s \in ss : s.url = u}
      s0 == IF found = {} THEN Source("official_external", u, None, TRUE) ELSE CHOOSE s \in found : TRUE
  IN  unsetPrimary(ss \ {s0}) \cup {[s0 EXCEPT !.primary = TRUE, !.kind = "official_external"]}

\* syncPrimaryUrlSource
SyncSource(r) ==
  /\ At(r, {"create", "update"}, "source")
  /\ \E j \in {job[r]} :
       /\ src' = Put(src, j.i, IF j.row.url = None THEN withoutUrl(src[j.i]) ELSE withUrl(src[j.i], j.row.url))
       /\ made' = IF j.row.url # None /\ \A s \in src[j.i] : s.url # j.row.url THEN made + 1 ELSE made
       /\ IF j.arg = None THEN Leave(r) ELSE Goto(r, "history")
  /\ UNCHANGED <<row, blob, doms, domain, rel, hist, log, recs, assessed, calls, regime>>

History(r) ==
  /\ At(r, {"create", "update", "retire"}, "history")
  /\ hist' = Put(hist, job[r].i, job[r].arg)
  /\ Leave(r)
  /\ UNCHANGED <<row, blob, doms, domain, src, rel, log, recs, assessed, made, calls, regime>>

\* The decision is recorded and answers the pending recommendation.
RecordDecision(r) ==
  /\ At(r, {"decide"}, "log")
  /\ \E j \in {job[r]} :
       /\ log' = Put(log, j.i, j.arg)
       /\ recs' = IF recs[j.i] = "pending"
                  THEN Put(recs, j.i, IF j.arg = "included" THEN "accepted" ELSE "excluded") ELSE recs
  /\ Leave(r)
  /\ UNCHANGED <<row, blob, doms, domain, src, rel, hist, assessed, made, calls, regime>>

\* The uploaded copy is a source, primary where the row has no URL.
UploadSource(r) ==
  /\ At(r, {"upload"}, "source")
  /\ \E i \in {job[r].i}, dup \in {job[r].arg.dup}, nourl \in {job[r].row.url = None} :
     \E ss \in {IF nourl THEN unsetPrimary(src[i]) ELSE src[i]} :
       /\ src' = Put(src, i,
                  IF dup = {} THEN ss \cup {Source("uploaded_copy", None, job[r].arg.file, nourl)}
                  ELSE {s \in ss : \A d \in dup : d.id # s.id} \cup {[d EXCEPT !.primary = nourl] : d \in dup})
       /\ made' = IF dup = {} THEN made + 1 ELSE made
  /\ Leave(r)
  /\ UNCHANGED <<row, blob, doms, domain, rel, hist, log, recs, assessed, calls, regime>>

DetachSource(r) ==
  /\ At(r, {"detach"}, "source")
  /\ src' = [src EXCEPT ![job[r].i] = {s \in @ : \A d \in job[r].arg : d.id # s.id}]
  /\ Goto(r, "primary")
  /\ UNCHANGED <<row, blob, doms, domain, rel, hist, log, recs, assessed, made, calls, regime>>

\* The source touched last (several share the time stamp of an update of all)
\* becomes primary where none is left, and gives its URL to the row.
Fallback(r) ==
  /\ At(r, {"detach"}, "primary")
  /\ \E i \in {job[r].i} :
       IF src[i] = {} \/ \E s \in src[i] : s.primary THEN UNCHANGED <<row, src>>
       ELSE \E s \in src[i] :
              /\ src' = Put(src, i, (src[i] \ {s}) \cup {[s EXCEPT !.primary = TRUE]})
              /\ row' = IF s.url # None /\ Exists(i) THEN [row EXCEPT ![i].url = s.url] ELSE row
  /\ Leave(r)
  /\ UNCHANGED <<blob, doms, domain, rel, hist, log, recs, assessed, made, calls, regime>>

----------------------------------------------------------------------------
(* Sources *)
AddSourceRead(r) ==
  \E i \in Issuances, l \in Links, p \in BOOLEAN :
    /\ Exists(i) /\ \A s \in src[i] : s.url # l.url
    /\ Enter(r, Job("add", "source", i, None, {},
                    [l |-> l, primary |-> p \/ \A s \in src[i] : ~s.primary]))

AddSource(r) ==
  /\ At(r, {"add"}, "source")
  /\ \E i \in {job[r].i}, x \in {job[r].arg} :
     \E ss \in {IF x.primary THEN unsetPrimary(src[i]) ELSE src[i]} :
       /\ src' = Put(src, i, ss \cup {Source(x.l.kind, x.l.url, None, x.primary)})
       /\ made' = made + 1
       /\ IF x.primary THEN Goto(r, "url") ELSE Leave(r)
  /\ UNCHANGED <<row, blob, doms, domain, rel, hist, log, recs, assessed, calls, regime>>

\* issuanceRepo.update writes this column only.
AddSourceUrl(r) ==
  /\ At(r, {"add"}, "url")
  /\ row' = IF Exists(job[r].i) THEN [row EXCEPT ![job[r].i].url = job[r].arg.l.url] ELSE row
  /\ Leave(r)
  /\ UNCHANGED <<blob, doms, domain, src, rel, hist, log, recs, assessed, made, calls, regime>>

VerifyRead(r) ==
  \E i \in Issuances : Exists(i) /\ \E s \in src[i] :
    ~s.verified /\ Enter(r, Job("verify", "source", i, None, {}, s))

\* verifySource saves the source as it was read.
VerifySource(r) ==
  /\ At(r, {"verify"}, "source")
  /\ \E i \in {job[r].i}, s \in {job[r].arg} :
       src' = Put(src, i, {t \in src[i] : t.id # s.id} \cup {[s EXCEPT !.verified = TRUE]})
  /\ Leave(r)
  /\ UNCHANGED <<row, blob, doms, domain, rel, hist, log, recs, assessed, made, calls, regime>>

----------------------------------------------------------------------------
(* Relationships *)
mayRelate(i, t, ty) ==
  /\ ty = "amends" => \A x \in Amends(i) : x.to = t
  /\ [from |-> i, to |-> t, type |-> ty] \notin rel

AddRelationRead(r) ==
  \E i, t \in Issuances, ty \in {"amends", "related_to"} :
    /\ i # t /\ Exists(i) /\ Exists(t) /\ mayRelate(i, t, ty)
    /\ Enter(r, Job("relate", "rel", i, None, {}, [from |-> i, to |-> t, type |-> ty]))

RemoveRelationRead(r) ==
  \E x \in rel : Enter(r, Job("unrelate", "rel", x.from, None, {}, x))

SaveRelation(r) ==
  /\ At(r, {"relate", "unrelate"}, "rel")
  /\ \E x \in {job[r].arg} :
       /\ rel' = IF job[r].op = "relate" THEN rel \cup {x} ELSE rel \ {x}
       /\ IF x.type = "amends" THEN Goto(r, "row") ELSE Leave(r)
  /\ UNCHANGED <<row, blob, doms, domain, src, hist, log, recs, assessed, made, calls, regime>>

\* The amendment columns of the row follow the relationship.
RelationRow(r) ==
  /\ At(r, {"relate", "unrelate"}, "row")
  /\ \E x \in {job[r].arg} :
       row' = IF Exists(x.from)
              THEN [row EXCEPT ![x.from].amend = IF job[r].op = "relate" THEN x.to ELSE None] ELSE row
  /\ Leave(r)
  /\ UNCHANGED <<blob, doms, domain, src, rel, hist, log, recs, assessed, made, calls, regime>>

----------------------------------------------------------------------------

\* No included issuance is left without an active domain.
mayClose(d) ==
  \A i \in Issuances : Exists(i) /\ row[i].dec = "included" /\ d \in doms[i]
    => \E o \in doms[i] \ {d} : domain[o] = "active"

\* createDomain and updateDomain
DomainRead(r) ==
  \E d \in Domains :
    /\ domain[d] = "active" => mayClose(d)
    /\ Enter(r, Job("domain", "save", d, None, {}, IF domain[d] = "active" THEN "inactive" ELSE "active"))

SaveDomain(r) ==
  /\ At(r, {"domain"}, "save")
  /\ domain' = Put(domain, job[r].i, job[r].arg)
  /\ Leave(r)
  /\ UNCHANGED <<row, blob, doms, src, rel, hist, log, recs, assessed, made, calls, regime>>

\* saveAssessment, as far as deleteIssuance looks at it
SaveAssessment(r) ==
  /\ job[r] = Idle /\ calls < Limit
  /\ (regime # "overlap") => \A q \in Requests : job[q] = Idle
  /\ \E i \in Issuances \ assessed : Exists(i) /\ assessed' = assessed \cup {i}
  /\ calls' = calls + 1
  /\ UNCHANGED <<row, blob, doms, domain, src, rel, hist, log, recs, made, job, regime>>

----------------------------------------------------------------------------
Init ==
  /\ \E c \in Starts :
       /\ row = c.row /\ doms = c.doms /\ domain = c.domain /\ src = c.src
       /\ blob = c.blob /\ rel = c.rel /\ made = c.made
       /\ hist = [i \in Issuances |-> IF c.row[i] = None THEN None ELSE c.row[i].life]
       /\ recs = [i \in Issuances |-> IF c.row[i] = None THEN None ELSE "pending"]
  /\ log = [i \in Issuances |-> None] /\ assessed = {}
  /\ job = [r \in Requests |-> Idle] /\ calls = 0 /\ regime \in Regimes

ReadStep(r) ==
  \/ CreateRead(r) \/ UpdateRead(r) \/ DecideRead(r) \/ DeleteRead(r) \/ UploadRead(r) \/ DetachRead(r)
  \/ AddSourceRead(r) \/ VerifyRead(r) \/ AddRelationRead(r) \/ RemoveRelationRead(r) \/ DomainRead(r)

WriteStep(r) ==
  \/ SaveRow(r) \/ Erase(r) \/ SyncAmendment(r) \/ SyncSource(r) \/ History(r) \/ RecordDecision(r)
  \/ UploadSource(r) \/ DetachSource(r) \/ Fallback(r) \/ AddSource(r) \/ AddSourceUrl(r)
  \/ VerifySource(r) \/ SaveRelation(r) \/ RelationRow(r) \/ SaveDomain(r)

Next == \E r \in Requests : ReadStep(r) \/ WriteStep(r) \/ SaveAssessment(r) \/ Crash(r)

Spec == Init /\ [][Next]_vars

----------------------------------------------------------------------------
(* Properties *)
AtRest == \A r \in Requests : job[r] = Idle

\* Rows, sources and relationships stay well formed.
IssuancesTypeOK ==
  /\ \A i \in Issuances : row[i] = None \/ row[i] \in Row
  /\ \A i \in Issuances : \A s, t \in src[i] : s.id = t.id => s = t
  /\ \A x \in rel : x.from # x.to
  /\ doms \in [Issuances -> SUBSET Domains]
  /\ domain \in [Domains -> {"absent", "active", "inactive"}]

\* In every regime, requests overlapping or dying included, an issuance in the
\* official register is in force and applicable, and is_active says so.
IncludedIsInForce ==
  \A i \in Issuances : Exists(i) =>
    /\ row[i].active = (row[i].life = "active")
    /\ row[i].dec = "included" => row[i].life = "active" /\ row[i].appl = "applicable"

\* While requests do not overlap, an included issuance keeps an active domain:
\* edits, decisions and updateDomain all look after it.
IncludedHasActiveDomain ==
  regime # "overlap" =>
    \A i \in Issuances : Exists(i) /\ row[i].dec = "included" => \E d \in doms[i] : domain[d] = "active"

\* While requests do not overlap, an included issuance has an identifiable
\* source, even when a request died between the row and its sources.
IncludedHasSource ==
  regime # "overlap" =>
    \A i \in Issuances : Exists(i) /\ row[i].dec = "included" => src[i] # {} \/ row[i].url # None

\* Between requests that ran to their end, at most one source is primary, and
\* it is the one whose URL the row shows.
PrimarySourceAgrees ==
  (regime = "serial" /\ AtRest) =>
    \A i \in Issuances : Exists(i) =>
      /\ Cardinality({s \in src[i] : s.primary}) <= 1
      /\ row[i].url # None => \E s \in src[i] : s.primary /\ s.url = row[i].url

\* Between requests that ran to their end, the amendment columns of a row and
\* its 'amends' relationship name the same issuance, which exists.
AmendmentAgrees ==
  (regime = "serial" /\ AtRest) =>
    \A i \in Issuances : Exists(i) =>
      /\ {x.to : x \in Amends(i)} = IF row[i].amend = None THEN {} ELSE {row[i].amend}
      /\ row[i].amend # None => Exists(row[i].amend)

\* Between requests that ran to their end, the last entry of the history is the
\* life cycle status the row has.
HistoryAgrees ==
  (regime = "serial" /\ AtRest) => \A i \in Issuances : Exists(i) => hist[i] = row[i].life

\* While requests do not overlap, an issuance enters the register only by a
\* recorded review decision, never through an edit of its data.
OnlyReviewIncludes ==
  [][\A i \in Issuances :
       regime # "overlap" /\ Exists(i)' /\ row'[i].dec = "included"
         /\ (Exists(i) => row[i].dec # "included")
       => \E r \in Requests : At(r, {"decide"}, "save")]_vars

\* The register holds what is in force, and rows, sources, amendments and history
\* agree, each under the regimes named in its part.
RegisterHolds ==
  /\ IssuancesTypeOK /\ IncludedIsInForce /\ IncludedHasActiveDomain /\ IncludedHasSource
  /\ PrimarySourceAgrees /\ AmendmentAgrees /\ HistoryAgrees
=============================================================================
