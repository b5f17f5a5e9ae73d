------------------------- MODULE TicketDesk_proofs -------------------------
(***************************************************************************)
(* What is said on a ticket and who gets to see it, and what the list of   *)
(* tickets shows, for every number of people, requests, comments, filters  *)
(* and searches.                                                           *)
(*                                                                         *)
(* ConvInv says what a request in flight may still rely on after it has    *)
(* read: the check of a mention holds of the ticket it was made on, an     *)
(* image a page showed belongs to the comment it was shown with, and a     *)
(* prepared answer was prepared from a pending escalation that nobody else *)
(* can have answered since.  ListInv says what a request for rows or       *)
(* counts is still good for, and that a change is either shown already or  *)
(* going to be asked about.                                                *)
(***************************************************************************)
EXTENDS TicketConversation, TicketListPage, FiniteSetTheorems, SequenceTheorems, NaturalsInduction,
        WellFoundedInduction, TLAPS

Statuses == Ended \cup {"open", "assigned", "in_progress"}
Tickets == [status : Statuses, requester : People, creator : People, owner : People \cup {Nobody}, overtime : BOOLEAN]
Focals == {f \in People : "escalation" \in Is[f]}
Escalations == [by : People, to : Focals, status : {"pending", "accepted", "returned", "cancelled"},
                proofs : 0..MaxProofs]
Images == {<<>>} \cup {<<n>> : n \in Nat}
Entries == [author : People, internal : BOOLEAN, images : Images]

(* A regular user is never the owner of a ticket.                          *)
StaffOwned(t) == t.owner # Nobody => ~isUser(t.owner)

RowsOK ==
  /\ tk \in Tickets /\ StaffOwned(tk)
  /\ esc \in Seq(Escalations)
  /\ comments \in Seq(Entries)

(* The rows of the two sequences have their fields.                        *)
LEMMA FieldsOfRows ==
  ASSUME NEW es \in Seq(Escalations), NEW cs \in Seq(Entries)
  PROVE  /\ Len(es) \in Nat /\ Len(cs) \in Nat
         /\ \A e \in 1..Len(es) : /\ es[e] \in Escalations /\ es[e].by \in People /\ es[e].to \in Focals
                                  /\ es[e].status \in {"pending", "accepted", "returned", "cancelled"}
                                  /\ es[e].proofs \in 0..MaxProofs
         /\ \A k \in 1..Len(cs) : /\ cs[k] \in Entries /\ cs[k].author \in People /\ cs[k].images \in Images
<1>1. \A e \in 1..Len(es) : es[e] \in Escalations
  BY ElementOfSeq
<1>2. \A x \in Escalations : /\ x.by \in People /\ x.to \in Focals /\ x.proofs \in 0..MaxProofs
                             /\ x.status \in {"pending", "accepted", "returned", "cancelled"}
  BY DEF Escalations
<1>3. \A k \in 1..Len(cs) : cs[k] \in Entries
  BY ElementOfSeq
<1>4. \A x \in Entries : x.author \in People /\ x.images \in Images
  BY DEF Entries
<1>5. Len(es) \in Nat /\ Len(cs) \in Nat
  OBVIOUS
<1> QED
  BY <1>1, <1>2, <1>3, <1>4, <1>5, Zenon

-----------------------------------------------------------------------------
(* Who sees the notes.                                                     *)

(* canViewInternalNotes as a function of the ticket and the escalations.   *)
Involved(es) ==
  IF es # <<>> /\ es[Len(es)].status \in {"pending", "accepted"} THEN {es[Len(es)].by, es[Len(es)].to} ELSE {}
MayView(p, t, es) ==
  /\ ~isUser(p)
  /\ \/ "settings" \in Is[p] \/ p \in {t.requester, t.owner} \/ p \in Involved(es)
     \/ t.creator = p /\ t.creator # t.requester

LEMMA ViewNow ==
  ASSUME NEW p, NEW t
  PROVE  canViewInternalNotes(p, t) <=> MayView(p, t, esc)
  BY DEF canViewInternalNotes, MayView, activeEscalation, Involved

(* The last of some positions.                                             *)
LEMMA LastPosition ==
  ASSUME NEW n \in Nat, NEW found \in SUBSET (1..n), found # {}
  PROVE  (CHOOSE e \in found : \A d \in found : d <= e) \in found
<1> DEFINE R == OpToRel(<, Nat)
           left == {k \in Nat : \E e \in found : k = n - e}
<1>1. IsWellFoundedOn(R, Nat)
  BY NatLessThanWellFounded
<1>2. \A x, y \in Nat : <<y, x>> \in R <=> y < x
  BY DEF OpToRel
<1>3. \A e \in found : e \in 1..n /\ n - e \in left
  OBVIOUS
<1>4. left \subseteq Nat /\ left # {}
  BY <1>3
<1> HIDE DEF R
<1>5. PICK k \in left : \A j \in left : ~ (<<j, k>> \in R)
  BY <1>1, <1>4, WFMin
<1>6. PICK e \in found : k = n - e
  OBVIOUS
<1>7. \A d \in found : d <= e
  <2> TAKE d \in found
  <2>1. n - d \in Nat /\ k \in Nat /\ ~ (n - d < k)
    BY <1>2, <1>3, <1>5
  <2>2. e \in 1..n /\ d \in 1..n
    BY <1>3
  <2> QED
    BY <1>6, <2>1, <2>2
<1> QED
  BY <1>6, <1>7

(* The owner a reader sees is a member of the staff as well.               *)
LEMMA FocalsAreStaff ==
  ASSUME NEW f \in Focals
  PROVE  f \in People /\ f # Nobody /\ ~isUser(f)
  BY PeopleAssumption DEF Focals, isUser

LEMMA SeenFits ==
  ASSUME RowsOK
  PROVE  Seen \in Tickets /\ StaffOwned(Seen)
<1> DEFINE accepted == {e \in 1..Len(esc) : esc[e].status = "accepted"}
           last == CHOOSE e \in accepted : \A d \in accepted : d <= e
<1>1. CASE accepted = {} \/ tk.status \in Ended
  BY <1>1 DEF Seen, RowsOK
<1>2. CASE ~(accepted = {} \/ tk.status \in Ended)
  <2>1. Len(esc) \in Nat /\ accepted \in SUBSET (1..Len(esc)) /\ accepted # {}
    BY <1>2 DEF RowsOK
  <2>2. last \in accepted
    BY <2>1, LastPosition
  <2>3. \A e \in accepted : esc[e].to \in Focals
    BY FieldsOfRows, Zenon DEF RowsOK
  <2>4. PICK f \in Focals : f = esc[last].to
    BY <2>2, <2>3, Zenon
  <2>5. Seen = [tk EXCEPT !.owner = esc[last].to]
    BY <1>2 DEF Seen
  <2>6. Seen = [tk EXCEPT !.owner = f]
    BY <2>4, <2>5, Zenon
  <2>7. f \in People /\ ~isUser(f)
    BY FocalsAreStaff
  <2> QED
    BY <2>6, <2>7 DEF RowsOK, Tickets, StaffOwned
<1> QED
  BY <1>1, <1>2

(* Whatever a listing shows can be opened: this is a matter of the two     *)
(* conditions alone.                                                       *)
LEMMA ListedCanBeOpened ==
  ASSUME RowsOK
  PROVE  ListedIsReadable
<1> SUFFICES ASSUME Seen.owner = tk.owner, NEW p \in People, NEW l \in Lists, listed(p, l)
             PROVE  mayRead(p, Seen)
  BY DEF ListedIsReadable
<1>1. Seen = tk
  <2>1. PICK o \in {Seen.owner} : Seen = tk \/ Seen = [tk EXCEPT !.owner = o]
    <3> DEFINE accepted == {e \in 1..Len(esc) : esc[e].status = "accepted"}
               last == CHOOSE e \in accepted : \A d \in accepted : d <= e
    <3>1. CASE accepted = {} \/ tk.status \in Ended
      BY <3>1 DEF Seen
    <3>2. CASE ~(accepted = {} \/ tk.status \in Ended)
      <4>1. Seen = [tk EXCEPT !.owner = esc[last].to]
        BY <3>2 DEF Seen
      <4>2. PICK f : f = esc[last].to
        OBVIOUS
      <4>3. Seen = [tk EXCEPT !.owner = f]
        BY <4>1, <4>2, Zenon
      <4>4. Seen.owner = f
        BY <4>3 DEF RowsOK, Tickets
      <4> QED
        BY <4>3, <4>4
    <3> QED
      BY <3>1, <3>2
  <2>2. o = tk.owner
    OBVIOUS
  <2>3. tk \in Tickets
    BY DEF RowsOK
  <2> QED
    BY <2>1, <2>2, <2>3 DEF Tickets
<1>2. overtimeReadScope(p)
  BY DEF listed
<1>3. CASE tk.overtime
  BY <1>1, <1>2, <1>3 DEF mayRead, overtimeReadScope
<1>4. CASE ~tk.overtime
  <2>1. \/ "all" \in Is[p] \/ own(p, tk) \/ participant(p)
    BY <1>4 DEF listed, Lists, own, participant
  <2> QED
    BY <1>1, <1>4, <2>1 DEF mayRead
<1> QED
  BY <1>3, <1>4

-----------------------------------------------------------------------------
(* The invariant                                                           *)

(* What a comment or a note in flight holds: its ticket as it was read, and *)
(* the state in which the person it mentions was allowed to see it.        *)
Says == [op : {"store", "mention"}, who : People, internal : BOOLEAN, mention : People \cup {Nobody},
         images : 0..1, ticket : Tickets, checked : [ticket : Tickets, escs : Seq(Escalations)]]
SayOK(c) ==
  /\ c \in Says /\ StaffOwned(c.ticket)
  /\ c.op = "store" /\ c.mention # Nobody => MayView(c.mention, c.checked.ticket, c.checked.escs)

(* The replacement of an image of an existing comment.                     *)
Replaces == [op : {"replace"}, who : People, comment : Nat, path : Nat]
ReplaceOK(c, n) == c \in Replaces /\ c.comment \in 1..n

(* The answer to an escalation or a proof for it, prepared while it was    *)
(* pending; under the named lock nobody else has answered it since.        *)
Answers == [op : named \cup {"proof"}, rec : Nat, entity : Escalations, read : Escalations]
Outcome(op) == IF op = "accept" THEN "accepted" ELSE IF op = "return" THEN "returned" ELSE "pending"
AnswerOK(c, es) ==
  /\ c \in Answers /\ c.rec \in 1..Len(es)
  /\ c.read.status = "pending" /\ c.entity.status = Outcome(c.op)
  /\ c.op \in named => es[c.rec].status \in {"pending", "cancelled"}

CallOK(c, n, es) == c = NoCall \/ SayOK(c) \/ ReplaceOK(c, n) \/ AnswerOK(c, es)

CallsOK ==
  /\ asking = [s \in Slots |-> asking[s]]
  /\ \A s \in Slots : CallOK(asking[s], Len(comments), esc)
  /\ \A s, t \in Slots : asking[s].op \in named /\ asking[t].op \in named => s = t

(* A file belongs to a comment that shows it now or had it replaced.       *)
BelongsTo(f, k, cs, rs) == cs[k].images = <<f>> \/ \E r \in rs : r.comment = k /\ f \in {r.old, r.new}

FilesFit(cs, rs, files, next) ==
  /\ next \in Nat \ {0} /\ files \in SUBSET (1..(next - 1))
  /\ rs \in SUBSET [comment : 1..Len(cs), old : Nat, new : Nat]
  /\ \A f \in files : \E k \in 1..Len(cs) : BelongsTo(f, k, cs, rs)
  /\ \A k \in 1..Len(cs) : \A f \in Nat : BelongsTo(f, k, cs, rs) => f \in 1..(next - 1)
  /\ \A k, l \in 1..Len(cs) : \A f \in Nat : BelongsTo(f, k, cs, rs) /\ BelongsTo(f, l, cs, rs) => k = l
  /\ \A r, q \in rs : r.old = q.old => r = q
  /\ \A r \in rs : \A k \in 1..Len(cs) : cs[k].images # <<r.old>>

ConvInv == RowsOK /\ CallsOK /\ FilesFit(comments, replaced, disk, nextFile) /\ NotesStayInside

(* An image file of the comments as the code finds it.                     *)
LEMMA Shown ==
  ASSUME NEW im \in Images, NEW f
  PROVE  (\E x \in 1..Len(im) : im[x] = f) <=> im = <<f>> /\ f \in Nat
<1>1. CASE im = <<>>
  BY <1>1
<1>2. ASSUME NEW n \in Nat, im = <<n>>
      PROVE  (\E x \in 1..Len(im) : im[x] = f) <=> im = <<f>> /\ f \in Nat
  BY <1>2
<1> QED
  BY <1>1, <1>2 DEF Images

LEMMA FilesTraceable ==
  ASSUME RowsOK, FilesFit(comments, replaced, disk, nextFile)
  PROVE  ImagesTraceable /\ ReplacedOnce
<1>1. ASSUME NEW f \in disk
      PROVE  Cardinality(referencedBy(f)) = 1
  <2>1. f \in Nat
    BY DEF FilesFit
  <2>2. \A k \in 1..Len(comments) :
          (\E x \in 1..Len(comments[k].images) : comments[k].images[x] = f) <=> comments[k].images = <<f>>
    <3> TAKE k \in 1..Len(comments)
    <3>1. PICK im \in Images : im = comments[k].images
      BY FieldsOfRows, Zenon DEF RowsOK
    <3>2. (\E x \in 1..Len(im) : im[x] = f) <=> im = <<f>>
      BY <2>1, Shown
    <3> QED
      BY <3>1, <3>2, Zenon
  <2>3. PICK k \in 1..Len(comments) : BelongsTo(f, k, comments, replaced)
    BY DEF FilesFit
  <2>4. \A l \in 1..Len(comments) : BelongsTo(f, l, comments, replaced) => l = k
    BY <2>1, <2>3 DEF FilesFit
  <2>5. \A r \in replaced : r.comment \in 1..Len(comments)
    BY DEF FilesFit
  <2> DEFINE now == {l \in 1..Len(comments) : comments[l].images = <<f>>}
             past == {r.comment : r \in {r \in replaced : f \in {r.old, r.new}}}
  <2>6. referencedBy(f) = IF now # {} THEN now ELSE past
    <3>1. {l \in 1..Len(comments) : \E x \in 1..Len(comments[l].images) : comments[l].images[x] = f} = now
      BY <2>2
    <3> QED
      BY <3>1, Zenon DEF referencedBy
  <2>7. now \subseteq {k} /\ past \subseteq {k}
    <3>1. now \subseteq {k}
      BY <2>4 DEF BelongsTo
    <3>2. past \subseteq {k}
      BY <2>4, <2>5 DEF BelongsTo
    <3> QED
      BY <3>1, <3>2
  <2>8. k \in now \/ k \in past
    BY <2>3 DEF BelongsTo
  <2>9. referencedBy(f) = {k}
    BY <2>6, <2>7, <2>8
  <2> QED
    BY <2>9, FS_Singleton
<1>2. ReplacedOnce
  BY DEF FilesFit, ReplacedOnce
<1> QED
  BY <1>1, <1>2 DEF ImagesTraceable

LEMMA ConvInvHolds ==
  ASSUME ConvInv
  PROVE  ConversationHolds
<1>1. ConvTypeOK
  <2>1. /\ \A e \in 1..Len(esc) : esc[e].status \in {"pending", "accepted", "returned", "cancelled"}
                                   /\ esc[e].proofs \in 0..MaxProofs
        /\ \A k \in 1..Len(comments) : comments[k].author \in People
    BY FieldsOfRows, Zenon DEF ConvInv, RowsOK
  <2> QED
    BY <2>1 DEF ConvInv, RowsOK, Tickets, FilesFit, ConvTypeOK
<1> QED
  BY <1>1, ListedCanBeOpened, FilesTraceable DEF ConvInv, ConversationHolds

LEMMA ConvStarts ==
  ASSUME ConvInit
  PROVE  ConvInv
<1>1. RowsOK
  BY DEF ConvInit, RowsOK, Tickets, Statuses, StaffOwned
<1>2. CallsOK
  BY DEF ConvInit, CallsOK, CallOK, NoCall, named
<1>3. FilesFit(comments, replaced, disk, nextFile)
  BY DEF ConvInit, FilesFit
<1> QED
  BY <1>1, <1>2, <1>3 DEF ConvInit, ConvInv, NotesStayInside

-----------------------------------------------------------------------------
(* Files                                                                   *)

LEMMA ShowsOnly ==
  ASSUME NEW f, NEW g
  PROVE  (<<f>> = <<g>>) <=> (f = g)
  OBVIOUS

(* A comment without an image, or with the next file.                      *)
LEMMA StoredFits ==
  ASSUME NEW cs \in Seq(Entries), NEW rs, NEW files, NEW next, FilesFit(cs, rs, files, next),
         NEW e \in Entries, e.images = <<>> \/ e.images = <<next>>
  PROVE  /\ e.images = <<>> => FilesFit(Append(cs, e), rs, files, next)
         /\ e.images = <<next>> => FilesFit(Append(cs, e), rs, files \cup {next}, next + 1)
<1> DEFINE n == Len(cs)
           ds == Append(cs, e)
<1>1. /\ Len(ds) = n + 1 /\ n \in Nat
      /\ \A k \in 1..n : ds[k] = cs[k]
      /\ ds[n + 1] = e
  BY AppendProperties
<1> HIDE DEF ds
<1>2. next \in Nat \ {0} /\ \A r \in rs : r.comment \in 1..n
  BY DEF FilesFit
<1>3. \A k \in 1..n : \A f \in Nat : BelongsTo(f, k, ds, rs) <=> BelongsTo(f, k, cs, rs)
  BY <1>1 DEF BelongsTo
<1>4. \A f \in Nat : BelongsTo(f, n + 1, ds, rs) <=> e.images = <<f>>
  <2> TAKE f \in Nat
  <2>1. ~ \E r \in rs : r.comment = n + 1
    BY <1>1, <1>2
  <2>2. ds[n + 1].images = e.images
    BY <1>1
  <2> QED
    BY <2>1, <2>2 DEF BelongsTo
<1>5. \A k \in 1..Len(ds) : k \in 1..n \/ k = n + 1
  BY <1>1
<1>6. \A f \in Nat : \A k \in 1..n : BelongsTo(f, k, ds, rs) => f \in 1..(next - 1)
  BY <1>3 DEF FilesFit
<1>7. rs \in SUBSET [comment : 1..Len(ds), old : Nat, new : Nat]
  BY <1>1 DEF FilesFit
<1>8. \A r \in rs : r.old \in 1..(next - 1)
  <2> TAKE r \in rs
  <2>1. r.comment \in 1..n /\ r.old \in Nat
    BY DEF FilesFit
  <2>2. BelongsTo(r.old, r.comment, cs, rs)
    BY DEF BelongsTo
  <2> QED
    BY <2>1, <2>2 DEF FilesFit
<1>9. \A r \in rs : \A k \in 1..n : ds[k].images # <<r.old>>
  BY <1>1 DEF FilesFit
<1>10. \A r, q \in rs : r.old = q.old => r = q
  BY DEF FilesFit
<1>11. CASE e.images = <<>>
  <2>1. \A f \in Nat : ~ BelongsTo(f, n + 1, ds, rs)
    BY <1>4, <1>11
  <2>2. \A f \in files : \E k \in 1..Len(ds) : BelongsTo(f, k, ds, rs)
    BY <1>1, <1>3 DEF FilesFit
  <2>3. \A k \in 1..Len(ds) : \A f \in Nat : BelongsTo(f, k, ds, rs) => f \in 1..(next - 1)
    BY <1>5, <1>6, <2>1
  <2>4. \A k, l \in 1..Len(ds) : \A f \in Nat : BelongsTo(f, k, ds, rs) /\ BelongsTo(f, l, ds, rs) => k = l
    BY <1>3, <1>5, <2>1 DEF FilesFit
  <2>5. \A r \in rs : \A k \in 1..Len(ds) : ds[k].images # <<r.old>>
    BY <1>1, <1>5, <1>9, <1>11
  <2>6. files \in SUBSET (1..(next - 1))
    BY DEF FilesFit
  <2>7. FilesFit(ds, rs, files, next)
    BY <1>2, <1>7, <1>10, <2>2, <2>3, <2>4, <2>5, <2>6 DEF FilesFit
  <2>8. e.images # <<next>>
    BY <1>11
  <2> QED
    BY <2>7, <2>8 DEF ds
<1>12. CASE e.images = <<next>>
  <2>1. \A f \in Nat : BelongsTo(f, n + 1, ds, rs) <=> f = next
    BY <1>2, <1>4, <1>12
  <2>2. \A f \in files \cup {next} : \E k \in 1..Len(ds) : BelongsTo(f, k, ds, rs)
    BY <1>1, <1>2, <1>3, <2>1 DEF FilesFit
  <2>3. \A k \in 1..Len(ds) : \A f \in Nat : BelongsTo(f, k, ds, rs) => f \in 1..(next + 1 - 1)
    BY <1>2, <1>5, <1>6, <2>1
  <2>4. \A k, l \in 1..Len(ds) : \A f \in Nat : BelongsTo(f, k, ds, rs) /\ BelongsTo(f, l, ds, rs) => k = l
    <3> TAKE k \in 1..Len(ds), l \in 1..Len(ds)
    <3> TAKE f \in Nat
    <3>1. CASE k \in 1..n /\ l \in 1..n
      BY <1>3, <3>1 DEF FilesFit
    <3>2. CASE k = n + 1 /\ l = n + 1
      BY <3>2
    <3>3. CASE k \in 1..n /\ l = n + 1
      BY <1>2, <1>6, <2>1, <3>3
    <3>4. CASE k = n + 1 /\ l \in 1..n
      BY <1>2, <1>6, <2>1, <3>4
    <3> QED
      BY <1>5, <3>1, <3>2, <3>3, <3>4
  <2>5. \A r \in rs : \A k \in 1..Len(ds) : ds[k].images # <<r.old>>
    <3> TAKE r \in rs
    <3> TAKE k \in 1..Len(ds)
    <3>1. r.old # next
      BY <1>2, <1>8
    <3>2. CASE k \in 1..n
      BY <1>9, <3>2
    <3>3. CASE k = n + 1
      BY <1>1, <1>12, <3>1, <3>3, ShowsOnly
    <3> QED
      BY <1>5, <3>2, <3>3
  <2>6. files \cup {next} \in SUBSET (1..(next + 1 - 1)) /\ next + 1 \in Nat \ {0}
    BY <1>2 DEF FilesFit
  <2>7. FilesFit(ds, rs, files \cup {next}, next + 1)
    BY <1>7, <1>10, <2>2, <2>3, <2>4, <2>5, <2>6 DEF FilesFit
  <2>8. e.images # <<>>
    BY <1>12
  <2> QED
    BY <2>7, <2>8 DEF ds
<1> QED
  BY <1>11, <1>12

(* The number of a file that could not be stored is not used again.        *)
LEMMA SkippedFits ==
  ASSUME NEW cs, NEW rs, NEW files, NEW next, FilesFit(cs, rs, files, next)
  PROVE  FilesFit(cs, rs, files, next + 1)
<1>1. next \in Nat \ {0} /\ next + 1 \in Nat \ {0} /\ (1..(next - 1)) \subseteq 1..(next + 1 - 1)
  BY DEF FilesFit
<1> QED
  BY <1>1 DEF FilesFit

(* The next file takes the place of the one shown.                         *)
LEMMA ReplacedFits ==
  ASSUME NEW cs \in Seq(Entries), NEW rs, NEW files, NEW next, FilesFit(cs, rs, files, next),
         NEW k \in 1..Len(cs), NEW p \in Nat, cs[k].images = <<p>>,
         NEW ds \in Seq(Entries), Len(ds) = Len(cs), ds[k].images = <<next>>,
         \A l \in 1..Len(cs) : l # k => ds[l] = cs[l]
  PROVE  FilesFit(ds, rs \cup {[comment |-> k, old |-> p, new |-> next]}, files \cup {next}, next + 1)
<1> DEFINE n == Len(cs)
           x == [comment |-> k, old |-> p, new |-> next]
           rs2 == rs \cup {x}
<1>1. next \in Nat \ {0} /\ n \in Nat
  BY DEF FilesFit
<1>2. BelongsTo(p, k, cs, rs) /\ p \in 1..(next - 1)
  BY DEF BelongsTo, FilesFit
<1>3. x.comment = k /\ x.old = p /\ x.new = next
  OBVIOUS
<1> HIDE DEF x
<1>4. \A l \in 1..n : \A f \in Nat : BelongsTo(f, l, ds, rs2) <=> BelongsTo(f, l, cs, rs) \/ (l = k /\ f = next)
  <2> TAKE l \in 1..n
  <2> TAKE f \in Nat
  <2>1. CASE l = k
    <3>1. cs[l].images = <<f>> <=> f = p
      BY <2>1
    <3>2. ds[l].images = <<f>> <=> f = next
      BY <2>1
    <3>3. (\E r \in rs2 : r.comment = l /\ f \in {r.old, r.new})
            <=> (\E r \in rs : r.comment = l /\ f \in {r.old, r.new}) \/ f \in {p, next}
      BY <1>3, <2>1
    <3> QED
      BY <2>1, <3>1, <3>2, <3>3 DEF BelongsTo
  <2>2. CASE l # k
    <3>1. ds[l] = cs[l]
      BY <2>2
    <3>2. (\E r \in rs2 : r.comment = l /\ f \in {r.old, r.new}) <=> (\E r \in rs : r.comment = l /\ f \in {r.old, r.new})
      BY <1>3, <2>2
    <3> QED
      BY <2>2, <3>1, <3>2 DEF BelongsTo
  <2> QED
    BY <2>1, <2>2
<1>5. \A l \in 1..n : \A f \in Nat : BelongsTo(f, l, cs, rs) => f \in 1..(next - 1)
  BY DEF FilesFit
<1>6. rs2 \in SUBSET [comment : 1..Len(ds), old : Nat, new : Nat]
  BY <1>1 DEF FilesFit, x
<1>7. \A f \in files \cup {next} : \E l \in 1..Len(ds) : BelongsTo(f, l, ds, rs2)
  <2>1. files \in SUBSET Nat
    BY <1>1 DEF FilesFit
  <2>2. \A f \in files : \E l \in 1..n : BelongsTo(f, l, cs, rs)
    BY DEF FilesFit
  <2> QED
    BY <1>1, <1>4, <2>1, <2>2
<1>8. \A l \in 1..Len(ds) : \A f \in Nat : BelongsTo(f, l, ds, rs2) => f \in 1..(next + 1 - 1)
  BY <1>1, <1>4, <1>5
<1>9. \A l, m \in 1..Len(ds) : \A f \in Nat : BelongsTo(f, l, ds, rs2) /\ BelongsTo(f, m, ds, rs2) => l = m
  <2>1. \A l, m \in 1..n : \A f \in Nat : BelongsTo(f, l, cs, rs) /\ BelongsTo(f, m, cs, rs) => l = m
    BY DEF FilesFit
  <2>2. \A l \in 1..n : ~ BelongsTo(next, l, cs, rs)
    BY <1>1, <1>5
  <2> QED
    BY <1>4, <2>1, <2>2
<1>10. \A r \in rs : r.old # p /\ r.old \in 1..(next - 1)
  <2> TAKE r \in rs
  <2>1. cs[k].images # <<r.old>> /\ r.comment \in 1..n /\ r.old \in Nat
    BY DEF FilesFit
  <2>2. BelongsTo(r.old, r.comment, cs, rs)
    BY DEF BelongsTo
  <2> QED
    BY <1>5, <2>1, <2>2
<1>11. \A r, q \in rs2 : r.old = q.old => r = q
  <2>1. \A r, q \in rs : r.old = q.old => r = q
    BY DEF FilesFit
  <2> QED
    BY <1>3, <1>10, <2>1
<1>12. \A r \in rs2 : \A l \in 1..Len(ds) : ds[l].images # <<r.old>>
  <2> TAKE r \in rs2
  <2> TAKE l \in 1..Len(ds)
  <2>1. r.old \in 1..(next - 1)
    BY <1>2, <1>3, <1>10
  <2>2. CASE l = k
    BY <1>1, <2>1, <2>2, ShowsOnly
  <2>3. CASE l # k /\ r \in rs
    BY <2>3 DEF FilesFit
  <2>4. CASE l # k /\ r = x
    <3>1. ASSUME ds[l].images = <<p>>
          PROVE  FALSE
      <4>1. cs[l].images = <<p>>
        BY <2>4, <3>1
      <4>2. BelongsTo(p, l, cs, rs)
        BY <4>1 DEF BelongsTo
      <4> QED
        BY <1>2, <2>4, <4>2 DEF FilesFit
    <3> QED
      BY <1>3, <2>4, <3>1
  <2> QED
    BY <2>2, <2>3, <2>4
<1>13. files \cup {next} \in SUBSET (1..(next + 1 - 1)) /\ next + 1 \in Nat \ {0}
  BY <1>1 DEF FilesFit
<1> HIDE DEF rs2
<1>14. FilesFit(ds, rs2, files \cup {next}, next + 1)
  BY <1>6, <1>7, <1>8, <1>9, <1>11, <1>12, <1>13 DEF FilesFit
<1> QED
  BY <1>14 DEF rs2, x

-----------------------------------------------------------------------------
(* Requests in flight                                                      *)

LEMMA StillOK ==
  ASSUME NEW c, NEW n \in Nat, NEW m \in Nat, n <= m,
         NEW es \in Seq(Escalations), NEW fs \in Seq(Escalations), Len(es) <= Len(fs),
         c.op \in named =>
           \A e \in 1..Len(es) : es[e].status \in {"pending", "cancelled"} => fs[e].status \in {"pending", "cancelled"},
         CallOK(c, n, es)
  PROVE  CallOK(c, m, fs)
<1>1. ReplaceOK(c, n) => ReplaceOK(c, m)
  BY DEF ReplaceOK
<1>2. AnswerOK(c, es) => AnswerOK(c, fs)
  <2>1. Len(es) \in Nat /\ Len(fs) \in Nat
    OBVIOUS
  <2> QED
    BY <2>1 DEF AnswerOK
<1> QED
  BY <1>1, <1>2 DEF CallOK

(* One request goes on and the others hold what they held.                 *)
LEMMA OneGoesOn ==
  ASSUME CallsOK, NEW s \in Slots, NEW c, asking' = [asking EXCEPT ![s] = c],
         CallOK(c, Len(comments'), esc'),
         \A t \in Slots : t # s => CallOK(asking[t], Len(comments'), esc'),
         c.op \in named => \A t \in Slots : t # s => asking[t].op \notin named
  PROVE  CallsOK'
<1>1. /\ asking' = [t \in Slots |-> asking'[t]]
      /\ \A t \in Slots : asking'[t] = IF t = s THEN c ELSE asking[t]
  BY DEF CallsOK
<1>2. \A t \in Slots : CallOK(asking'[t], Len(comments'), esc')
  BY <1>1, Zenon
<1>3. \A t, u \in Slots : asking'[t].op \in named /\ asking'[u].op \in named => t = u
  <2> SUFFICES ASSUME NEW t \in Slots, NEW u \in Slots, asking'[t].op \in named, asking'[u].op \in named, t # u
               PROVE  FALSE
    BY Zenon
  <2>1. CASE t = s
    BY <1>1, <2>1, Zenon
  <2>2. CASE u = s
    BY <1>1, <2>2, Zenon
  <2>3. CASE t # s /\ u # s
    BY <1>1, <2>3, Zenon DEF CallsOK
  <2> QED
    BY <2>1, <2>2, <2>3, Zenon
<1> QED
  BY <1>1, <1>2, <1>3, Zenon DEF CallsOK

(* A request that only reads, checks or ends.                              *)
LEMMA OneReads ==
  ASSUME ConvInv, NEW s \in Slots, NEW c, asking' = [asking EXCEPT ![s] = c],
         UNCHANGED <<tk, esc, chat, sent>>,
         CallOK(c, Len(comments), esc),
         c.op \in named => \A t \in Slots : t # s => asking[t].op \notin named
  PROVE  ConvInv'
<1>1. tk' = tk /\ esc' = esc /\ comments' = comments /\ replaced' = replaced /\ disk' = disk /\ nextFile' = nextFile /\ sent' = sent
  BY DEF chat
<1>2. RowsOK'
  BY <1>1 DEF ConvInv, RowsOK
<1>3. FilesFit(comments, replaced, disk, nextFile)'
  BY <1>1, Zenon DEF ConvInv
<1>4. \A t \in Slots : CallOK(asking[t], Len(comments'), esc')
  BY <1>1, Zenon DEF ConvInv, CallsOK
<1>5. CallOK(c, Len(comments'), esc')
  BY <1>1, Zenon
<1>6. CallsOK'
  BY <1>4, <1>5, OneGoesOn DEF ConvInv
<1> QED
  BY <1>1, <1>2, <1>3, <1>6 DEF ConvInv, NotesStayInside

LEMMA NoCallOK ==
  ASSUME NEW n, NEW es
  PROVE  CallOK(NoCall, n, es) /\ NoCall.op \notin named
  BY DEF CallOK, NoCall, named

LEMMA AsItIs ==
  ASSUME RowsOK
  PROVE  asItIs \in [ticket : Tickets, escs : Seq(Escalations)]
  BY SeenFits DEF asItIs, RowsOK

LEMMA CommentReadStep ==
  ASSUME ConvInv, NEW s \in Slots, NEW p \in People, CommentRead(s, p)
  PROVE  ConvInv'
<1>1. PICK internal \in BOOLEAN, mention \in {Nobody} \cup (People \ {p}), images \in 0..1 :
        ConvBegin(s, [op |-> IF mention = Nobody THEN "store" ELSE "mention", who |-> p, internal |-> internal,
                      mention |-> mention, images |-> images, ticket |-> Seen, checked |-> asItIs])
  BY DEF CommentRead
<1>2. PICK op \in {"store", "mention"} : op = IF mention = Nobody THEN "store" ELSE "mention"
  OBVIOUS
<1>3. PICK t \in Tickets, k \in [ticket : Tickets, escs : Seq(Escalations)] : t = Seen /\ k = asItIs /\ StaffOwned(t)
  BY SeenFits, AsItIs DEF ConvInv
<1>4. PICK c : c = [op |-> op, who |-> p, internal |-> internal, mention |-> mention, images |-> images, ticket |-> t, checked |-> k]
  OBVIOUS
<1>5. asking' = [asking EXCEPT ![s] = c]
  BY <1>1, <1>2, <1>3, <1>4, Zenon DEF ConvBegin
<1>6. c \in Says /\ c.op = op /\ c.ticket = t /\ c.mention = mention
  BY <1>4 DEF Says
<1>7. SayOK(c) /\ c.op \notin named
  BY <1>2, <1>3, <1>6 DEF SayOK, named
<1>8. UNCHANGED <<tk, esc, chat, sent>>
  BY DEF CommentRead
<1> QED
  BY <1>5, <1>7, <1>8, OneReads DEF CallOK

(* What kind of request an operation belongs to.                           *)
LEMMA KindOfCall ==
  ASSUME NEW c, NEW n, NEW es, CallOK(c, n, es)
  PROVE  /\ c.op \in {"store", "mention"} => SayOK(c)
         /\ c.op = "replace" => ReplaceOK(c, n)
         /\ c.op \in named \cup {"proof"} => AnswerOK(c, es)
<1>1. c = NoCall => c.op = "none"
  BY DEF NoCall
<1>2. SayOK(c) => c.op \in {"store", "mention"}
  BY DEF SayOK, Says
<1>3. ReplaceOK(c, n) => c.op = "replace"
  BY DEF ReplaceOK, Replaces
<1>4. AnswerOK(c, es) => c.op \in named \cup {"proof"}
  BY DEF AnswerOK, Answers
<1> QED
  BY <1>1, <1>2, <1>3, <1>4 DEF CallOK, named

LEMMA CallAt ==
  ASSUME ConvInv, NEW s \in Slots
  PROVE  /\ asking[s].op \in {"store", "mention"} => SayOK(asking[s])
         /\ asking[s].op = "replace" => ReplaceOK(asking[s], Len(comments))
         /\ asking[s].op \in named \cup {"proof"} => AnswerOK(asking[s], esc)
<1>1. CallOK(asking[s], Len(comments), esc)
  BY DEF ConvInv, CallsOK
<1> QED
  BY <1>1, KindOfCall, Zenon

LEMMA CheckMentionStep ==
  ASSUME ConvInv, NEW s \in Slots, CheckMention(s)
  PROVE  ConvInv'
<1>1. PICK c : c = asking[s]
  OBVIOUS
<1>2. SayOK(c) /\ c \in Says
  BY <1>1, CallAt DEF CheckMention, SayOK
<1>3. PICK k \in [ticket : Tickets, escs : Seq(Escalations)] : k = asItIs
  BY AsItIs DEF ConvInv
<1>4. PICK d : d = [c EXCEPT !.op = "store", !.checked = k]
  OBVIOUS
<1>5. \/ asking' = [asking EXCEPT ![s] = NoCall]
      \/ asking' = [asking EXCEPT ![s] = d] /\ canViewInternalNotes(c.mention, Seen)
  <2>1. asking' = [asking EXCEPT ![s] =
                     IF mayRead(c.who, Seen) /\ canViewInternalNotes(c.who, Seen) /\ mentionCandidate(c.mention, c.who)
                     THEN d ELSE NoCall]
    BY <1>1, <1>3, <1>4, Zenon DEF CheckMention
  <2> QED
    BY <2>1 DEF mentionCandidate
<1>6. UNCHANGED <<tk, esc, chat, sent>>
  BY DEF CheckMention
<1>7. CASE asking' = [asking EXCEPT ![s] = NoCall]
  BY <1>6, <1>7, NoCallOK, OneReads
<1>8. CASE asking' = [asking EXCEPT ![s] = d] /\ canViewInternalNotes(c.mention, Seen)
  <2>1. d \in Says /\ d.op = "store" /\ d.ticket = c.ticket /\ d.mention = c.mention /\ d.checked = k
    BY <1>2, <1>4 DEF Says
  <2>2. MayView(c.mention, k.ticket, k.escs)
    <3>1. k.ticket = Seen /\ k.escs = esc
      BY <1>3 DEF asItIs
    <3> QED
      BY <1>8, <3>1, ViewNow, Zenon
  <2>3. SayOK(d) /\ d.op \notin named
    BY <1>2, <2>1, <2>2 DEF SayOK, named
  <2> QED
    BY <1>6, <1>8, <2>3, OneReads DEF CallOK
<1> QED
  BY <1>5, <1>7, <1>8

(* Whoever hears of a note may read the notes, or the ticket or its        *)
(* escalations have changed since the note was begun.                      *)
LEMMA HeardInside ==
  ASSUME ConvInv, NEW c, SayOK(c), NEW p, p \in (noteRecipients(c) \cup {c.mention}) \ {Nobody}, c.op = "store",
         c.ticket = Seen, c.checked = asItIs
  PROVE  canViewInternalNotes(p, Seen)
<1>1. StaffOwned(Seen) /\ Seen \in Tickets /\ c.ticket \in Tickets
  BY SeenFits DEF ConvInv, SayOK, Says
<1>2. CASE p = c.ticket.owner
  BY <1>1, <1>2 DEF canViewInternalNotes, StaffOwned
<1>3. CASE c.ticket.creator # c.ticket.requester /\ ~isUser(c.ticket.creator) /\ p = c.ticket.creator
  BY <1>3 DEF canViewInternalNotes
<1>4. CASE p = c.mention
  <2>1. MayView(p, c.checked.ticket, c.checked.escs)
    BY <1>4 DEF SayOK
  <2>2. c.checked.ticket = Seen /\ c.checked.escs = esc
    BY DEF asItIs
  <2> QED
    BY <2>1, <2>2, ViewNow, Zenon
<1> QED
  BY <1>2, <1>3, <1>4 DEF noteRecipients

LEMMA NotesHeard ==
  ASSUME ConvInv, NEW s \in Slots, StoreComment(s)
  PROVE  NotesStayInside'
<1>1. PICK c : c = asking[s]
  OBVIOUS
<1>2. SayOK(c) /\ c.op = "store"
  BY <1>1, CallAt DEF StoreComment
<1> DEFINE notified == reached((noteRecipients(c) \cup {c.mention}) \ {Nobody})
           late == c.ticket # Seen \/ c.checked # asItIs
           new == {[inside |-> canViewInternalNotes(p, Seen), moved |-> late] : p \in notified}
<1>3. sent' = sent \/ sent' = sent \cup new
  <2>1. sent' = IF c.internal THEN sent \cup new ELSE sent
    BY <1>1, Zenon DEF StoreComment
  <2> QED
    BY <2>1
<1>4. \A n \in new : n.inside \/ n.moved
  <2> TAKE n \in new
  <2>1. PICK p \in notified : n = [inside |-> canViewInternalNotes(p, Seen), moved |-> late]
    OBVIOUS
  <2>2. p \in (noteRecipients(c) \cup {c.mention}) \ {Nobody}
    BY DEF reached
  <2>3. canViewInternalNotes(p, Seen) \/ late
    BY <1>2, <2>2, HeardInside
  <2>4. PICK i \in BOOLEAN, m \in BOOLEAN : i = canViewInternalNotes(p, Seen) /\ m = late
    BY Zenon DEF canViewInternalNotes
  <2>5. n = [inside |-> i, moved |-> m] /\ (i \/ m)
    BY <2>1, <2>3, <2>4, Zenon
  <2> QED
    BY <2>5
<1>5. \A n \in sent : n.inside \/ n.moved
  BY DEF ConvInv, NotesStayInside
<1>6. \A n \in sent' : n.inside \/ n.moved
  <2> HIDE DEF new
  <2> QED
    BY <1>3, <1>4, <1>5, Zenon
<1> QED
  BY <1>6, Zenon DEF NotesStayInside

LEMMA StoreCommentStep ==
  ASSUME ConvInv, NEW s \in Slots, StoreComment(s)
  PROVE  ConvInv'
<1>1. PICK c : c = asking[s]
  OBVIOUS
<1>2. SayOK(c) /\ c \in Says /\ c.who \in People /\ c.internal \in BOOLEAN /\ c.images \in 0..1
  BY <1>1, CallAt DEF StoreComment, SayOK, Says
<1>3. nextFile \in Nat /\ comments \in Seq(Entries) /\ esc \in Seq(Escalations)
  BY DEF ConvInv, FilesFit, RowsOK
<1>4. PICK im \in Images : im = IF c.images = 0 THEN <<>> ELSE <<nextFile>>
  BY <1>3 DEF Images
<1>5. PICK e \in Entries : e = [author |-> c.who, internal |-> c.internal, images |-> im] /\ e.images = im
  <2>1. PICK w \in People, b \in BOOLEAN : w = c.who /\ b = c.internal
    BY <1>2, Zenon
  <2>2. [author |-> w, internal |-> b, images |-> im] \in Entries /\ [author |-> w, internal |-> b, images |-> im].images = im
    BY DEF Entries
  <2> QED
    BY <2>1, <2>2, Zenon
<1>6. /\ comments' = Append(comments, e)
      /\ disk' = disk \cup nextFile..(nextFile + c.images - 1)
      /\ nextFile' = nextFile + c.images
      /\ asking' = [asking EXCEPT ![s] = NoCall]
      /\ UNCHANGED <<tk, esc, clocked, replaced, callCount, moves>>
  BY <1>1, <1>4, <1>5, Zenon DEF StoreComment
<1>7. FilesFit(comments, replaced, disk, nextFile)'
  <2>1. /\ e.images = <<>> => FilesFit(comments', replaced, disk, nextFile)
        /\ e.images = <<nextFile>> => FilesFit(comments', replaced, disk \cup {nextFile}, nextFile + 1)
    <3>1. e.images = <<>> \/ e.images = <<nextFile>>
      BY <1>4, <1>5
    <3> QED
      BY <1>3, <1>6, <3>1, StoredFits DEF ConvInv
  <2>2. CASE c.images = 0
    <3>1. disk' = disk /\ nextFile' = nextFile /\ e.images = <<>>
      BY <1>3, <1>4, <1>5, <1>6, <2>2
    <3> QED
      BY <1>6, <2>1, <3>1
  <2>3. CASE c.images = 1
    <3>1. disk' = disk \cup {nextFile} /\ nextFile' = nextFile + 1 /\ e.images = <<nextFile>>
      BY <1>3, <1>4, <1>5, <1>6, <2>3
    <3> QED
      BY <1>6, <2>1, <3>1
  <2> QED
    BY <1>2, <2>2, <2>3
<1>8. comments' \in Seq(Entries) /\ Len(comments') = Len(comments) + 1 /\ Len(comments) \in Nat
  BY <1>3, <1>6, AppendProperties
<1>9. RowsOK'
  BY <1>6, <1>8 DEF ConvInv, RowsOK
<1>10. CallsOK'
  <2>1. \A t \in Slots : CallOK(asking[t], Len(comments'), esc')
    <3> TAKE t \in Slots
    <3>1. PICK d : d = asking[t]
      OBVIOUS
    <3>2. CallOK(d, Len(comments), esc)
      BY <3>1 DEF ConvInv, CallsOK
    <3>3. CallOK(d, Len(comments) + 1, esc)
      BY <1>3, <1>8, <3>2, StillOK
    <3> QED
      BY <1>6, <1>8, <3>1, <3>3, Zenon
  <2> QED
    BY <1>6, <2>1, NoCallOK, OneGoesOn DEF ConvInv
<1> QED
  BY <1>7, <1>9, <1>10, NotesHeard DEF ConvInv

LEMMA ReplaceAskStep ==
  ASSUME ConvInv, NEW s \in Slots, NEW p \in People, NEW k \in 1..Len(comments), ReplaceAsk(s, p, k)
  PROVE  ConvInv'
<1>1. PICK x \in 1..Len(comments[k].images) :
        ConvBegin(s, [op |-> "replace", who |-> p, comment |-> k, path |-> comments[k].images[x]])
  BY DEF ReplaceAsk
<1>2. PICK im \in Images : im = comments[k].images
  BY FieldsOfRows, Zenon DEF ConvInv, RowsOK
<1>3. PICK f \in Nat : f = im[x]
  <2>1. x \in 1..Len(im)
    BY <1>1, <1>2, Zenon
  <2>2. \E y \in 1..Len(im) : im[y] = im[x]
    BY <2>1
  <2>3. im[x] \in Nat
    BY <2>2, Shown
  <2> QED
    BY <2>3
<1>4. PICK c : c = [op |-> "replace", who |-> p, comment |-> k, path |-> f]
  OBVIOUS
<1>5. asking' = [asking EXCEPT ![s] = c]
  BY <1>1, <1>2, <1>3, <1>4, Zenon DEF ConvBegin
<1>6. Len(comments) \in Nat
  BY FieldsOfRows DEF ConvInv, RowsOK
<1>7. ReplaceOK(c, Len(comments)) /\ c.op \notin named
  BY <1>4, <1>6 DEF ReplaceOK, Replaces, named
<1>8. UNCHANGED <<tk, esc, chat, sent>>
  BY DEF ReplaceAsk
<1> QED
  BY <1>5, <1>7, <1>8, OneReads DEF CallOK

LEMMA ReplaceImageStep ==
  ASSUME ConvInv, NEW s \in Slots, ReplaceImage(s)
  PROVE  ConvInv'
<1>1. PICK c : c = asking[s]
  OBVIOUS
<1>2. ReplaceOK(c, Len(comments)) /\ c.comment \in 1..Len(comments) /\ c.path \in Nat
  BY <1>1, CallAt DEF ReplaceImage, ReplaceOK, Replaces
<1>3. PICK k \in 1..Len(comments), p \in Nat : k = c.comment /\ p = c.path
  BY <1>2
<1>4. nextFile \in Nat /\ comments \in Seq(Entries) /\ esc \in Seq(Escalations)
  BY DEF ConvInv, FilesFit, RowsOK
<1>5. asking' = [asking EXCEPT ![s] = NoCall] /\ nextFile' = nextFile + 1 /\ UNCHANGED <<tk, esc, clocked, sent, callCount, moves>>
  BY DEF ReplaceImage
<1>6. \/ /\ \E x \in 1..Len(comments[k].images) : comments[k].images[x] = p
         /\ comments' = [comments EXCEPT ![k].images = <<nextFile>>]
         /\ replaced' = replaced \cup {[comment |-> k, old |-> p, new |-> nextFile]}
         /\ disk' = disk \cup {nextFile}
      \/ UNCHANGED <<disk, comments, replaced>>
  <2>1. \/ /\ stillAttached(c)
           /\ comments' = [comments EXCEPT ![c.comment].images = <<nextFile>>]
           /\ replaced' = replaced \cup {[comment |-> c.comment, old |-> c.path, new |-> nextFile]}
           /\ disk' = disk \cup {nextFile}
        \/ UNCHANGED <<disk, comments, replaced>>
    BY <1>1, Zenon DEF ReplaceImage
  <2> QED
    BY <1>3, <2>1, Zenon DEF stillAttached
<1>7. /\ comments' \in Seq(Entries) /\ Len(comments') = Len(comments)
      /\ FilesFit(comments, replaced, disk, nextFile)'
  <2>1. CASE UNCHANGED <<disk, comments, replaced>>
    <3>1. FilesFit(comments, replaced, disk, nextFile + 1)
      BY SkippedFits DEF ConvInv
    <3>2. comments' = comments /\ replaced' = replaced /\ disk' = disk
      BY <2>1
    <3> QED
      BY <1>4, <1>5, <3>1, <3>2
  <2>2. CASE /\ \E x \in 1..Len(comments[k].images) : comments[k].images[x] = p
             /\ comments' = [comments EXCEPT ![k].images = <<nextFile>>]
             /\ replaced' = replaced \cup {[comment |-> k, old |-> p, new |-> nextFile]}
             /\ disk' = disk \cup {nextFile}
    <3>1. PICK e \in Entries : e = comments[k]
      BY FieldsOfRows, Zenon DEF ConvInv, RowsOK
    <3>2. PICK im \in Images : im = comments[k].images
      BY FieldsOfRows, Zenon DEF ConvInv, RowsOK
    <3>3. \E x \in 1..Len(im) : im[x] = p
      BY <2>2, <3>2, Zenon
    <3>4. comments[k].images = <<p>>
      BY <3>2, <3>3, Shown
    <3>5. PICK g \in Images : g = <<nextFile>>
      BY <1>4 DEF Images
    <3>6. PICK d \in Entries : d = [e EXCEPT !.images = g] /\ d.images = g
      <4>1. [e EXCEPT !.images = g] \in Entries /\ [e EXCEPT !.images = g].images = g
        BY DEF Entries
      <4> QED
        BY <4>1, Zenon
    <3>7. comments' = [comments EXCEPT ![k] = d]
      BY <2>2, <3>1, <3>5, <3>6, Zenon
    <3>8. comments' \in Seq(Entries) /\ Len(comments') = Len(comments) /\ comments'[k] = d
          /\ \A l \in 1..Len(comments) : l # k => comments'[l] = comments[l]
      BY <1>4, <3>7, ExceptSeq
    <3>9. comments'[k].images = <<nextFile>>
      BY <3>5, <3>6, <3>8
    <3>10. FilesFit(comments', replaced', disk', nextFile + 1)
      BY <1>4, <2>2, <3>4, <3>8, <3>9, ReplacedFits DEF ConvInv
    <3> QED
      BY <1>5, <3>8, <3>10
  <2> QED
    BY <1>6, <2>1, <2>2
<1>8. RowsOK'
  BY <1>5, <1>7 DEF ConvInv, RowsOK
<1>9. CallsOK'
  <2>1. \A t \in Slots : CallOK(asking[t], Len(comments'), esc')
    BY <1>5, <1>7, Zenon DEF ConvInv, CallsOK
  <2> QED
    BY <1>5, <2>1, NoCallOK, OneGoesOn DEF ConvInv
<1> QED
  BY <1>5, <1>7, <1>8, <1>9 DEF ConvInv, NotesStayInside

-----------------------------------------------------------------------------
(* Escalations and the ticket                                              *)

(* Others than the escalations and the ticket stay as they are.            *)
LEMMA EscalationsMove ==
  ASSUME ConvInv, UNCHANGED <<chat, sent, asking>>,
         tk' \in Tickets, StaffOwned(tk'), esc' \in Seq(Escalations), Len(esc) <= Len(esc'),
         \A e \in 1..Len(esc) : esc[e].status \in {"pending", "cancelled"} => esc'[e].status \in {"pending", "cancelled"}
  PROVE  ConvInv'
<1>1. comments' = comments /\ replaced' = replaced /\ disk' = disk /\ nextFile' = nextFile /\ sent' = sent /\ asking' = asking
  BY DEF chat
<1>2. RowsOK'
  BY <1>1 DEF ConvInv, RowsOK
<1>3. FilesFit(comments, replaced, disk, nextFile)'
  BY <1>1, Zenon DEF ConvInv
<1>4. \A t \in Slots : CallOK(asking[t], Len(comments), esc')
  <2> TAKE t \in Slots
  <2>1. PICK c : c = asking[t]
    OBVIOUS
  <2>2. CallOK(c, Len(comments), esc) /\ Len(comments) \in Nat
    BY <2>1, FieldsOfRows DEF ConvInv, CallsOK, RowsOK
  <2>3. PICK n \in Nat : n = Len(comments)
    BY <2>2
  <2>4. esc \in Seq(Escalations) /\ CallOK(c, n, esc) /\ n <= n
    BY <2>2, <2>3 DEF ConvInv, RowsOK
  <2>5. CallOK(c, n, esc')
    BY <2>4, StillOK, Zenon
  <2> QED
    BY <2>1, <2>3, <2>5, Zenon
<1>5. CallsOK'
  <2>1. CallsOK
    BY DEF ConvInv
  <2> QED
    BY <1>1, <1>4, <2>1, Zenon DEF CallsOK
<1> QED
  BY <1>1, <1>2, <1>3, <1>5 DEF ConvInv, NotesStayInside

LEMMA EscalateStep ==
  ASSUME ConvInv, NEW p \in People, NEW f \in People, Escalate(p, f)
  PROVE  ConvInv'
<1>1. PICK n \in 0..1 : esc' = Append(esc, [by |-> p, to |-> f, status |-> "pending", proofs |-> n])
  BY DEF Escalate
<1>2. PICK x \in Escalations : x = [by |-> p, to |-> f, status |-> "pending", proofs |-> n]
  <2>1. f \in Focals /\ n \in 0..MaxProofs
    BY PeopleAssumption DEF Escalate, Focals
  <2>2. [by |-> p, to |-> f, status |-> "pending", proofs |-> n] \in Escalations
    BY <2>1 DEF Escalations
  <2> QED
    BY <2>2, Zenon
<1>3. esc \in Seq(Escalations) /\ tk \in Tickets /\ StaffOwned(tk)
  BY DEF ConvInv, RowsOK
<1>4. esc' = Append(esc, x)
  BY <1>1, <1>2, Zenon
<1>5. esc' \in Seq(Escalations) /\ Len(esc') = Len(esc) + 1 /\ (\A e \in 1..Len(esc) : esc'[e] = esc[e]) /\ Len(esc) \in Nat
  BY <1>3, <1>4, AppendProperties
<1>6. tk' = tk /\ UNCHANGED <<chat, sent, asking>>
  BY DEF Escalate
<1> QED
  BY <1>3, <1>5, <1>6, EscalationsMove

LEMMA MovedStep ==
  ASSUME ConvInv, Moved
  PROVE  ConvInv'
<1>1. esc' = esc /\ UNCHANGED <<chat, sent, asking>> /\ esc \in Seq(Escalations) /\ tk \in Tickets /\ StaffOwned(tk)
  BY DEF Moved, ConvInv, RowsOK
<1>2. tk' \in Tickets /\ StaffOwned(tk')
  <2>1. CASE \E p \in People : ~isUser(p) /\ tk' = [tk EXCEPT !.owner = p, !.status = "assigned"]
    <3>1. PICK p \in People : ~isUser(p) /\ tk' = [tk EXCEPT !.owner = p, !.status = "assigned"]
      BY <2>1
    <3> QED
      BY <1>1, <3>1 DEF Tickets, Statuses, StaffOwned
  <2>2. CASE \E p \in People : tk' = [tk EXCEPT !.requester = p]
    BY <1>1, <2>2 DEF Tickets, StaffOwned
  <2>3. CASE tk' = tk
    BY <1>1, <2>3
  <2>4. CASE tk' = [tk EXCEPT !.status = "resolved"]
    BY <1>1, <2>4 DEF Tickets, Statuses, Ended, StaffOwned
  <2> QED
    BY <2>1, <2>2, <2>3, <2>4 DEF Moved
<1>3. Len(esc) \in Nat
  BY <1>1
<1> QED
  BY <1>1, <1>2, <1>3, EscalationsMove

LEMMA CancelStep ==
  ASSUME ConvInv, Cancel
  PROVE  ConvInv'
<1>1. UNCHANGED <<chat, sent, asking>> /\ tk' = [tk EXCEPT !.status = "cancelled"] /\ esc \in Seq(Escalations) /\ tk \in Tickets /\ StaffOwned(tk)
  BY DEF Cancel, ConvInv, RowsOK
<1>2. tk' \in Tickets /\ StaffOwned(tk')
  BY <1>1 DEF Tickets, Statuses, Ended, StaffOwned
<1> DEFINE ended(x) == IF x.status \in {"pending", "accepted"} THEN [x EXCEPT !.status = "cancelled"] ELSE x
<1>3. \A x \in Escalations : ended(x) \in Escalations /\ (x.status \in {"pending", "cancelled"} => ended(x).status \in {"pending", "cancelled"})
  BY DEF Escalations
<1>4. esc' = [e \in 1..Len(esc) |-> ended(esc[e])]
  BY DEF Cancel
<1> HIDE DEF ended
<1>5. Len(esc) \in Nat /\ \A e \in 1..Len(esc) : esc[e] \in Escalations
  BY <1>1, ElementOfSeq
<1>6. \A e \in 1..Len(esc) : ended(esc[e]) \in Escalations
  BY <1>3, <1>5, Zenon
<1>7. esc' \in Seq(Escalations) /\ Len(esc') = Len(esc)
  BY <1>4, <1>5, <1>6, IsASeq
<1>8. \A e \in 1..Len(esc) : esc[e].status \in {"pending", "cancelled"} => esc'[e].status \in {"pending", "cancelled"}
  BY <1>3, <1>4, <1>5, Zenon
<1> QED
  BY <1>1, <1>2, <1>5, <1>7, <1>8, EscalationsMove

LEMMA EscReadStep ==
  ASSUME ConvInv, NEW s \in Slots, NEW e \in 1..Len(esc), NEW op \in {"accept", "return", "proof"}, EscRead(s, e, op)
  PROVE  ConvInv'
<1>1. PICK x \in Escalations : x = esc[e]
  BY FieldsOfRows, Zenon DEF ConvInv, RowsOK
<1>2. x.status = "pending" /\ (op = "proof" => x.proofs < MaxProofs) /\ (op \in named => \A t \in Slots : asking[t].op \notin named)
  BY <1>1 DEF EscRead, stillPending, room, named
<1> DEFINE ent == CASE op = "accept" -> [esc[e] EXCEPT !.status = "accepted"]
                    [] op = "return" -> [esc[e] EXCEPT !.status = "returned"]
                    [] op = "proof"  -> [esc[e] EXCEPT !.proofs = @ + 1]
<1>3. PICK y \in Escalations : y = ent /\ y.status = Outcome(op)
  <2>1. CASE op = "accept"
    <3>1. ent = [x EXCEPT !.status = "accepted"]
      BY <1>1, <2>1
    <3>2. [x EXCEPT !.status = "accepted"] \in Escalations /\ [x EXCEPT !.status = "accepted"].status = "accepted"
      BY DEF Escalations
    <3> QED
      BY <2>1, <3>1, <3>2, Zenon DEF Outcome
  <2>2. CASE op = "return"
    <3>1. ent = [x EXCEPT !.status = "returned"]
      BY <1>1, <2>2
    <3>2. [x EXCEPT !.status = "returned"] \in Escalations /\ [x EXCEPT !.status = "returned"].status = "returned"
      BY DEF Escalations
    <3>3. Outcome(op) = "returned"
      BY <2>2 DEF Outcome
    <3> HIDE DEF ent
    <3> QED
      BY <3>1, <3>2, <3>3, Zenon
  <2>3. CASE op = "proof"
    <3>1. ent = [x EXCEPT !.proofs = x.proofs + 1]
      BY <1>1, <2>3
    <3>2. [x EXCEPT !.proofs = x.proofs + 1] \in Escalations /\ [x EXCEPT !.proofs = x.proofs + 1].status = "pending"
      BY <1>2, <2>3, PeopleAssumption DEF Escalations
    <3>3. Outcome(op) = "pending"
      BY <2>3 DEF Outcome
    <3> HIDE DEF ent
    <3> QED
      BY <3>1, <3>2, <3>3, Zenon
  <2> QED
    BY <2>1, <2>2, <2>3
<1>4. PICK c : c = [op |-> op, rec |-> e, entity |-> y, read |-> x]
  OBVIOUS
<1>5. asking' = [asking EXCEPT ![s] = c]
  <2>1. ConvBegin(s, [op |-> op, rec |-> e, entity |-> ent, read |-> esc[e]])
    BY Zenon DEF EscRead
  <2> HIDE DEF ent
  <2> QED
    BY <1>1, <1>3, <1>4, <2>1, Zenon DEF ConvBegin
<1>6. Len(esc) \in Nat
  BY FieldsOfRows DEF ConvInv, RowsOK
<1>7. AnswerOK(c, esc)
  <2>1. c \in Answers /\ c.op = op /\ c.rec = e /\ c.entity = y /\ c.read = x
    BY <1>4, <1>6 DEF Answers, named
  <2> QED
    BY <1>1, <1>2, <1>3, <2>1 DEF AnswerOK
<1>8. c.op \in named => \A t \in Slots : t # s => asking[t].op \notin named
  BY <1>2, <1>4
<1>9. UNCHANGED <<tk, esc, chat, sent>>
  BY DEF EscRead
<1> QED
  BY <1>5, <1>7, <1>8, <1>9, OneReads DEF CallOK

LEMMA EscWriteStep ==
  ASSUME ConvInv, NEW s \in Slots, EscWrite(s)
  PROVE  ConvInv'
<1>1. PICK c : c = asking[s]
  OBVIOUS
<1>2. AnswerOK(c, esc) /\ c.op \in named \cup {"proof"} /\ c.rec \in 1..Len(esc) /\ c.entity \in Escalations
  BY <1>1, CallAt DEF EscWrite, AnswerOK, Answers
<1>3. PICK e \in 1..Len(esc), y \in Escalations : e = c.rec /\ y = c.entity
  BY <1>2
<1>4. esc \in Seq(Escalations) /\ tk \in Tickets /\ StaffOwned(tk) /\ Len(esc) \in Nat
  BY DEF ConvInv, RowsOK
<1>5. /\ esc' = [esc EXCEPT ![e] = y]
      /\ tk' = IF c.op # "accept" THEN tk
               ELSE [tk EXCEPT !.owner = y.to,
                               !.status = IF tk.status \in {"resolved", "closed"} THEN tk.status ELSE "in_progress"]
      /\ asking' = [asking EXCEPT ![s] = NoCall]
      /\ UNCHANGED <<clocked, chat, sent, callCount, moves>>
  BY <1>1, <1>3, Zenon DEF EscWrite
<1>6. esc' \in Seq(Escalations) /\ Len(esc') = Len(esc) /\ \A d \in 1..Len(esc) : esc'[d] = IF d = e THEN y ELSE esc[d]
  BY <1>4, <1>5, ExceptSeq
<1>7. RowsOK'
  <2>1. y.to \in Focals
    BY DEF Escalations
  <2>2. PICK f \in Focals : f = y.to /\ f \in People /\ ~isUser(f)
    BY <2>1, FocalsAreStaff
  <2>3. PICK st \in Statuses : st = IF tk.status \in {"resolved", "closed"} THEN tk.status ELSE "in_progress"
    BY DEF Statuses, Ended
  <2>4. tk' = tk \/ tk' = [tk EXCEPT !.owner = f, !.status = st]
    BY <1>5, <2>2, <2>3, Zenon
  <2>5. tk' \in Tickets /\ StaffOwned(tk')
    BY <1>4, <2>2, <2>4 DEF Tickets, StaffOwned
  <2> QED
    BY <1>5, <1>6, <2>5 DEF ConvInv, RowsOK, chat
<1>8. CallsOK'
  <2>1. \A t \in Slots : t # s => CallOK(asking[t], Len(comments), esc')
    <3> SUFFICES ASSUME NEW t \in Slots, t # s
                 PROVE  CallOK(asking[t], Len(comments), esc')
      OBVIOUS
    <3>1. PICK d : d = asking[t]
      OBVIOUS
    <3>2. CallOK(d, Len(comments), esc) /\ Len(comments) \in Nat
      BY <3>1, FieldsOfRows DEF ConvInv, CallsOK, RowsOK
    <3>3. d.op \in named => c.op \notin named
      BY <1>1, <3>1, Zenon DEF ConvInv, CallsOK
    <3>4. d.op \in named => y.status = "pending"
      BY <1>2, <1>3, <3>3 DEF AnswerOK, Outcome, named
    <3>5. CallOK(d, Len(comments), esc')
      BY <1>4, <1>6, <3>2, <3>4, StillOK
    <3> QED
      BY <3>1, <3>5, Zenon
  <2>2. Len(comments') = Len(comments)
    BY <1>5 DEF chat
  <2>3. \A t \in Slots : t # s => CallOK(asking[t], Len(comments'), esc')
    BY <2>1, <2>2, Zenon
  <2> QED
    BY <1>5, <2>3, NoCallOK, OneGoesOn DEF ConvInv
<1>9. FilesFit(comments, replaced, disk, nextFile)' /\ NotesStayInside'
  <2>1. comments' = comments /\ replaced' = replaced /\ disk' = disk /\ nextFile' = nextFile /\ sent' = sent
    BY <1>5 DEF chat
  <2> QED
    BY <2>1 DEF ConvInv, NotesStayInside
<1> QED
  BY <1>7, <1>8, <1>9 DEF ConvInv

LEMMA ConvStep ==
  ASSUME ConvInv, [ConvNext]_convVars
  PROVE  ConvInv'
<1>1. CASE UNCHANGED convVars
  <2>1. /\ tk' = tk /\ esc' = esc /\ comments' = comments /\ replaced' = replaced /\ disk' = disk
        /\ nextFile' = nextFile /\ asking' = asking /\ sent' = sent
    BY <1>1 DEF convVars
  <2> QED
    BY <2>1 DEF ConvInv, RowsOK, CallsOK, NotesStayInside
<1>2. ASSUME NEW s \in Slots, NEW p \in People, CommentRead(s, p)
      PROVE  ConvInv'
  BY <1>2, CommentReadStep
<1>3. ASSUME NEW s \in Slots, NEW p \in People, NEW k \in 1..Len(comments), ReplaceAsk(s, p, k)
      PROVE  ConvInv'
  BY <1>3, ReplaceAskStep
<1>4. ASSUME NEW s \in Slots, NEW e \in 1..Len(esc), NEW op \in {"accept", "return", "proof"}, EscRead(s, e, op)
      PROVE  ConvInv'
  BY <1>4, EscReadStep
<1>5. ASSUME NEW s \in Slots, CheckMention(s) \/ StoreComment(s) \/ ReplaceImage(s) \/ EscWrite(s)
      PROVE  ConvInv'
  BY <1>5, CheckMentionStep, StoreCommentStep, ReplaceImageStep, EscWriteStep
<1>6. ASSUME NEW p \in People, NEW f \in People, Escalate(p, f)
      PROVE  ConvInv'
  BY <1>6, EscalateStep
<1>7. CASE Moved \/ Cancel
  BY <1>7, MovedStep, CancelStep
<1> QED
  BY <1>1, <1>2, <1>3, <1>4, <1>5, <1>6, <1>7 DEF ConvNext

(* A conversation keeps its shape; what a listing shows can be opened; of  *)
(* an internal note hears only who may read the notes, unless the ticket   *)
(* or its escalations changed since (addComment); and every image file     *)
(* belongs to one comment, also after it was replaced, once.               *)
THEOREM ConversationIsKept == ConvSpec => []ConversationHolds
BY ConvStarts, ConvStep, ConvInvHolds, PTL DEF ConvSpec

(* An answered escalation changes only when the ticket is cancelled or by  *)
(* a save prepared from the record while it was pending: the named lock    *)
(* keeps two answers apart (acceptTicketEscalation, returnTicketEscalation) *)
(* and only updateEscalationProof saves without it.                        *)
THEOREM AnswersStand == ConvSpec => AnswerLostOnlyByStaleSave
<1> DEFINE Stands ==
      \A e \in 1..Len(esc) : (esc[e].status \in {"accepted", "returned"} /\ esc'[e].status # esc[e].status) =>
        \/ tk'.status = "cancelled" /\ esc'[e].status = "cancelled"
        \/ \E s \in Slots : asking[s].op = "proof" /\ asking'[s] = NoCall /\ asking[s].rec = e
             /\ asking[s].read.status = "pending"
<1>1. ConvInv /\ [ConvNext]_convVars => [Stands]_convVars
  <2> SUFFICES ASSUME ConvInv, ConvNext
               PROVE  Stands
    BY Zenon
  <2>1. esc' = esc => Stands
    OBVIOUS
  <2>2. ASSUME NEW s \in Slots, EscWrite(s)
        PROVE  Stands
    <3>1. PICK c : c = asking[s]
      OBVIOUS
    <3>2. AnswerOK(c, esc) /\ c.op \in named \cup {"proof"}
      BY <2>2, <3>1, CallAt DEF EscWrite
    <3>3. esc' = [esc EXCEPT ![c.rec] = c.entity] /\ asking' = [asking EXCEPT ![s] = NoCall]
      BY <2>2, <3>1, Zenon DEF EscWrite
    <3>4. asking'[s] = NoCall
      BY <3>3, Zenon DEF ConvInv, CallsOK
    <3>5. esc \in Seq(Escalations)
      BY DEF ConvInv, RowsOK
    <3>6. \A e \in 1..Len(esc) : e # c.rec => esc'[e] = esc[e]
      BY <3>3, <3>5
    <3>7. CASE c.op = "proof"
      BY <3>1, <3>2, <3>4, <3>6, <3>7 DEF AnswerOK
    <3>8. CASE c.op # "proof"
      BY <3>2, <3>6, <3>8 DEF AnswerOK
    <3> QED
      BY <3>7, <3>8
  <2>3. ASSUME NEW p \in People, NEW f \in People, Escalate(p, f)
        PROVE  Stands
    <3>1. PICK n \in 0..1 : esc' = Append(esc, [by |-> p, to |-> f, status |-> "pending", proofs |-> n])
      BY <2>3 DEF Escalate
    <3>2. PICK x : x = [by |-> p, to |-> f, status |-> "pending", proofs |-> n]
      OBVIOUS
    <3>3. esc \in Seq(Escalations) /\ esc' = Append(esc, x)
      BY <3>1, <3>2, Zenon DEF ConvInv, RowsOK
    <3> QED
      BY <3>3
  <2>4. CASE Cancel
    BY <2>4 DEF Cancel, ConvInv, RowsOK
  <2>5. CASE Moved
    BY <2>1, <2>5 DEF Moved
  <2>6. ASSUME NEW s \in Slots, CheckMention(s) \/ StoreComment(s) \/ ReplaceImage(s)
        PROVE  esc' = esc
    BY <2>6 DEF CheckMention, StoreComment, ReplaceImage
  <2>7. ASSUME NEW s \in Slots, NEW p \in People, CommentRead(s, p)
        PROVE  esc' = esc
    BY <2>7 DEF CommentRead
  <2>8. ASSUME NEW s \in Slots, NEW p \in People, NEW k \in 1..Len(comments), ReplaceAsk(s, p, k)
        PROVE  esc' = esc
    BY <2>8 DEF ReplaceAsk
  <2>9. ASSUME NEW s \in Slots, NEW e \in 1..Len(esc), NEW op \in {"accept", "return", "proof"}, EscRead(s, e, op)
        PROVE  esc' = esc
    BY <2>9 DEF EscRead
  <2> HIDE DEF Stands
  <2> QED
    BY <2>1, <2>2, <2>3, <2>4, <2>5, <2>6, <2>7, <2>8, <2>9 DEF ConvNext
<1> QED
  BY <1>1, ConvStarts, ConvStep, PTL DEF ConvSpec, AnswerLostOnlyByStaleSave

-----------------------------------------------------------------------------
(* The list page                                                           *)

ListServers == [ver : Nat, pages : 1..2]
ListViews == [filter : ListFilters, search : Searches, page : Nat]
ListRequests == [kind : {"list", "counts"}, view : ListViews, silent : BOOLEAN,
                 read : ListServers \cup {NoRows}, live : BOOLEAN]
Sides == [of : {"summary", "history"}, ver : Nat \cup {NoRows}, read : Nat \cup {NoRows},
          asked : BOOLEAN, error : BOOLEAN, shown : BOOLEAN]

PageShape ==
  /\ tlServer \in ListServers /\ tlView \in ListViews /\ tlDraft \in Searches /\ tlSaved \in ListFilters
  /\ tlPages \in 1..2 /\ tlAsked \in SUBSET ListRequests /\ tlSide \in Sides

(* A change of the list is still going to be asked about.                  *)
Pending == tlEvent \/ tlTimer \/ tlQueued

(* The requests that count are for the view, one of each kind, and what    *)
(* they read is what the server has, or it will be asked again; the list   *)
(* had no more pages when they read it.                                    *)
LiveFit ==
  /\ \A q, r \in tlAsked : q.live /\ r.live /\ q.kind = r.kind => q = r
  /\ \A q \in tlAsked : q.live => /\ q.view = tlView
                                  /\ q.kind = "counts" => tlView.filter = ToRate
                                  /\ q.read # NoRows => /\ q.read = tlServer \/ Pending
                                                        /\ q.read.pages <= tlServer.pages \/ tlShrunk

Asking(kind) == \E q \in tlAsked : q.live /\ q.kind = kind

(* What is shown is what the server has, unless a failure is shown or a    *)
(* request will still say.                                                 *)
RowsFresh ==
  ~tlError /\ ~Pending /\ ~Asking("list") =>
    /\ tlRows = [view |-> tlView, ver |-> tlServer.ver] /\ tlPages = pagesOf(tlView, tlServer)
    /\ tlView.filter # ToRate => tlCounts = [filter |-> tlView.filter, ver |-> tlServer.ver]
CountsFresh ==
  ~tlCountsError /\ ~Pending /\ ~Asking("counts") /\ tlView.filter = ToRate =>
    tlCounts = [filter |-> ToRate, ver |-> tlServer.ver]
SideFresh ==
  ~tlSwallowed /\ ~tlEvent /\ ~tlTimer /\ tlSide.shown =>
    IF tlSide.asked THEN tlSide.read \in {NoRows, tlServer.ver} ELSE tlSide.error \/ tlSide.ver = tlServer.ver

(* Until the list shrinks, the page selected and the pages counted are     *)
(* within the list.                                                        *)
PagesFit ==
  ~tlShrunk => /\ tlView.page <= pagesOf(tlView, tlServer)
               /\ tlRows # NoRows => tlPages <= pagesOf(tlView, tlServer)

AskedInv == LiveFit /\ RowsFresh /\ CountsFresh /\ SpinnerEnds
ListInv == PageShape /\ AskedInv /\ SideFresh /\ PagesFit /\ RowsOfTheView

(* What is asked when nothing is waited for.                               *)
fresh(v, s) == aborted \cup {request("list", v, s)}
               \cup (IF v.filter = ToRate THEN {request("counts", v, s)} ELSE {})

LEMMA AbortedAreDead ==
  ASSUME PageShape
  PROVE  aborted \in SUBSET ListRequests /\ \A q \in aborted : ~q.live
<1> SUFFICES ASSUME NEW q \in aborted PROVE q \in ListRequests /\ ~q.live
  OBVIOUS
<1>1. PICK x \in tlAsked : q = [x EXCEPT !.live = FALSE, !.read = IF x.read = NoRows THEN tlServer ELSE x.read]
  BY Zenon DEF aborted
<1>2. PICK r \in ListServers \cup {NoRows} : r = IF x.read = NoRows THEN tlServer ELSE x.read
  BY DEF PageShape, ListRequests
<1>3. x \in ListRequests /\ q = [x EXCEPT !.live = FALSE, !.read = r]
  BY <1>1, <1>2, Zenon DEF PageShape
<1> QED
  BY <1>3 DEF ListRequests

LEMMA RequestIs ==
  ASSUME NEW v \in ListViews, NEW s \in BOOLEAN, NEW k \in {"list", "counts"}
  PROVE  /\ request(k, v, s) \in ListRequests /\ request(k, v, s).live /\ request(k, v, s).kind = k
         /\ request(k, v, s).view = v /\ request(k, v, s).read = NoRows
BY DEF request, ListRequests

LEMMA Anew ==
  ASSUME PageShape, NEW v \in ListViews, NEW s \in BOOLEAN, NEW D, \A q \in D : ~q.live,
         tlView' = v, tlAsked' = fresh(v, s) \ D
  PROVE  tlAsked' \in SUBSET ListRequests /\ AskedInv'
<1>1. PICK l \in ListRequests : l = request("list", v, s) /\ l.live /\ l.kind = "list" /\ l.view = v /\ l.read = NoRows
  BY RequestIs
<1>2. PICK c \in ListRequests : c = request("counts", v, s) /\ c.live /\ c.kind = "counts" /\ c.view = v /\ c.read = NoRows
  BY RequestIs
<1>3. tlAsked' \in SUBSET ListRequests
  BY <1>1, <1>2, AbortedAreDead DEF fresh
<1>4. l \in tlAsked' /\ (v.filter = ToRate => c \in tlAsked')
  BY <1>1, <1>2 DEF fresh
<1>5. \A q \in tlAsked' : q.live => q = l \/ (q = c /\ v.filter = ToRate)
  BY <1>1, <1>2, AbortedAreDead DEF fresh
<1>6. LiveFit'
  BY <1>1, <1>2, <1>5 DEF LiveFit
<1>7. RowsFresh' /\ CountsFresh' /\ SpinnerEnds'
  BY <1>1, <1>2, <1>4 DEF RowsFresh, CountsFresh, SpinnerEnds, Asking
<1> QED
  BY <1>3, <1>6, <1>7 DEF AskedInv

(* Fewer pages than before means that the list shrank.                     *)
Grows == tlShrunk' \/ (~tlShrunk /\ tlServer.pages <= tlServer'.pages)

(* A change that is going to be asked about disturbs no request.           *)
LEMMA StillPending ==
  ASSUME PageShape, AskedInv, tlServer' \in ListServers, Grows, tlView' = tlView, tlAsked' = tlAsked, tlLoading' = tlLoading,
         Pending'
  PROVE  AskedInv'
<1>1. \A q \in tlAsked : q.read # NoRows => q.read \in ListServers
  BY DEF PageShape, ListRequests
<1>2. LiveFit'
  BY <1>1 DEF AskedInv, LiveFit, PageShape, Grows, ListServers
<1> QED
  BY <1>2 DEF AskedInv, RowsFresh, CountsFresh, SpinnerEnds

LEMMA Becomes ==
  ASSUME NEW v, NEW s, NEW busy, NEW rows, NEW loading, NEW error,
         become(fetchTickets(v, s, busy, rows, loading, error))
  PROVE  /\ s /\ busy => tlRows' = rows /\ tlLoading' = loading /\ tlError' = error /\ tlAsked' = tlAsked /\ tlQueued' = TRUE
         /\ ~(s /\ busy) => tlAsked' = fresh(v, s) /\ tlRows' = IF s THEN rows ELSE NoRows
BY DEF become, fetchTickets, mustWait, fresh

(* Asking for the rows again, in the background or afresh.                 *)
LEMMA Refreshed ==
  ASSUME ListInv, NEW s \in BOOLEAN, NEW busy, tlServer' \in ListServers, Grows, tlView' = tlView,
         become(fetchTickets(tlView, s, busy, tlRows, tlLoading, tlError))
  PROVE  tlAsked' \in SUBSET ListRequests /\ AskedInv' /\ tlRows' \in {tlRows, NoRows}
<1>1. CASE s /\ busy
  <2>1. tlRows' = tlRows /\ tlLoading' = tlLoading /\ tlAsked' = tlAsked /\ tlQueued' = TRUE
    BY <1>1, Becomes, Zenon
  <2>2. PageShape /\ AskedInv /\ Pending' /\ tlAsked \in SUBSET ListRequests
    BY <2>1 DEF ListInv, PageShape, Pending
  <2> QED
    BY <2>1, <2>2, StillPending
<1>2. CASE ~(s /\ busy)
  <2>1. PICK v : v = tlView
    OBVIOUS
  <2>2. tlAsked' = fresh(v, s) /\ tlRows' = (IF s THEN tlRows ELSE NoRows) /\ tlView' = v
    BY <1>2, <2>1, Becomes, Zenon
  <2>3. PICK D : D = {}
    OBVIOUS
  <2>4. (\A q \in D : ~q.live) /\ tlAsked' = fresh(v, s) \ D
    BY <2>2, <2>3
  <2>5. v \in ListViews /\ PageShape
    BY <2>1 DEF ListInv, PageShape
  <2>6. tlAsked' \in SUBSET ListRequests /\ AskedInv'
    BY <2>2, <2>4, <2>5, Anew, Zenon
  <2> QED
    BY <2>2, <2>6, Zenon
<1> QED
  BY <1>1, <1>2

(* Totals and history that are asked for again are fresh.                  *)
LEMMA SideAnew ==
  ASSUME PageShape, NEW x, x = sideAsked \/ \E b \in BOOLEAN : x = historyAnew(b)
  PROVE  x \in Sides /\ (tlSide' = x => SideFresh')
<1>1. PICK y \in Sides : y = tlSide
  BY DEF PageShape
<1>2. CASE x = sideAsked
  <2>1. x = IF y.shown THEN [y EXCEPT !.asked = TRUE, !.read = NoRows] ELSE y
    BY <1>1, <1>2, Zenon DEF sideAsked
  <2>2. x \in Sides /\ (x.shown => x.asked /\ x.read = NoRows)
    BY <2>1 DEF Sides
  <2> QED
    BY <2>2 DEF SideFresh
<1>3. ASSUME NEW b \in BOOLEAN, x = historyAnew(b)
      PROVE  x \in Sides /\ (tlSide' = x => SideFresh')
  <2>1. x = [y EXCEPT !.ver = NoRows, !.read = NoRows, !.asked = b, !.error = FALSE, !.shown = b]
    BY <1>1, <1>3, Zenon DEF historyAnew
  <2>2. x \in Sides /\ x.shown = b /\ x.asked = b /\ x.read = NoRows
    BY <2>1 DEF Sides
  <2> QED
    BY <2>2 DEF SideFresh
<1> QED
  BY <1>2, <1>3

(* The user looks at another part of the list.                             *)
LEMMA LookAtStep ==
  ASSUME ListInv, NEW v \in ListViews, lookAt(v), tlServer' = tlServer, tlEvent' = tlEvent, tlDraft' \in Searches,
         tlSide' \in Sides, tlSide' # tlSide => SideFresh',
         tlShrunk' \/ (~tlShrunk /\ v.page <= pagesOf(v, tlServer))
  PROVE  ListInv'
<1>1. /\ tlView' = v /\ tlTimer' = FALSE /\ tlSwallowed' = (tlSwallowed \/ tlTimer)
      /\ become(fetchTickets(v, FALSE, FALSE, tlRows, tlLoading, tlError))
      /\ tlSaved' = v.filter /\ tlPages' = tlPages
  BY DEF lookAt
<1>2. tlAsked' = fresh(v, FALSE) /\ tlRows' = NoRows
  BY <1>1, Becomes, Zenon
<1>3. PICK D : D = {}
  OBVIOUS
<1>4. (\A q \in D : ~q.live) /\ tlAsked' = fresh(v, FALSE) \ D
  BY <1>2, <1>3
<1>5. tlAsked' \in SUBSET ListRequests /\ AskedInv'
  <2>1. PageShape /\ FALSE \in BOOLEAN
    BY DEF ListInv
  <2> QED
    BY <1>1, <1>4, <2>1, Anew, Zenon
<1>6. v.filter \in ListFilters
  BY DEF ListViews
<1>7. PageShape'
  BY <1>1, <1>5, <1>6 DEF ListInv, PageShape
<1>8. SideFresh'
  BY <1>1 DEF ListInv, SideFresh
<1>9. PagesFit' /\ RowsOfTheView'
  BY <1>1, <1>2 DEF PagesFit, RowsOfTheView
<1> QED
  BY <1>5, <1>7, <1>8, <1>9 DEF ListInv

LEMMA FirstPages ==
  ASSUME PageShape, NEW v \in ListViews, v.page = 1
  PROVE  v.page <= pagesOf(v, tlServer)
BY DEF PageShape, ListServers, pagesOf

LEMMA ListStarts == ListInit => ListInv
<1> SUFFICES ASSUME ListInit PROVE ListInv
  OBVIOUS
<1>1. PICK f \in ListFilters, s \in Searches :
        /\ tlView = [filter |-> f, search |-> s, page |-> 1] /\ tlDraft = s /\ tlSaved = f
        /\ tlAsked = {[kind |-> k, view |-> tlView, silent |-> FALSE, read |-> NoRows, live |-> TRUE] :
                       k \in IF f = ToRate THEN {"list", "counts"} ELSE {"list"}}
  BY ListAssumption DEF ListInit
<1>2. PICK v \in ListViews : v = tlView /\ v.filter = f /\ v.page = 1
  BY <1>1 DEF ListViews
<1>3. \A k \in {"list", "counts"} :
        [kind |-> k, view |-> v, silent |-> FALSE, read |-> NoRows, live |-> TRUE] \in ListRequests
  BY DEF ListRequests
<1>4. tlAsked \in SUBSET ListRequests
  BY <1>1, <1>2, <1>3
<1>5. /\ \A q \in tlAsked : q.live /\ q.view = v /\ q.read = NoRows /\ (q.kind = "list" \/ (q.kind = "counts" /\ f = ToRate))
      /\ \A q, r \in tlAsked : q.kind = r.kind => q = r
  <2> DEFINE one(k) == [kind |-> k, view |-> v, silent |-> FALSE, read |-> NoRows, live |-> TRUE]
  <2>1. \A k : one(k).live /\ one(k).view = v /\ one(k).read = NoRows /\ one(k).kind = k
    OBVIOUS
  <2>2. \A q \in tlAsked : \E k : q = one(k) /\ (k = "list" \/ (k = "counts" /\ f = ToRate))
    BY <1>1, <1>2
  <2> HIDE DEF one
  <2>3. ASSUME NEW q \in tlAsked
        PROVE  /\ q.live /\ q.view = v /\ q.read = NoRows /\ q = one(q.kind)
               /\ q.kind = "list" \/ (q.kind = "counts" /\ f = ToRate)
    <3>1. PICK k : q = one(k) /\ (k = "list" \/ (k = "counts" /\ f = ToRate))
      BY <2>2
    <3> QED
      BY <2>1, <3>1
  <2> QED
    BY <2>3
<1>6. Asking("list") /\ (f = ToRate => Asking("counts"))
  <2>1. [kind |-> "list", view |-> tlView, silent |-> FALSE, read |-> NoRows, live |-> TRUE] \in tlAsked
    BY <1>1
  <2>2. f = ToRate => [kind |-> "counts", view |-> tlView, silent |-> FALSE, read |-> NoRows, live |-> TRUE] \in tlAsked
    BY <1>1
  <2> QED
    BY <2>1, <2>2 DEF Asking
<1>7. AskedInv
  BY <1>2, <1>5, <1>6 DEF AskedInv, LiveFit, RowsFresh, CountsFresh, SpinnerEnds, Asking
<1>8. tlSide \in Sides /\ SideFresh
  <2>1. PICK o \in {"summary", "history"} :
          tlSide = [of |-> o, ver |-> NoRows, read |-> NoRows, asked |-> o = "summary", error |-> FALSE, shown |-> o = "summary"]
    BY DEF ListInit
  <2>2. PICK b \in BOOLEAN : b = (o = "summary")
    OBVIOUS
  <2>3. tlSide = [of |-> o, ver |-> NoRows, read |-> NoRows, asked |-> b, error |-> FALSE, shown |-> b]
    BY <2>1, <2>2, Zenon
  <2> QED
    BY <2>3 DEF Sides, SideFresh
<1>9. tlServer \in ListServers
  BY DEF ListInit, ListServers
<1>10. PageShape
  BY <1>1, <1>2, <1>4, <1>8, <1>9 DEF ListInit, PageShape
<1>11. PagesFit /\ RowsOfTheView
  BY <1>2, <1>10, FirstPages DEF ListInit, PagesFit, RowsOfTheView
<1> QED
  BY <1>7, <1>8, <1>10, <1>11 DEF ListInv

(* The answer or the failure of a request for rows that counts.            *)
LEMMA Settles ==
  ASSUME ListInv, NEW q \in tlAsked, q.live, q.kind = "list", NEW rows, NEW error, settled(q, rows, error),
         tlServer' = tlServer, tlView' = tlView, tlEvent' = tlEvent, tlTimer' = tlTimer, tlShrunk' = tlShrunk,
         tlView.filter = ToRate => tlCounts' = tlCounts,
         ~error /\ ~Pending => /\ rows = [view |-> tlView, ver |-> tlServer.ver] /\ tlPages' = pagesOf(tlView, tlServer)
                               /\ tlView.filter # ToRate => tlCounts' = [filter |-> tlView.filter, ver |-> tlServer.ver]
  PROVE  tlAsked' \in SUBSET ListRequests /\ AskedInv' /\ tlRows' = rows
<1>1. CASE tlQueued
  <2>1. PICK v : v = tlView
    OBVIOUS
  <2>2. PICK a : a = fresh(v, TRUE)
    OBVIOUS
  <2>3. PICK d : d = [q EXCEPT !.live = FALSE]
    OBVIOUS
  <2>4. PICK r : r = [rows |-> rows, loading |-> FALSE, error |-> TRUE /\ error, asked |-> a, inFlight |-> TRUE,
                      queued |-> FALSE, countsError |-> v.filter = ToRate /\ tlCountsError]
    OBVIOUS
  <2>5. fetchTickets(v, TRUE, FALSE, rows, FALSE, error) = r
    BY <2>2, <2>4 DEF fetchTickets, mustWait, fresh
  <2>6. become([r EXCEPT !.asked = r.asked \ {d}])
    BY <1>1, <2>1, <2>3, <2>5, Zenon DEF settled, startsAgain
  <2>7. [r EXCEPT !.asked = r.asked \ {d}].asked = a \ {d} /\ [r EXCEPT !.asked = r.asked \ {d}].rows = rows
    BY <2>4
  <2>8. tlAsked' = fresh(v, TRUE) \ {d} /\ tlRows' = rows
    BY <2>2, <2>6, <2>7, Zenon DEF become
  <2>9. q \in ListRequests /\ v \in ListViews /\ PageShape /\ tlView' = v
    BY <2>1 DEF ListInv, PageShape
  <2>10. ~d.live
    BY <2>3, <2>9 DEF ListRequests
  <2>11. PICK D : D = {d}
    OBVIOUS
  <2>12. (\A x \in D : ~x.live) /\ tlAsked' = fresh(v, TRUE) \ D /\ TRUE \in BOOLEAN
    BY <2>8, <2>10, <2>11
  <2>13. tlAsked' \in SUBSET ListRequests /\ AskedInv'
    BY <2>9, <2>12, Anew, Zenon
  <2> QED
    BY <2>8, <2>13
<1>2. CASE ~tlQueued
  <2>1. /\ tlRows' = rows /\ tlError' = error /\ tlLoading' = FALSE /\ tlQueued' = FALSE
        /\ tlAsked' = tlAsked \ {q} /\ tlCountsError' = tlCountsError
    BY <1>2 DEF settled, startsAgain, spinning
  <2>2. Pending' <=> Pending
    BY <1>2, <2>1 DEF Pending
  <2>3. LiveFit'
    BY <2>1, <2>2 DEF ListInv, AskedInv, LiveFit
  <2>4. RowsFresh'
    BY <2>1, <2>2 DEF RowsFresh
  <2>5. CountsFresh'
    <3>1. Asking("counts") <=> Asking("counts")'
      BY <2>1 DEF Asking
    <3> QED
      BY <2>1, <2>2, <3>1 DEF ListInv, AskedInv, CountsFresh
  <2>6. SpinnerEnds'
    BY <2>1 DEF SpinnerEnds
  <2> QED
    BY <2>1, <2>3, <2>4, <2>5, <2>6 DEF AskedInv, ListInv, PageShape
<1> QED
  BY <1>1, <1>2

LEMMA ListAnswersStep ==
  ASSUME ListInv, NEW q \in tlAsked, ListAnswers(q)
  PROVE  ListInv'
<1>1. q \in ListRequests /\ q.kind = "list" /\ q.read \in ListServers
  BY DEF ListAnswers, ListInv, PageShape, ListRequests
<1>2. UNCHANGED <<tlServer, tlEvent, tlTimer, tlView, tlDraft, tlSide, tlSaved, tlSwallowed, tlShrunk>>
  BY DEF ListAnswers
<1>3. CASE ~q.live
  <2>1. /\ tlAsked' = tlAsked \ {q}
        /\ UNCHANGED <<tlRows, tlPages, tlCounts, tlLoading, tlError, tlCountsError, tlInFlight, tlQueued>>
    BY <1>3 DEF ListAnswers, ignored, isCurrent
  <2>2. LiveFit'
    BY <1>2, <2>1 DEF ListInv, AskedInv, LiveFit, Pending
  <2>3. (Asking("list") <=> Asking("list")') /\ (Asking("counts") <=> Asking("counts")')
    BY <1>3, <2>1 DEF Asking
  <2>4. RowsFresh' /\ CountsFresh'
    BY <1>2, <2>1, <2>3 DEF ListInv, AskedInv, RowsFresh, CountsFresh, Pending, pagesOf
  <2>5. SpinnerEnds'
    BY <1>3, <2>1 DEF ListInv, AskedInv, SpinnerEnds
  <2>6. SideFresh' /\ PagesFit' /\ RowsOfTheView' /\ PageShape'
    BY <1>2, <2>1 DEF ListInv, SideFresh, PagesFit, RowsOfTheView, PageShape, pagesOf
  <2> QED
    BY <2>2, <2>4, <2>5, <2>6 DEF ListInv, AskedInv
<1>4. CASE q.live
  <2>1. PICK rows : rows = [view |-> q.view, ver |-> q.read.ver]
    OBVIOUS
  <2>2. /\ settled(q, rows, FALSE) /\ tlPages' = pagesOf(q.view, q.read)
        /\ tlCounts' = IF q.view.filter = ToRate THEN tlCounts ELSE [filter |-> q.view.filter, ver |-> q.read.ver]
    BY <1>4, <2>1, Zenon DEF ListAnswers, isCurrent
  <2>3. /\ q.view = tlView /\ (q.read = tlServer \/ Pending)
        /\ q.read.pages <= tlServer.pages \/ tlShrunk
    BY <1>4 DEF ListInv, AskedInv, LiveFit, ListAnswers
  <2>4. tlAsked' \in SUBSET ListRequests /\ AskedInv' /\ tlRows' = rows
    <3>1. PICK error : error = FALSE
      OBVIOUS
    <3>2. ~error /\ ~Pending => /\ rows = [view |-> tlView, ver |-> tlServer.ver] /\ tlPages' = pagesOf(tlView, tlServer)
                                /\ tlView.filter # ToRate => tlCounts' = [filter |-> tlView.filter, ver |-> tlServer.ver]
      BY <2>1, <2>2, <2>3
    <3>3. tlView.filter = ToRate => tlCounts' = tlCounts
      BY <2>2, <2>3
    <3>4. settled(q, rows, error)
      BY <2>2, <3>1, Zenon
    <3> QED
      BY <1>1, <1>2, <1>4, <3>2, <3>3, <3>4, Settles
  <2>5. tlPages' \in 1..2
    BY <1>1, <2>2 DEF pagesOf, ListServers
  <2>6. PageShape' /\ SideFresh'
    BY <1>2, <2>4, <2>5 DEF ListInv, PageShape, SideFresh
  <2>7. PagesFit'
    BY <1>1, <1>2, <2>2, <2>3, <2>4 DEF ListInv, PageShape, PagesFit, pagesOf, ListServers
  <2>8. RowsOfTheView'
    BY <1>2, <2>1, <2>3, <2>4 DEF RowsOfTheView
  <2> QED
    BY <2>4, <2>6, <2>7, <2>8 DEF ListInv
<1> QED
  BY <1>3, <1>4

LEMMA ListFailsStep ==
  ASSUME ListInv, NEW q \in tlAsked, NEW denied \in BOOLEAN, ListFails(q, denied)
  PROVE  ListInv'
<1>1. q.live /\ q.kind = "list"
  BY DEF ListFails, isCurrent
<1>2. UNCHANGED <<tlServer, tlEvent, tlTimer, tlView, tlDraft, tlPages, tlCounts, tlSide, tlSaved, tlSwallowed, tlShrunk>>
  BY DEF ListFails
<1>3. PICK rows, error : rows = (IF denied THEN NoRows ELSE tlRows) /\ error = TRUE
  OBVIOUS
<1>4. settled(q, rows, error)
  BY <1>3, Zenon DEF ListFails
<1>5. tlAsked' \in SUBSET ListRequests /\ AskedInv' /\ tlRows' = rows
  BY <1>1, <1>2, <1>3, <1>4, Settles
<1>6. PageShape' /\ SideFresh'
  BY <1>2, <1>5 DEF ListInv, PageShape, SideFresh
<1>7. PagesFit' /\ RowsOfTheView'
  BY <1>2, <1>3, <1>5 DEF ListInv, PagesFit, RowsOfTheView, pagesOf
<1> QED
  BY <1>5, <1>6, <1>7 DEF ListInv

LEMMA CountsAnswerStep ==
  ASSUME ListInv, NEW q \in tlAsked, NEW ok \in BOOLEAN, CountsAnswer(q, ok)
  PROVE  ListInv'
<1>1. /\ q.kind = "counts" /\ (ok => q.read # NoRows) /\ tlAsked' = tlAsked \ {q}
      /\ tlCounts' = (IF ok /\ q.live THEN [filter |-> ToRate, ver |-> q.read.ver] ELSE tlCounts)
      /\ tlCountsError' = (IF q.live THEN ~ok ELSE tlCountsError)
      /\ UNCHANGED <<tlServer, tlEvent, tlTimer, tlView, tlDraft, tlRows, tlPages, tlLoading, tlError, tlInFlight,
                     tlQueued, tlSide, tlSaved, tlSwallowed, tlShrunk>>
  BY DEF CountsAnswer, isCurrent
<1>2. LiveFit'
  BY <1>1 DEF ListInv, AskedInv, LiveFit, Pending
<1>3. Asking("list") <=> Asking("list")'
  BY <1>1 DEF Asking
<1>4. q.live => tlView.filter = ToRate /\ (q.read # NoRows => q.read = tlServer \/ Pending)
  BY <1>1 DEF ListInv, AskedInv, LiveFit
<1>5. RowsFresh'
  BY <1>1, <1>3, <1>4 DEF ListInv, AskedInv, RowsFresh, Pending, pagesOf
<1>6. CountsFresh'
  <2>1. CASE q.live
    BY <1>1, <1>4, <2>1 DEF CountsFresh, Pending
  <2>2. CASE ~q.live
    <3>1. Asking("counts") <=> Asking("counts")'
      BY <1>1, <2>2 DEF Asking
    <3> QED
      BY <1>1, <2>2, <3>1 DEF ListInv, AskedInv, CountsFresh, Pending
  <2> QED
    BY <2>1, <2>2
<1>7. SpinnerEnds'
  BY <1>1 DEF ListInv, AskedInv, SpinnerEnds
<1>8. PageShape' /\ SideFresh' /\ PagesFit' /\ RowsOfTheView'
  BY <1>1 DEF ListInv, PageShape, SideFresh, PagesFit, RowsOfTheView, pagesOf
<1> QED
  BY <1>2, <1>5, <1>6, <1>7, <1>8 DEF ListInv, AskedInv

LEMMA ServerReadsStep ==
  ASSUME ListInv, NEW q \in tlAsked, ServerReads(q)
  PROVE  ListInv'
<1>1. PICK s \in ListServers : s = tlServer
  BY DEF ListInv, PageShape
<1>2. PICK a : a = [q EXCEPT !.read = s]
  OBVIOUS
<1>3. tlAsked' = (tlAsked \ {q}) \cup {a} /\ q.read = NoRows
  BY <1>1, <1>2, Zenon DEF ServerReads
<1>4. q \in ListRequests
  BY DEF ListInv, PageShape
<1>5. a \in ListRequests /\ a.live = q.live /\ a.kind = q.kind /\ a.view = q.view /\ a.read = s
  BY <1>2, <1>4 DEF ListRequests
<1>6. UNCHANGED <<tlServer, tlEvent, tlTimer, tlView, tlDraft, tlRows, tlPages, tlCounts, tlLoading, tlError,
                 tlCountsError, tlInFlight, tlQueued, tlSide, tlSaved, tlSwallowed, tlShrunk, tlMoves>>
  BY DEF ServerReads
<1>7. LiveFit'
  <2>1. s.pages <= s.pages
    BY DEF ListServers
  <2>2. \A x \in tlAsked' : x = a \/ x \in tlAsked \ {q}
    BY <1>3
  <2>3. \A x, y \in tlAsked' : x.live /\ y.live /\ x.kind = y.kind => x = y
    BY <1>5, <2>2 DEF ListInv, AskedInv, LiveFit
  <2>4. \A x \in tlAsked' : x.live =>
          /\ x.view = tlView
          /\ x.kind = "counts" => tlView.filter = ToRate
          /\ x.read # NoRows => (x.read = tlServer \/ Pending) /\ (x.read.pages <= tlServer.pages \/ tlShrunk)
    BY <1>1, <1>5, <2>1, <2>2 DEF ListInv, AskedInv, LiveFit
  <2>5. Pending' = Pending /\ tlServer' = tlServer /\ tlView' = tlView /\ tlShrunk' = tlShrunk
    BY <1>6 DEF Pending
  <2> QED
    BY <2>3, <2>4, <2>5, Zenon DEF LiveFit
<1>8. (Asking("list") <=> Asking("list")') /\ (Asking("counts") <=> Asking("counts")')
  BY <1>3, <1>5 DEF Asking
<1>9. RowsFresh' /\ CountsFresh' /\ SpinnerEnds'
  BY <1>6, <1>8 DEF ListInv, AskedInv, RowsFresh, CountsFresh, Pending, pagesOf, SpinnerEnds, Asking
<1>10. PageShape' /\ SideFresh' /\ PagesFit' /\ RowsOfTheView'
  BY <1>3, <1>5, <1>6 DEF ListInv, PageShape, SideFresh, PagesFit, RowsOfTheView, pagesOf
<1> QED
  BY <1>7, <1>9, <1>10 DEF ListInv, AskedInv

(* The totals and the history change by themselves.                        *)
LEMMA SideStep ==
  ASSUME ListInv, tlSide' \in Sides, SideFresh',
         UNCHANGED <<tlServer, tlEvent, tlTimer, tlView, tlDraft, rowsState, tlSaved, tlSwallowed, tlShrunk>>
  PROVE  ListInv'
<1>1. UNCHANGED <<tlRows, tlPages, tlCounts, tlLoading, tlError, tlCountsError, tlAsked, tlInFlight, tlQueued>>
  BY DEF rowsState
<1> QED
  BY <1>1 DEF ListInv, AskedInv, PageShape, LiveFit, RowsFresh, CountsFresh, SpinnerEnds, Asking, Pending, PagesFit,
              RowsOfTheView, pagesOf

LEMMA SideReadsStep ==
  ASSUME ListInv, SideReads
  PROVE  ListInv'
<1>1. PICK x \in Sides, n \in Nat : x = tlSide /\ n = tlServer.ver
  BY DEF ListInv, PageShape, ListServers
<1>2. tlSide' = [x EXCEPT !.read = n] /\ x.asked
  BY <1>1, Zenon DEF SideReads
<1>3. tlSide' \in Sides /\ tlSide'.asked /\ tlSide'.read = n
  BY <1>2 DEF Sides
<1>4. UNCHANGED <<tlServer, tlEvent, tlTimer, tlView, tlDraft, rowsState, tlSaved, tlSwallowed, tlShrunk>>
  BY DEF SideReads
<1>5. SideFresh'
  BY <1>1, <1>3, <1>4 DEF SideFresh
<1> QED
  BY <1>3, <1>4, <1>5, SideStep

LEMMA SideAnswersStep ==
  ASSUME ListInv, NEW ok \in BOOLEAN, SideAnswers(ok)
  PROVE  ListInv'
<1>1. PICK x \in Sides : x = tlSide
  BY DEF ListInv, PageShape
<1>2. PICK v \in Nat \cup {NoRows}, e \in BOOLEAN : v = (IF ok THEN x.read ELSE x.ver) /\ e = ~ok
  BY DEF Sides
<1>3. tlSide' = [x EXCEPT !.asked = FALSE, !.read = NoRows, !.error = e, !.ver = v]
  <2>1. tlSide' = [x EXCEPT !.asked = FALSE, !.read = NoRows, !.error = ~ok, !.ver = IF ok THEN x.read ELSE x.ver]
    BY <1>1, Zenon DEF SideAnswers
  <2> QED
    BY <1>2, <2>1, Zenon
<1>4. tlSide' \in Sides /\ ~tlSide'.asked /\ tlSide'.error = e /\ tlSide'.ver = v /\ tlSide'.shown = x.shown
  BY <1>3 DEF Sides
<1>5. /\ UNCHANGED <<tlServer, tlEvent, tlTimer, tlView, tlDraft, rowsState, tlSaved, tlSwallowed, tlShrunk>>
      /\ x.asked /\ (ok => x.read # NoRows)
  BY <1>1 DEF SideAnswers
<1>6. SideFresh'
  BY <1>1, <1>2, <1>4, <1>5 DEF ListInv, SideFresh
<1> QED
  BY <1>4, <1>5, <1>6, SideStep

-----------------------------------------------------------------------------
(* The user's moves                                                        *)

LEMMA EntryView ==
  ASSUME NEW f \in ListFilters, NEW s \in Searches
  PROVE  [filter |-> f, search |-> s, page |-> 1] \in ListViews /\ [filter |-> f, search |-> s, page |-> 1].page = 1
BY DEF ListViews

LEMMA ChangeFilterStep ==
  ASSUME ListInv, NEW f \in ListFilters, ChangeFilter(f)
  PROVE  ListInv'
<1>1. PICK x \in ListViews : x = tlView
  BY DEF ListInv, PageShape
<1>2. PICK v \in ListViews : v = firstPage([tlView EXCEPT !.filter = f]) /\ v.page = 1
  <2>1. firstPage([x EXCEPT !.filter = f]) \in ListViews /\ firstPage([x EXCEPT !.filter = f]).page = 1
    BY DEF ListViews, firstPage
  <2> QED
    BY <1>1, <2>1, Zenon
<1>3. lookAt(v) /\ UNCHANGED <<tlShrunk, tlServer, tlEvent, tlDraft, tlSide>>
  BY <1>2, Zenon DEF ChangeFilter
<1>4. PageShape /\ v.page <= pagesOf(v, tlServer)
  BY <1>2, FirstPages DEF ListInv
<1>5. tlShrunk' \/ (~tlShrunk /\ v.page <= pagesOf(v, tlServer))
  BY <1>3, <1>4
<1>6. tlDraft' \in Searches /\ tlSide' \in Sides /\ tlSide' = tlSide /\ tlServer' = tlServer /\ tlEvent' = tlEvent
  BY <1>3, <1>4 DEF PageShape
<1> QED
  BY <1>3, <1>5, <1>6, LookAtStep

LEMMA SearchFiresStep ==
  ASSUME ListInv, SearchFires
  PROVE  ListInv'
<1>1. PICK x \in ListViews, d \in Searches : x = tlView /\ d = tlDraft
  BY DEF ListInv, PageShape
<1>2. PICK v \in ListViews : v = firstPage([tlView EXCEPT !.search = tlDraft]) /\ v.page = 1
  <2>1. firstPage([x EXCEPT !.search = d]) \in ListViews /\ firstPage([x EXCEPT !.search = d]).page = 1
    BY DEF ListViews, firstPage
  <2> QED
    BY <1>1, <2>1, Zenon
<1>3. lookAt(v) /\ UNCHANGED <<tlShrunk, tlServer, tlEvent, tlDraft, tlSide>>
  BY <1>2, Zenon DEF SearchFires
<1>4. PageShape /\ v.page <= pagesOf(v, tlServer)
  BY <1>2, FirstPages DEF ListInv
<1>5. tlShrunk' \/ (~tlShrunk /\ v.page <= pagesOf(v, tlServer))
  BY <1>3, <1>4
<1>6. tlDraft' \in Searches /\ tlSide' \in Sides /\ tlSide' = tlSide /\ tlServer' = tlServer /\ tlEvent' = tlEvent
  BY <1>3, <1>4 DEF PageShape
<1> QED
  BY <1>3, <1>5, <1>6, LookAtStep

(* Typing changes nothing yet when the first page is selected.             *)
LEMMA TypeStep ==
  ASSUME ListInv, NEW s \in Searches, Type(s)
  PROVE  ListInv'
<1>1. PICK x \in ListViews : x = tlView
  BY DEF ListInv, PageShape
<1>2. tlDraft' = s /\ UNCHANGED <<tlShrunk, tlServer, tlEvent, tlSide>>
  BY DEF Type
<1>3. CASE tlView.page # 1
  <2>1. PICK v \in ListViews : v = [tlView EXCEPT !.page = 1] /\ v.page = 1
    <3>1. [x EXCEPT !.page = 1] \in ListViews /\ [x EXCEPT !.page = 1].page = 1
      BY DEF ListViews
    <3> QED
      BY <1>1, <3>1, Zenon
  <2>2. lookAt(v)
    BY <1>3, <2>1, Zenon DEF Type
  <2>3. PageShape /\ v.page <= pagesOf(v, tlServer)
    BY <2>1, FirstPages DEF ListInv
  <2>4. tlShrunk' \/ (~tlShrunk /\ v.page <= pagesOf(v, tlServer))
    BY <1>2, <2>3
  <2>5. tlDraft' \in Searches /\ tlSide' \in Sides /\ tlSide' = tlSide /\ tlServer' = tlServer /\ tlEvent' = tlEvent
    BY <1>2, <2>3 DEF PageShape
  <2> QED
    BY <2>2, <2>4, <2>5, LookAtStep
<1>4. CASE tlView.page = 1
  <2>1. UNCHANGED <<tlView, tlTimer, tlSwallowed, tlSaved, tlRows, tlPages, tlCounts, tlLoading, tlError, tlCountsError,
                    tlAsked, tlInFlight, tlQueued>>
    BY <1>4 DEF Type, rowsState
  <2> QED
    BY <1>2, <2>1 DEF ListInv, AskedInv, PageShape, LiveFit, RowsFresh, CountsFresh, SpinnerEnds, Asking, Pending,
                      PagesFit, RowsOfTheView, pagesOf, SideFresh
<1> QED
  BY <1>3, <1>4

LEMMA ResetStep ==
  ASSUME ListInv, NEW f \in ListFilters, resetTicketFilters(f)
  PROVE  ListInv'
<1>1. blank \in Searches
  BY ListAssumption DEF blank
<1>2. PICK v \in ListViews : v = [filter |-> f, search |-> blank, page |-> 1] /\ v.page = 1
  BY <1>1, EntryView
<1>3. lookAt(v) /\ tlDraft' = blank /\ UNCHANGED <<tlShrunk, tlServer, tlEvent, tlSide>>
  BY <1>2, Zenon DEF resetTicketFilters
<1>4. PageShape /\ v.page <= pagesOf(v, tlServer)
  BY <1>2, FirstPages DEF ListInv
<1>5. tlShrunk' \/ (~tlShrunk /\ v.page <= pagesOf(v, tlServer))
  BY <1>3, <1>4
<1>6. tlDraft' \in Searches /\ tlSide' \in Sides /\ tlSide' = tlSide /\ tlServer' = tlServer /\ tlEvent' = tlEvent
  BY <1>1, <1>3, <1>4 DEF PageShape
<1> QED
  BY <1>3, <1>5, <1>6, LookAtStep

(* A page is chosen within the pages of the rows that are shown.           *)
LEMMA TurnPageStep ==
  ASSUME ListInv, NEW n \in 1..2, TurnPage(n)
  PROVE  ListInv'
<1>1. PICK x \in ListViews : x = tlView
  BY DEF ListInv, PageShape
<1>2. PICK v \in ListViews : v = [tlView EXCEPT !.page = n] /\ v.page = n /\ v.filter = tlView.filter
  <2>1. [x EXCEPT !.page = n] \in ListViews /\ [x EXCEPT !.page = n].page = n /\ [x EXCEPT !.page = n].filter = x.filter
    BY DEF ListViews
  <2> QED
    BY <1>1, <2>1, Zenon
<1>3. /\ lookAt(v) /\ n \in 1..tlPages /\ tlShrunk' = (tlShrunk \/ tlRows = NoRows)
      /\ UNCHANGED <<tlServer, tlEvent, tlDraft, tlSide>>
  BY <1>2, Zenon DEF TurnPage
<1>4. tlShrunk' \/ (~tlShrunk /\ v.page <= pagesOf(v, tlServer))
  <2>1. ~tlShrunk /\ tlRows # NoRows => n <= pagesOf(tlView, tlServer)
    BY <1>3 DEF ListInv, PagesFit, PageShape, pagesOf, ListServers
  <2>2. pagesOf(v, tlServer) = pagesOf(tlView, tlServer)
    BY <1>2 DEF pagesOf
  <2> QED
    BY <1>2, <1>3, <2>1, <2>2
<1>5. tlDraft' \in Searches /\ tlSide' \in Sides /\ tlSide' = tlSide /\ tlServer' = tlServer /\ tlEvent' = tlEvent
  BY <1>3 DEF ListInv, PageShape
<1> QED
  BY <1>3, <1>4, <1>5, LookAtStep

LEMMA EnterStep ==
  ASSUME ListInv, NEW linked \in ListFilters \cup {NoRows}, Enter(linked)
  PROVE  ListInv'
<1>1. blank \in Searches /\ tlDraft \in Searches /\ tlSaved \in ListFilters /\ PageShape
  BY ListAssumption DEF blank, ListInv, PageShape
<1>2. PICK v \in ListViews : /\ v = (IF linked = NoRows THEN restoreTicketListEntry ELSE resolveTicketListEntry(linked))
                             /\ v.page = 1
  BY <1>1, EntryView DEF restoreTicketListEntry, resolveTicketListEntry
<1>3. lookAt(v) /\ tlDraft' = v.search /\ tlServer' = tlServer /\ tlEvent' = tlEvent /\ tlShrunk' = tlShrunk
  BY <1>2 DEF Enter
<1>4. v.search \in Searches
  BY DEF ListViews
<1>5. v.page <= pagesOf(v, tlServer)
  BY <1>1, <1>2, FirstPages
<1>6. PICK b \in BOOLEAN : b = (tlSide.shown /\ linked = NoRows)
  OBVIOUS
<1>7. tlSide' = sideAsked \/ tlSide' = historyAnew(b)
  BY <1>6, Zenon DEF Enter
<1>8. tlSide' \in Sides /\ SideFresh'
  <2>1. PICK y : y = tlSide'
    OBVIOUS
  <2>2. y = sideAsked \/ \E c \in BOOLEAN : y = historyAnew(c)
    BY <1>7, <2>1
  <2> QED
    BY <1>1, <2>1, <2>2, SideAnew
<1> QED
  BY <1>3, <1>4, <1>5, <1>8, LookAtStep

LEMMA ShowEscalationsStep ==
  ASSUME ListInv, ShowEscalations
  PROVE  ListInv'
<1>1. PICK b \in BOOLEAN : b = ~tlSide.shown
  OBVIOUS
<1>2. PICK y : y = tlSide'
  OBVIOUS
<1>3. y = historyAnew(b) /\ PageShape
  BY <1>1, <1>2, Zenon DEF ShowEscalations, ListInv
<1>4. tlSide' \in Sides /\ SideFresh'
  BY <1>2, <1>3, SideAnew
<1>5. UNCHANGED <<tlServer, tlEvent, tlTimer, tlView, tlDraft, rowsState, tlSaved, tlSwallowed, tlShrunk>>
  BY DEF ShowEscalations
<1> QED
  BY <1>4, <1>5, SideStep

(* The rows are asked for again and the view stays.                        *)
LEMMA ViewStays ==
  ASSUME ListInv, tlServer' \in ListServers, Grows, UNCHANGED <<tlView, tlDraft, tlSaved, tlPages>>,
         tlAsked' \in SUBSET ListRequests, AskedInv', tlRows' \in {tlRows, NoRows}, tlSide' \in Sides, SideFresh'
  PROVE  ListInv'
<1>1. PageShape'
  BY DEF ListInv, PageShape
<1>2. PagesFit'
  <2> SUFFICES ASSUME ~tlShrunk'
               PROVE  /\ tlView'.page <= pagesOf(tlView', tlServer')
                      /\ tlRows' # NoRows => tlPages' <= pagesOf(tlView', tlServer')
    BY DEF PagesFit
  <2>1. PICK n \in 1..2, m \in 1..2 : n = tlServer.pages /\ m = tlServer'.pages
    BY DEF ListInv, PageShape, ListServers
  <2>2. ~tlShrunk /\ n <= m
    BY <2>1 DEF Grows
  <2>3. pagesOf(tlView, tlServer) \in 1..2 /\ pagesOf(tlView, tlServer') \in 1..2
        /\ pagesOf(tlView, tlServer) <= pagesOf(tlView, tlServer')
    BY <2>1, <2>2 DEF pagesOf
  <2>4. tlView.page \in Nat /\ tlPages \in 1..2 /\ tlView.page <= pagesOf(tlView, tlServer)
        /\ (tlRows # NoRows => tlPages <= pagesOf(tlView, tlServer))
    BY <2>2 DEF ListInv, PageShape, PagesFit, ListViews
  <2> QED
    BY <2>3, <2>4
<1>3. RowsOfTheView'
  BY DEF ListInv, RowsOfTheView
<1> QED
  BY <1>1, <1>2, <1>3 DEF ListInv

LEMMA SideAskedAgain ==
  ASSUME ListInv, tlSide' = sideAsked
  PROVE  tlSide' \in Sides /\ SideFresh'
<1>1. PICK y : y = sideAsked
  OBVIOUS
<1>2. PageShape /\ tlSide' = y /\ (y = sideAsked \/ \E b \in BOOLEAN : y = historyAnew(b))
  BY <1>1 DEF ListInv
<1> QED
  BY <1>2, SideAnew

LEMMA SameSide ==
  ASSUME ListInv, UNCHANGED <<tlSide, tlServer, tlEvent, tlTimer, tlSwallowed>>
  PROVE  tlSide' \in Sides /\ SideFresh'
BY DEF ListInv, PageShape, SideFresh

LEMMA SameServer ==
  ASSUME ListInv, UNCHANGED <<tlServer, tlShrunk>>
  PROVE  tlServer' \in ListServers /\ Grows
BY DEF ListInv, PageShape, Grows, ListServers

LEMMA RetryStep ==
  ASSUME ListInv, NEW ofRows \in BOOLEAN, Retry(ofRows)
  PROVE  ListInv'
<1>1. UNCHANGED <<tlServer, tlEvent, tlTimer, tlView, tlDraft, tlSaved, tlSwallowed, tlShrunk>>
      /\ tlSide' = (IF ofRows THEN tlSide ELSE sideAsked)
  BY DEF Retry
<1>2. tlServer' \in ListServers /\ Grows
  BY <1>1, SameServer
<1>3. tlSide' \in Sides /\ SideFresh'
  BY <1>1, SameSide, SideAskedAgain
<1>4. CASE ofRows \/ tlCountsError
  <2>1. become(fetchTickets(tlView, FALSE, tlInFlight, tlRows, tlLoading, tlError)) /\ tlPages' = tlPages
    BY <1>4 DEF Retry
  <2>2. tlAsked' \in SUBSET ListRequests /\ AskedInv' /\ tlRows' \in {tlRows, NoRows}
    BY <1>1, <1>2, <2>1, Refreshed
  <2> QED
    BY <1>1, <1>2, <1>3, <2>1, <2>2, ViewStays
<1>5. CASE ~(ofRows \/ tlCountsError)
  BY <1>1, <1>3, <1>5, SideStep DEF Retry
<1> QED
  BY <1>4, <1>5

-----------------------------------------------------------------------------
(* Changes and events                                                      *)

LEMMA Changed ==
  ASSUME ListInv, NEW pages, changed(pages)
  PROVE  tlServer' \in ListServers /\ Grows /\ tlEvent' = TRUE
<1>1. tlServer \in ListServers /\ pages \in 1..2 /\ tlServer' = [ver |-> tlServer.ver + 1, pages |-> pages]
      /\ tlShrunk' = (tlShrunk \/ pages < tlServer.pages) /\ tlEvent' = TRUE
  BY DEF ListInv, PageShape, changed
<1>2. tlServer' \in ListServers /\ tlServer'.pages = pages /\ tlServer.pages \in 1..2
  BY <1>1 DEF ListServers
<1>3. CASE tlShrunk \/ pages < tlServer.pages
  <2>1. tlShrunk'
    BY <1>1, <1>3, Zenon
  <2> QED
    BY <1>1, <1>2, <2>1 DEF Grows
<1>4. CASE ~(tlShrunk \/ pages < tlServer.pages)
  BY <1>1, <1>2, <1>4 DEF Grows
<1> QED
  BY <1>3, <1>4

LEMMA OthersChangeStep ==
  ASSUME ListInv, NEW pages, OthersChange(pages)
  PROVE  ListInv'
<1>1. tlServer' \in ListServers /\ Grows /\ tlEvent' = TRUE
  BY Changed DEF OthersChange
<1>2. UNCHANGED <<tlTimer, tlView, tlDraft, tlRows, tlPages, tlCounts, tlLoading, tlError, tlCountsError, tlAsked, tlInFlight,
                 tlQueued, tlSide, tlSaved, tlSwallowed>>
  BY DEF OthersChange, rowsState
<1>3. PageShape /\ AskedInv /\ Pending' /\ tlAsked \in SUBSET ListRequests
  BY <1>1 DEF ListInv, PageShape, Pending
<1>4. AskedInv'
  BY <1>1, <1>2, <1>3, StillPending
<1>5. tlSide' \in Sides /\ SideFresh'
  BY <1>1, <1>2 DEF ListInv, PageShape, SideFresh
<1> QED
  BY <1>1, <1>2, <1>3, <1>4, <1>5, ViewStays

LEMMA OwnChangeStep ==
  ASSUME ListInv, NEW pages, NEW silent \in BOOLEAN, OwnChange(pages, silent)
  PROVE  ListInv'
<1>1. tlServer' \in ListServers /\ Grows /\ tlEvent' = TRUE
  BY Changed DEF OwnChange
<1>2. /\ UNCHANGED <<tlTimer, tlView, tlDraft, tlPages, tlCounts, tlSaved, tlSwallowed>>
      /\ become(fetchTickets(tlView, silent, tlInFlight, tlRows, tlLoading, tlError))
      /\ tlSide' = tlSide \/ tlSide' = sideAsked
  BY DEF OwnChange
<1>3. tlAsked' \in SUBSET ListRequests /\ AskedInv' /\ tlRows' \in {tlRows, NoRows}
  BY <1>1, <1>2, Refreshed
<1>4. tlSide' \in Sides /\ SideFresh'
  <2>1. CASE tlSide' = tlSide
    BY <1>1, <2>1 DEF ListInv, PageShape, SideFresh
  <2> QED
    BY <1>2, <2>1, SideAskedAgain
<1> QED
  BY <1>1, <1>2, <1>3, <1>4, ViewStays

LEMMA ToldStep ==
  ASSUME ListInv, Told
  PROVE  ListInv'
<1>1. /\ UNCHANGED <<tlServer, tlView, tlDraft, tlRows, tlPages, tlCounts, tlLoading, tlError, tlCountsError, tlAsked,
                     tlInFlight, tlQueued, tlSide, tlSaved, tlSwallowed, tlShrunk>>
      /\ tlTimer' = TRUE
  BY DEF Told, rowsState
<1>2. tlServer' \in ListServers /\ Grows
  BY <1>1, SameServer
<1>3. PageShape /\ AskedInv /\ Pending' /\ tlAsked \in SUBSET ListRequests
  BY <1>1 DEF ListInv, PageShape, Pending
<1>4. AskedInv'
  BY <1>1, <1>2, <1>3, StillPending
<1>5. tlSide' \in Sides /\ SideFresh'
  BY <1>1 DEF ListInv, PageShape, SideFresh
<1> QED
  BY <1>1, <1>2, <1>3, <1>4, <1>5, ViewStays

LEMMA TimerFiresStep ==
  ASSUME ListInv, TimerFires
  PROVE  ListInv'
<1>1. /\ UNCHANGED <<tlServer, tlView, tlDraft, tlPages, tlCounts, tlSaved, tlShrunk>>
      /\ become(fetchTickets(tlView, TRUE, tlInFlight, tlRows, tlLoading, tlError)) /\ tlSide' = sideAsked
  BY DEF TimerFires, liveSides
<1>2. tlServer' \in ListServers /\ Grows
  BY <1>1, SameServer
<1>3. tlAsked' \in SUBSET ListRequests /\ AskedInv' /\ tlRows' \in {tlRows, NoRows}
  BY <1>1, <1>2, Refreshed
<1>4. tlSide' \in Sides /\ SideFresh'
  BY <1>1, SideAskedAgain
<1> QED
  BY <1>1, <1>2, <1>3, <1>4, ViewStays

-----------------------------------------------------------------------------
LEMMA ListStep ==
  ASSUME ListInv, [ListNext]_tlVars
  PROVE  ListInv'
<1>1. CASE UNCHANGED tlVars
  BY <1>1 DEF tlVars, ListInv, AskedInv, PageShape, LiveFit, RowsFresh, CountsFresh, SpinnerEnds, Asking, Pending,
              PagesFit, RowsOfTheView, pagesOf, SideFresh
<1>2. ASSUME NEW f \in ListFilters, ChangeFilter(f) \/ resetTicketFilters(f) \/ Enter(f)
      PROVE  ListInv'
  BY <1>2, ChangeFilterStep, ResetStep, EnterStep
<1>3. ASSUME NEW s \in Searches, Type(s)
      PROVE  ListInv'
  BY <1>3, TypeStep
<1>4. ASSUME NEW n \in 1..2, TurnPage(n) \/ OthersChange(n)
      PROVE  ListInv'
  BY <1>4, TurnPageStep, OthersChangeStep
<1>5. ASSUME NEW n \in 1..2, NEW silent \in BOOLEAN, OwnChange(n, silent)
      PROVE  ListInv'
  BY <1>5, OwnChangeStep
<1>6. CASE SearchFires \/ Retry(TRUE) \/ Retry(FALSE) \/ Enter(NoRows) \/ ShowEscalations \/ Told \/ TimerFires
  BY <1>6, SearchFiresStep, RetryStep, EnterStep, ShowEscalationsStep, ToldStep, TimerFiresStep
<1>7. ASSUME NEW q \in tlAsked, ServerReads(q) \/ ListAnswers(q)
      PROVE  ListInv'
  BY <1>7, ServerReadsStep, ListAnswersStep
<1>8. ASSUME NEW q \in tlAsked, NEW b \in BOOLEAN, ListFails(q, b) \/ CountsAnswer(q, b)
      PROVE  ListInv'
  BY <1>8, ListFailsStep, CountsAnswerStep
<1>9. ASSUME SideReads \/ \E ok \in BOOLEAN : SideAnswers(ok)
      PROVE  ListInv'
  BY <1>9, SideReadsStep, SideAnswersStep
<1> QED
  BY <1>1, <1>2, <1>3, <1>4, <1>5, <1>6, <1>7, <1>8, <1>9 DEF ListNext

LEMMA ListInvHolds == ListInv => ListHolds
<1> SUFFICES ASSUME ListInv PROVE ListHolds
  OBVIOUS
<1>1. RowsOfTheView /\ SpinnerEnds
  BY DEF ListInv, AskedInv
<1>2. Quiet => ~Pending /\ ~Asking("list") /\ ~Asking("counts")
  BY DEF Quiet, Pending, Asking
<1>3. QuietListIsCurrent
  BY <1>2 DEF QuietListIsCurrent, ListInv, AskedInv, RowsFresh, CountsFresh
<1>4. QuietTotalsAreCurrent
  BY DEF QuietTotalsAreCurrent, Quiet, ListInv, SideFresh
<1>5. PageWithinList
  BY <1>2 DEF PageWithinList, ListInv, AskedInv, RowsFresh, PagesFit, PageShape, ListViews
<1> QED
  BY <1>1, <1>3, <1>4, <1>5 DEF ListHolds

(* Whatever order answers, events and the user's moves come in, the list   *)
(* shows the rows of the view selected, a spinner has a request behind it, *)
(* and a quiet list shows what the server has (fetchTickets and the live   *)
(* updates of the tickets page).                                           *)
THEOREM ListIsCurrent == ListSpec => []ListHolds
BY ListStarts, ListStep, ListInvHolds, PTL DEF ListSpec
=============================================================================
