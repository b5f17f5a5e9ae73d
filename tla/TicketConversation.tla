------------------------- MODULE TicketConversation -------------------------
(***************************************************************************)
(* Who may see one ticket, and what they say on it: the listings and the   *)
(* read check, comments and internal notes with their mentions and         *)
(* notifications, the replacement of an attached image, and the escalation *)
(* records with their proof images.                                        *)
(*                                                                         *)
(* A comment is checked against the ticket as read and stored later.  A    *)
(* replacement runs in one transaction under the row locks.  Accepting,    *)
(* returning and supplementing an escalation each read the record and save *)
(* all of it later; only the first two take the named lock.                *)
(***************************************************************************)
EXTENDS Integers, Sequences, FiniteSets

CONSTANTS
  People,
  Is,          \* what each person's role is and may: a set of the flags below
  Slots,       \* requests in flight at the same time
  MaxCalls, MaxProofs, MaxMoves,   \* bounds; MaxProofs is 5 in the code
  Nobody

Flags == {"user", "all", "settings", "focal", "escalation", "technician"}
\* Regular users are not staff (users.service 206-212): the capabilities are taken to be
\* configured so that none of them is an escalation focal.
ASSUME PeopleAssumption ==
  /\ Is \in [People -> SUBSET Flags] /\ Nobody \notin People
  /\ \A p \in People : ~({"user", "escalation"} \subseteq Is[p])
  /\ MaxProofs \in Nat \ {0}

VARIABLES
  tk,         \* the ticket row: status, requester, creator, owner, overtime
  esc,        \* ticket_escalations in order of creation
  clocked,    \* people with a clock-in on the ticket's overtime day
  comments,   \* ticket_comments in order of creation
  replaced,   \* attachment_replaced events
  disk,       \* image files below the comment storage root
  nextFile, asking, sent, callCount, moves
convVars == <<tk, esc, clocked, comments, replaced, disk, nextFile, asking, sent, callCount, moves>>
chat == <<comments, replaced, disk, nextFile>>

NoCall == [op |-> "none"]
isUser(p) == "user" \in Is[p]

----------------------------------------------------------------------------
(* Access                                                                  *)

Ended == {"resolved", "closed", "duplicate", "cancelled"}

\* enrichTicketsWithUsers: the owner a reader sees.
Seen ==
  LET accepted == {e \in 1..Len(esc) : esc[e].status = "accepted"} IN
  IF accepted = {} \/ tk.status \in Ended THEN tk
  ELSE [tk EXCEPT !.owner = esc[CHOOSE e \in accepted : \A d \in accepted : d <= e].to]

own(p, t) == p \in {t.requester, t.creator, t.owner}

\* canAccessTicketByEscalation
participant(p) == \E e \in 1..Len(esc) : p \in {esc[e].by, esc[e].to}

isOvertimeAdministrator(p) == ~isUser(p) /\ Is[p] \cap {"settings", "focal"} # {}
\* isOvertimeStaff; the role super_admin, which sees everything, is left out of the model.
isOvertimeStaff(p) == ~isUser(p)
inPool(p, t) == t.status = "open" /\ t.owner = Nobody /\ p \in clocked

\* assertTicketReadAccess
mayRead(p, t) ==
  IF t.overtime
  THEN isOvertimeAdministrator(p) \/ own(p, t) \/ (isOvertimeStaff(p) /\ (inPool(p, t) \/ participant(p)))
  ELSE "all" \in Is[p] \/ own(p, t) \/ participant(p)

\* applyOvertimeReadScope with overtimeReadScope
overtimeReadScope(p) ==
  isOvertimeAdministrator(p) \/ ~tk.overtime \/ own(p, tk) \/ (isOvertimeStaff(p) /\ (inPool(p, tk) \/ participant(p)))

\* getTickets: the listings, by the page that asks for them.
listed(p, list) ==
  /\ overtimeReadScope(p)
  /\ \/ list = "requested" /\ tk.requester = p
     \/ list = "proxy" /\ tk.creator = p /\ tk.requester # p
     \/ list = "escalated" /\ "escalation" \in Is[p] /\ \E e \in 1..Len(esc) : esc[e].to = p /\ esc[e].status = "pending"
     \/ list = "assigned" /\ ~isUser(p) /\ tk.owner = p
     \/ list = "overtime" /\ ~isUser(p) /\ tk.overtime /\ tk.status = "open" /\ tk.owner = Nobody
     \/ list = "all" /\ IF isUser(p) THEN p \in {tk.requester, tk.creator}
                        ELSE \/ "all" \in Is[p] \/ own(p, tk)
                             \/ tk.overtime /\ inPool(p, tk)

Lists == {"requested", "proxy", "escalated", "assigned", "overtime", "all"}

\* getLatestActiveEscalation
activeEscalation ==
  IF esc # <<>> /\ esc[Len(esc)].status \in {"pending", "accepted"} THEN {esc[Len(esc)].by, esc[Len(esc)].to} ELSE {}

\* canViewInternalNotes, with the escalation looked up when it is needed
canViewInternalNotes(p, t) ==
  /\ ~isUser(p)
  /\ \/ "settings" \in Is[p] \/ p \in {t.requester, t.owner} \/ p \in activeEscalation
     \/ t.creator = p /\ t.creator # t.requester

----------------------------------------------------------------------------
(* Comments and notes                                                      *)

ConvFree(s) == asking[s] = NoCall /\ callCount < MaxCalls

ConvBegin(s, call) ==
  /\ callCount' = callCount + 1
  /\ asking' = [asking EXCEPT ![s] = call]

\* What a check of a person's right to the notes is about.
asItIs == [ticket |-> Seen, escs |-> esc]

\* addComment up to the mentions: the ticket is read, and access to it checked.
CommentRead(s, p) ==
  /\ ConvFree(s) /\ mayRead(p, Seen)
  /\ \E internal \in BOOLEAN, mention \in {Nobody} \cup (People \ {p}), images \in 0..1 :
       /\ internal => canViewInternalNotes(p, Seen)
       /\ ~internal => mention = Nobody
       /\ isUser(p) => tk.requester = p
       /\ ConvBegin(s, [op |-> IF mention = Nobody THEN "store" ELSE "mention", who |-> p, internal |-> internal,
                    mention |-> mention, images |-> images, ticket |-> Seen, checked |-> asItIs])
  /\ UNCHANGED <<tk, esc, clocked, chat, sent, moves>>

\* getInternalNoteMentionCandidates
mentionCandidate(p, who) ==
  /\ p # who /\ ~isUser(p) /\ canViewInternalNotes(p, Seen)
  /\ tk.overtime => mayRead(p, Seen)

\* The mentions are checked against the ticket as it is by now.
CheckMention(s) ==
  /\ asking[s].op = "mention"
  /\ LET c == asking[s] IN
       asking' = [asking EXCEPT ![s] =
                    IF mayRead(c.who, Seen) /\ canViewInternalNotes(c.who, Seen) /\ mentionCandidate(c.mention, c.who)
                    THEN [c EXCEPT !.op = "store", !.checked = asItIs] ELSE NoCall]
  /\ UNCHANGED <<tk, esc, clocked, chat, sent, callCount, moves>>

\* The recipients of a note beside the mentioned person: owner and proxy filer.
noteRecipients(c) ==
  ({c.ticket.owner} \cup
   (IF c.ticket.creator # c.ticket.requester /\ ~isUser(c.ticket.creator) THEN {c.ticket.creator} ELSE {}))
  \ {Nobody, c.who, c.mention}

\* sendNotification leaves out who may not read an overtime ticket now.
reached(people) == {p \in people : tk.overtime => mayRead(p, tk)}

\* Files first, then the comment, then the notifications.
StoreComment(s) ==
  /\ asking[s].op = "store"
  /\ LET c == asking[s]
         new == nextFile..(nextFile + c.images - 1)
         notified == reached((noteRecipients(c) \cup {c.mention}) \ {Nobody})
     IN  /\ disk' = disk \cup new /\ nextFile' = nextFile + c.images
         /\ comments' = Append(comments, [author |-> c.who, internal |-> c.internal,
                                          images |-> IF c.images = 0 THEN <<>> ELSE <<nextFile>>])
         /\ sent' = IF c.internal
                    THEN sent \cup {[inside |-> canViewInternalNotes(p, Seen),
                                     moved |-> c.ticket # Seen \/ c.checked # asItIs] : p \in notified}
                    ELSE sent
  /\ asking' = [asking EXCEPT ![s] = NoCall]
  /\ UNCHANGED <<tk, esc, clocked, replaced, callCount, moves>>

----------------------------------------------------------------------------
(* Replacing an image                                                      *)

\* The page knows an image and offers its replacement.
ReplaceAsk(s, p, k) ==
  /\ ConvFree(s) /\ mayRead(p, Seen)
  /\ comments[k].internal => canViewInternalNotes(p, Seen)
  /\ \E x \in 1..Len(comments[k].images) :
       ConvBegin(s, [op |-> "replace", who |-> p, comment |-> k, path |-> comments[k].images[x]])
  /\ UNCHANGED <<tk, esc, clocked, chat, sent, moves>>

\* assertImageReplacementAllowed for the image of a comment; the images filed with a
\* ticket, whose owners are filer and requester, are left out.
replaceable(p, k) ==
  /\ tk.status \in (IF isUser(p) THEN {"open", "assigned", "in_progress"}
                    ELSE {"open", "assigned", "in_progress", "resolved"})
  /\ comments[k].author = p

\* The path the page showed is still one of the comment's.
stillAttached(c) == \E x \in 1..Len(comments[c.comment].images) : comments[c.comment].images[x] = c.path

\* replaceCommentImage: one transaction under the locks of both rows, which may
\* still fail to commit; the new file is then removed again.
ReplaceImage(s) ==
  /\ asking[s].op = "replace"
  /\ LET c == asking[s]
         allowed == mayRead(c.who, tk) /\ replaceable(c.who, c.comment) /\ stillAttached(c)
                    /\ (comments[c.comment].internal => canViewInternalNotes(c.who, tk))
     IN  \/ /\ allowed
            /\ comments' = [comments EXCEPT ![c.comment].images = <<nextFile>>]
            /\ replaced' = replaced \cup {[comment |-> c.comment, old |-> c.path, new |-> nextFile]}
            /\ disk' = disk \cup {nextFile}
         \/ UNCHANGED <<disk, comments, replaced>>
  /\ nextFile' = nextFile + 1 /\ asking' = [asking EXCEPT ![s] = NoCall]
  /\ UNCHANGED <<tk, esc, clocked, sent, callCount, moves>>

\* Mutant: replaced images are not looked for in the events
currentOnly(f) == {k \in 1..Len(comments) : \E x \in 1..Len(comments[k].images) : comments[k].images[x] = f}

\* ensureCommentAttachmentReadable: the comment a file is looked up by.
referencedBy(f) ==
  LET now == {k \in 1..Len(comments) : \E x \in 1..Len(comments[k].images) : comments[k].images[x] = f} IN
  IF now # {} THEN now ELSE {r.comment : r \in {r \in replaced : f \in {r.old, r.new}}}

----------------------------------------------------------------------------
(* Escalations                                                             *)

\* escalateTicket, under the named lock
Escalate(p, f) ==
  /\ callCount < MaxCalls /\ callCount' = callCount + 1
  /\ Is[p] \cap {"focal", "settings", "all", "technician"} # {} /\ mayRead(p, Seen)
  /\ tk.status \notin Ended /\ (esc # <<>> => esc[Len(esc)].status # "pending")
  /\ "escalation" \in Is[f]
  /\ \E n \in 0..1 : esc' = Append(esc, [by |-> p, to |-> f, status |-> "pending", proofs |-> n])
  /\ UNCHANGED <<tk, clocked, chat, asking, sent, moves>>

\* Mutant: an answer does not look at the status
answeredOrNot(e) == TRUE

\* What all three requests ask of the record they read.
stillPending(e) == esc[e].status = "pending"

\* At most five proof images, counted on the record as read.
room(e) == esc[e].proofs < MaxProofs

named == {"accept", "return"}

\* The record is read and checked; accept and return hold the named lock from here on.
EscRead(s, e, op) ==
  /\ ConvFree(s)
  /\ op \in named => stillPending(e) /\ ~\E t \in Slots : asking[t].op \in named
  /\ op = "proof" => esc[e].status = "pending" /\ room(e)
  /\ op = "accept" => tk.status # "cancelled"
  /\ ConvBegin(s, [op |-> op, rec |-> e, entity |->
                 CASE op = "accept" -> [esc[e] EXCEPT !.status = "accepted"]
                   [] op = "return" -> [esc[e] EXCEPT !.status = "returned"]
                   [] op = "proof"  -> [esc[e] EXCEPT !.proofs = @ + 1],
               read |-> esc[e]])
  /\ UNCHANGED <<tk, esc, clocked, chat, sent, moves>>

\* The save writes every column of the record; accepting gives the ticket to the
\* focal as well.
EscWrite(s) ==
  /\ asking[s].op \in named \cup {"proof"}
  /\ esc' = [esc EXCEPT ![asking[s].rec] = asking[s].entity]
  /\ tk' = IF asking[s].op # "accept" THEN tk
           ELSE [tk EXCEPT !.owner = asking[s].entity.to,
                           !.status = IF tk.status \in {"resolved", "closed"} THEN @ ELSE "in_progress"]
  /\ asking' = [asking EXCEPT ![s] = NoCall]
  /\ UNCHANGED <<clocked, chat, sent, callCount, moves>>

----------------------------------------------------------------------------
(* What other handlers do to the ticket meanwhile                          *)

\* assignTicket and correctTicketRequester; somebody clocks in.
Moved ==
  /\ moves < MaxMoves /\ moves' = moves + 1
  /\ \/ /\ \E p \in People : ~isUser(p) /\ p # tk.requester /\ tk' = [tk EXCEPT !.owner = p, !.status = "assigned"]
        /\ tk.status \in {"open", "assigned", "in_progress"} /\ UNCHANGED clocked
     \/ /\ \E p \in People : p # tk.owner /\ tk' = [tk EXCEPT !.requester = p]
        /\ tk.status \in {"assigned", "in_progress", "resolved"} /\ UNCHANGED clocked
     \/ \E p \in People : ~isUser(p) /\ clocked' = clocked \cup {p} /\ UNCHANGED tk
     \/ tk.status = "in_progress" /\ tk' = [tk EXCEPT !.status = "resolved"] /\ UNCHANGED clocked
  /\ UNCHANGED <<esc, chat, asking, sent, callCount>>

\* cancelTicket cancels the open escalations in the same transaction.
Cancel ==
  /\ moves < MaxMoves /\ moves' = moves + 1
  /\ tk.status \notin Ended /\ tk' = [tk EXCEPT !.status = "cancelled"]
  /\ esc' = [e \in 1..Len(esc) |-> IF esc[e].status \in {"pending", "accepted"}
                                   THEN [esc[e] EXCEPT !.status = "cancelled"] ELSE esc[e]]
  /\ UNCHANGED <<clocked, chat, asking, sent, callCount>>

----------------------------------------------------------------------------
ConvInit ==
  /\ tk \in [status : {"open"}, requester : People, creator : People, owner : {Nobody}, overtime : BOOLEAN]
  /\ ~isUser(tk.creator) \/ tk.creator = tk.requester
  /\ esc = <<>> /\ clocked = {} /\ comments = <<>> /\ replaced = {} /\ disk = {} /\ nextFile = 1
  /\ asking = [s \in Slots |-> NoCall] /\ sent = {} /\ callCount = 0 /\ moves = 0

ConvNext ==
  \/ \E s \in Slots :
       \/ \E p \in People : CommentRead(s, p)
       \/ \E p \in People, k \in 1..Len(comments) : ReplaceAsk(s, p, k)
       \/ \E e \in 1..Len(esc), op \in {"accept", "return", "proof"} : EscRead(s, e, op)
       \/ CheckMention(s) \/ StoreComment(s) \/ ReplaceImage(s) \/ EscWrite(s)
  \/ \E p, f \in People : Escalate(p, f)
  \/ Moved \/ Cancel

ConvSpec == ConvInit /\ [][ConvNext]_convVars

----------------------------------------------------------------------------
ConvTypeOK ==
  /\ tk.owner \in People \cup {Nobody} /\ tk.requester \in People /\ tk.creator \in People
  /\ \A e \in 1..Len(esc) : esc[e].status \in {"pending", "accepted", "returned", "cancelled"}
                            /\ esc[e].proofs \in 0..MaxProofs
  /\ \A k \in 1..Len(comments) : comments[k].author \in People
  /\ disk \subseteq 1..(nextFile - 1)

\* Whatever a listing shows a person can be opened, in every role and also for
\* overtime tickets: the SQL of the listings and the check of a read agree, unless an
\* accepted escalation hides the owner the row has by now (enrichTicketsWithUsers).
ListedIsReadable ==
  Seen.owner = tk.owner => \A p \in People : mayRead(p, Seen) \/ \A l \in Lists : ~listed(p, l)

\* A notification about an internal note reaches only people who may read the notes,
\* unless the ticket changed hands while the note was being written.
NotesStayInside == \A n \in sent : n.inside \/ n.moved

\* Every image file belongs to the one comment it was uploaded for, also after it was
\* replaced, and a replacement that failed leaves none behind; so an image of an
\* internal note is never served as one of a public comment.
ImagesTraceable == \A f \in disk : Cardinality(referencedBy(f)) = 1

\* An image is replaced at most once, however many pages showed it.
ReplacedOnce == \A r, q \in replaced : r.old = q.old => r = q

\* An answered escalation changes only through a save that was prepared from the
\* record while it was pending (updateEscalationProof saves outside the named lock).
AnswerLostOnlyByStaleSave ==
  [][\A e \in 1..Len(esc) : (esc[e].status \in {"accepted", "returned"} /\ esc'[e].status # esc[e].status) =>
       \/ tk'.status = "cancelled" /\ esc'[e].status = "cancelled"
       \/ \E s \in Slots : asking[s].op = "proof" /\ asking'[s] = NoCall /\ asking[s].rec = e
            /\ asking[s].read.status = "pending"]_convVars

\* Who sees, hears and keeps what of a conversation.
ConversationHolds == ConvTypeOK /\ ListedIsReadable /\ NotesStayInside /\ ImagesTraceable /\ ReplacedOnce
=============================================================================
