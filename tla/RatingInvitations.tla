-------------------------- MODULE RatingInvitations --------------------------
(***************************************************************************)
(* Feedback invitations of one requester: staff send a link by e-mail, the *)
(* recipient opens it, asks for a code, verifies it and rates the tickets  *)
(* of the invitation.  Every operation reads the invitation row, waits for *)
(* another service or for the mail server, and then saves the whole row it *)
(* read: requests in flight hold that copy.  When serial is TRUE one       *)
(* request runs at a time; otherwise they interleave.                      *)
(***************************************************************************)
EXTENDS Naturals, FiniteSets

CONSTANTS Invitations,   \* identifiers for new invitations
          Tickets,       \* resolved tickets of the requester
          Clients,       \* requests that can be in flight
          MaxAttempts,   \* wrong codes after which a code is void (5)
          MaxCodes, MaxTokens, MaxEvents,
                         \* bounds: codes (one while requests interleave), sessions, outside events
          None

ASSUME RatingConstants ==
  /\ IsFiniteSet(Invitations) /\ IsFiniteSet(Tickets)
  /\ {MaxAttempts, MaxCodes} \subseteq Nat \ {0} /\ {MaxTokens, MaxEvents} \subseteq Nat

VARIABLES
  inv,      \* rating_invitations: status, opened, code, attempts, session
  links,    \* rating_invitation_tickets: links[i][t] is "none", "open" or "rated"
  rated,    \* tickets with satisfactionSubmittedAt
  mailed,   \* invitations whose link has been sent
  old,      \* expired invitations, codes and sessions
  moved,    \* the requester's e-mail address has changed
  issued,   \* codes and sessions issued so far
  guesses,  \* wrong guesses answered per code (history)
  req,      \* requests in flight
  serial,
  events    \* outside events so far (bound)

vars == <<inv, links, rated, mailed, old, moved, issued, guesses, req, serial, events>>

Codes  == 1..MaxCodes
Tokens == 1..MaxTokens
Status == {"none", "active", "revoked", "expired", "completed"}
Fresh  == [status |-> "none", opened |-> FALSE, code |-> 0, attempts |-> 0, session |-> 0]
Closed(status) == status \in {"revoked", "expired", "completed"}

InitWith(n) ==
  /\ inv = [i \in Invitations |-> Fresh]
  /\ links = [i \in Invitations |-> [t \in Tickets |-> "none"]]
  /\ rated = {} /\ mailed = {} /\ old = {} /\ moved = FALSE
  /\ issued = [codes |-> 0, tokens |-> 0]
  /\ guesses = [c \in Codes |-> 0]
  /\ req = [c \in Clients |-> None]
  /\ events = n

Init == serial \in BOOLEAN /\ InitWith(0)

Idle(c) == req[c] = None /\ (serial => \A d \in Clients : req[d] = None)
Hold(c, r) == req' = [req EXCEPT ![c] = r]
End(c) == Hold(c, None)
save(i, row) == inv' = [inv EXCEPT ![i] = row]

----------------------------------------------------------------------------
\* sendInvitations: the active invitations are looked up ...
SendBegin(c) ==
  /\ Idle(c) /\ Tickets \ rated # {}
  /\ \E i \in Invitations :
       /\ inv[i] = Fresh /\ \A d \in Clients : req[d] # None => req[d].i # i
       /\ Hold(c, [op |-> "send", i |-> i, tickets |-> Tickets \ rated,
                   prev |-> {x \in Invitations : inv[x].status = "active"}])
  /\ UNCHANGED <<inv, links, rated, mailed, old, moved, issued, guesses, serial, events>>

Revoked(row) == [row EXCEPT !.status = "revoked", !.code = 0, !.session = 0]

\* ... revoked, and the new one is stored with its tickets, in a transaction.
SendStore(c) ==
  /\ req[c] # None /\ req[c].op = "send"
  /\ inv' = [x \in Invitations |->
               IF x = req[c].i THEN [Fresh EXCEPT !.status = "active"]
               ELSE IF x \in req[c].prev THEN Revoked(inv[x]) ELSE inv[x]]
  /\ links' = [links EXCEPT ![req[c].i] = [t \in Tickets |-> IF t \in req[c].tickets THEN "open" ELSE "none"]]
  /\ Hold(c, [op |-> "mail", i |-> req[c].i, row |-> [Fresh EXCEPT !.status = "active"]])
  /\ UNCHANGED <<rated, mailed, old, moved, issued, guesses, serial, events>>

\* The e-mail is sent, suppressed by policy or fails ...
SendMail(c) ==
  /\ req[c] # None /\ req[c].op = "mail"
  /\ \E sent \in BOOLEAN :
       /\ mailed' = IF sent THEN mailed \cup {req[c].i} ELSE mailed
       /\ Hold(c, [op |-> "delivered", i |-> req[c].i,
                   row |-> IF sent THEN req[c].row ELSE [req[c].row EXCEPT !.status = "revoked"]])
  /\ UNCHANGED <<inv, links, rated, old, moved, issued, guesses, serial, events>>

\* ... and the row as it was stored is saved with the outcome.
SendSave(c) ==
  /\ req[c] # None /\ req[c].op = "delivered"
  /\ save(req[c].i, req[c].row)
  /\ End(c)
  /\ UNCHANGED <<links, rated, mailed, old, moved, issued, guesses, serial, events>>

----------------------------------------------------------------------------
\* Mutant: the status of the invitation is not checked
anyInvitationByToken(i) == i \in mailed /\ i \notin old

\* getActiveInvitationByToken: the row of an active, unexpired invitation; an
\* expired one is closed at once.
getActiveInvitationByToken(i) == i \in mailed /\ inv[i].status = "active" /\ i \notin old

ExpireOnAccess(i) ==
  /\ i \in mailed /\ inv[i].status = "active" /\ i \in old
  /\ \E c \in Clients : Idle(c)
  /\ save(i, [inv[i] EXCEPT !.status = "expired", !.code = 0, !.session = 0])
  /\ UNCHANGED <<links, rated, mailed, old, moved, issued, guesses, req, serial, events>>

Begin(c, i, op) ==
  /\ Idle(c) /\ getActiveInvitationByToken(i)
  /\ Hold(c, [op |-> op, i |-> i, row |-> inv[i]])
  /\ UNCHANGED <<inv, links, rated, mailed, old, moved, issued, guesses, serial, events>>

\* getInvitationStatus saves the row when it is opened for the first time.
getInvitationStatus(c) ==
  /\ req[c] # None /\ req[c].op = "open"
  /\ IF req[c].row.opened THEN UNCHANGED inv ELSE save(req[c].i, [req[c].row EXCEPT !.opened = TRUE])
  /\ End(c)
  /\ UNCHANGED <<links, rated, mailed, old, moved, issued, guesses, serial, events>>

\* requestVerificationCode: a changed address revokes the invitation,
\* otherwise a new code with a fresh attempt count is saved and mailed.
requestVerificationCode(c) ==
  /\ req[c] # None /\ req[c].op = "code"
  /\ IF moved
       THEN /\ save(req[c].i, Revoked(req[c].row)) /\ End(c) /\ UNCHANGED issued
       ELSE /\ issued.codes < (IF serial THEN MaxCodes ELSE 1)
            /\ issued' = [issued EXCEPT !.codes = @ + 1]
            /\ LET row == [req[c].row EXCEPT !.code = issued.codes + 1, !.attempts = 0]
               IN save(req[c].i, row) /\ Hold(c, [op |-> "codemail", i |-> req[c].i, row |-> row])
  /\ UNCHANGED <<links, rated, mailed, old, moved, guesses, serial, events>>

CodeMail(c) ==
  /\ req[c] # None /\ req[c].op = "codemail"
  /\ \/ UNCHANGED inv
     \/ save(req[c].i, [req[c].row EXCEPT !.code = 0])
  /\ End(c)
  /\ UNCHANGED <<links, rated, mailed, old, moved, issued, guesses, serial, events>>

\* verifyCode on the row read
CodeUsable(row) == row.code # 0 /\ row.code \notin {x[2] : x \in {o \in old : o \in {"code"} \X Codes}}

VerifyWrong(c) ==
  /\ req[c] # None /\ req[c].op = "verify" /\ CodeUsable(req[c].row)
  /\ LET row == [req[c].row EXCEPT !.attempts = @ + 1]
     IN save(req[c].i, IF row.attempts >= MaxAttempts THEN [row EXCEPT !.code = 0] ELSE row)
  /\ guesses' = [guesses EXCEPT ![req[c].row.code] = @ + 1]
  /\ End(c)
  /\ UNCHANGED <<links, rated, mailed, old, moved, issued, serial, events>>

VerifyRight(c) ==
  /\ req[c] # None /\ req[c].op = "verify" /\ CodeUsable(req[c].row)
  /\ issued.tokens < MaxTokens
  /\ issued' = [issued EXCEPT !.tokens = @ + 1]
  /\ save(req[c].i, [req[c].row EXCEPT !.session = issued.tokens + 1, !.code = 0, !.attempts = 0,
                                       !.opened = TRUE])
  /\ End(c)
  /\ UNCHANGED <<links, rated, mailed, old, moved, guesses, serial, events>>

\* No code, or one past its ten minutes, which is removed
VerifyUnusable(c) ==
  /\ req[c] # None /\ req[c].op = "verify" /\ ~CodeUsable(req[c].row)
  /\ save(req[c].i, IF req[c].row.code = 0 THEN inv[req[c].i] ELSE [req[c].row EXCEPT !.code = 0])
  /\ End(c)
  /\ UNCHANGED <<links, rated, mailed, old, moved, issued, guesses, serial, events>>

----------------------------------------------------------------------------
\* getInvitationBySession with a token issued earlier ...
SessionBegin(c, i, t) ==
  /\ Idle(c) /\ inv[i].status = "active" /\ inv[i].session # 0
  /\ i \notin old /\ <<"session", inv[i].session>> \notin old
  /\ links[i][t] # "none"
  /\ Hold(c, [op |-> "rate", i |-> i, t |-> t, row |-> inv[i]])
  /\ UNCHANGED <<inv, links, rated, mailed, old, moved, issued, guesses, serial, events>>

\* ... which is dropped when it, or the invitation, has expired.
SessionExpired(i) ==
  /\ inv[i].status = "active" /\ inv[i].session # 0
  /\ i \in old \/ <<"session", inv[i].session>> \in old
  /\ \E c \in Clients : Idle(c)
  /\ save(i, [inv[i] EXCEPT !.session = 0, !.status = IF i \in old THEN "expired" ELSE @])
  /\ UNCHANGED <<links, rated, mailed, old, moved, issued, guesses, req, serial, events>>

\* The session's check of the requester: a changed address revokes.
RevokedBySession(row) == [row EXCEPT !.status = "revoked", !.session = 0]

\* submitRating: a changed address revokes; a ticket is rated once ...
SubmitRating(c) ==
  /\ req[c] # None /\ req[c].op = "rate"
  /\ IF moved
       THEN /\ save(req[c].i, RevokedBySession(req[c].row))
            /\ End(c) /\ UNCHANGED rated
       ELSE /\ UNCHANGED inv
            /\ IF req[c].t \in rated THEN End(c) /\ UNCHANGED rated
               ELSE /\ rated' = rated \cup {req[c].t}
                    /\ Hold(c, [req[c] EXCEPT !.op = "track"])
  /\ UNCHANGED <<links, mailed, old, moved, issued, guesses, serial, events>>

\* ... and then the links of rated tickets are closed, and the invitation with
\* the last of them; a failure here is logged and forgotten.
TrackedLinks(i, t) ==
  [u \in Tickets |-> IF links[i][u] = "open" /\ (u = t \/ u \in rated) THEN "rated" ELSE links[i][u]]

\* Mutant: the invitation is completed by its first rating
TrackFirst(c) ==
  /\ req[c] # None /\ req[c].op = "track"
  /\ links' = [links EXCEPT ![req[c].i] = TrackedLinks(req[c].i, req[c].t)]
  /\ save(req[c].i, [req[c].row EXCEPT !.status = "completed", !.session = 0])
  /\ End(c)
  /\ UNCHANGED <<rated, mailed, old, moved, issued, guesses, serial, events>>

TrackRating(c) ==
  /\ req[c] # None /\ req[c].op = "track"
  /\ links' = [links EXCEPT ![req[c].i] = TrackedLinks(req[c].i, req[c].t)]
  /\ IF \E u \in Tickets : links'[req[c].i][u] = "open" THEN UNCHANGED inv
     ELSE save(req[c].i, [req[c].row EXCEPT !.status = "completed", !.session = 0])
  /\ End(c)
  /\ UNCHANGED <<rated, mailed, old, moved, issued, guesses, serial, events>>

TrackFails(c) ==
  /\ req[c] # None /\ req[c].op = "track"
  /\ End(c)
  /\ UNCHANGED <<inv, links, rated, mailed, old, moved, issued, guesses, serial, events>>

----------------------------------------------------------------------------
\* Time passes, the requester changes address or rates a ticket while signed
\* in, and the service restarts.
Event == events < MaxEvents /\ events' = events + 1

Expire ==
  /\ Event
  /\ \E x \in {i \in Invitations : inv[i].status = "active"}
           \cup {<<"code", n>> : n \in 1..issued.codes} \cup {<<"session", n>> : n \in 1..issued.tokens} :
       x \notin old /\ old' = old \cup {x}
  /\ UNCHANGED <<inv, links, rated, mailed, moved, issued, guesses, req, serial>>

ChangeAddress ==
  /\ Event
  /\ ~moved /\ moved' = TRUE
  /\ UNCHANGED <<inv, links, rated, mailed, old, issued, guesses, req, serial>>

RateSignedIn(t) ==
  /\ Event
  /\ t \notin rated /\ rated' = rated \cup {t}
  /\ UNCHANGED <<inv, links, mailed, old, moved, issued, guesses, req, serial>>

Crash ==
  /\ Event
  /\ \E c \in Clients : req[c] # None
  /\ req' = [c \in Clients |-> None]
  /\ UNCHANGED <<inv, links, rated, mailed, old, moved, issued, guesses, serial>>

Next ==
  \/ \E c \in Clients :
       \/ SendBegin(c) \/ SendStore(c) \/ SendMail(c) \/ SendSave(c)
       \/ \E i \in Invitations : \/ \E op \in {"open", "code", "verify"} : Begin(c, i, op)
                                 \/ \E t \in Tickets : SessionBegin(c, i, t)
       \/ getInvitationStatus(c) \/ requestVerificationCode(c) \/ CodeMail(c)
       \/ VerifyWrong(c) \/ VerifyRight(c) \/ VerifyUnusable(c)
       \/ SubmitRating(c) \/ TrackRating(c) \/ TrackFails(c)
  \/ \E i \in Invitations : ExpireOnAccess(i) \/ SessionExpired(i)
  \/ Expire \/ ChangeAddress \/ Crash
  \/ \E t \in Tickets : RateSignedIn(t)

Spec == Init /\ [][Next]_vars

----------------------------------------------------------------------------
\* Rows keep their types; the attempt count stays within its limit.
InvTypeOK ==
  /\ \A i \in Invitations : /\ inv[i].status \in Status /\ inv[i].code \in Codes \cup {0}
                            /\ inv[i].session \in Tokens \cup {0} /\ inv[i].attempts \in 0..MaxAttempts
  /\ \A i \in Invitations, t \in Tickets : links[i][t] \in {"none", "open", "rated"}
  /\ rated \subseteq Tickets /\ mailed \subseteq Invitations

\* A link marked as rated belongs to a ticket with feedback, and a completed
\* invitation has no open link, however requests interleave (submitRating).
CompletedIsRated ==
  \A i \in Invitations, t \in Tickets :
    /\ links[i][t] = "rated" => t \in rated
    /\ inv[i].status = "completed" => links[i][t] # "open"

\* With one request at a time no code answers more than five wrong guesses.
GuessesBounded == serial => \A n \in Codes : guesses[n] <= MaxAttempts

\* With one request at a time the requester has one active invitation, also
\* after an interrupted send (sendInvitations revokes the previous ones).
OneActiveInvitation ==
  serial => \A i, j \in Invitations : (inv[i].status = "active" /\ inv[j].status = "active") => i = j

\* With one request at a time a closed invitation never becomes usable again.
ClosedStaysClosed ==
  [][serial => \A i \in Invitations : Closed(inv[i].status) => inv'[i].status = inv[i].status]_vars

\* A closed invitation has no session left, whatever stale row is saved over it.
ClosedHoldsNoSecret ==
  \A i \in Invitations : Closed(inv[i].status) => inv[i].session = 0

\* Invitations, links, ratings, codes and sessions fit each other.
InvitationsHold ==
  InvTypeOK /\ CompletedIsRated /\ GuessesBounded /\ OneActiveInvitation /\ ClosedHoldsNoSecret
=============================================================================
