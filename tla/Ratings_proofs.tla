--------------------------- MODULE Ratings_proofs ---------------------------
(***************************************************************************)
(* What rating invitations and the routing of tickets promise for any      *)
(* number of invitations, tickets, requests, categories, issues and rules. *)
(* Invitations: RowsInv and LinksInv hold however requests interleave;     *)
(* SerialInv adds what a request holds when it runs by itself.  Routing:   *)
(* what a stage of a filing has checked holds until the settings change.   *)
(***************************************************************************)
EXTENDS RatingInvitations, TicketRouting, TLAPS

-----------------------------------------------------------------------------
(* Rating invitations                                                      *)

Row == [status : Status, opened : BOOLEAN, code : 0..MaxCodes, attempts : 0..MaxAttempts, session : 0..MaxTokens]

(* A row whose code has guesses left, and which a closed invitation may    *)
(* have.                                                                   *)
RowFits(r) ==
  /\ r \in Row
  /\ r.code # 0 => r.attempts < MaxAttempts
  /\ Closed(r.status) => r.session = 0

(* The copy a request holds is one that could have been stored; it is of an *)
(* active invitation, except for the outcome of a failed mail.             *)
RequestFits(q) ==
  /\ q.op \in {"send", "mail", "delivered", "open", "code", "codemail", "verify", "rate", "track"}
  /\ q.i \in Invitations
  /\ q.op # "send" => RowFits(q.row)
  /\ q.op \notin {"send", "delivered"} => q.row.status = "active"
  /\ q.op \in {"mail", "delivered"} => q.row.code = 0 /\ q.row.session = 0
  /\ q.op = "rate" => q = [op |-> "rate", i |-> q.i, t |-> q.t, row |-> q.row] /\ q.t \in Tickets
  /\ q.op = "delivered" => q.row.status \in {"active", "revoked"}

RowsInv ==
  /\ inv \in [Invitations -> Row] /\ \A i \in Invitations : RowFits(inv[i])
  /\ issued \in [codes : 0..MaxCodes, tokens : 0..MaxTokens]
  /\ guesses \in [Codes -> Nat]
  /\ req = [c \in Clients |-> req[c]]
  /\ \A c \in Clients : req[c] # None => RequestFits(req[c])

(* A link is closed for a ticket that has been rated, by this request or   *)
(* another.                                                                *)
LinksInv ==
  /\ links \in [Invitations -> [Tickets -> {"none", "open", "rated"}]]
  /\ rated \subseteq Tickets /\ mailed \subseteq Invitations
  /\ \A c \in Clients : req[c] # None /\ req[c].op = "track" => req[c].t \in rated
  /\ CompletedIsRated

-----------------------------------------------------------------------------
(* What the operations make of a row                                       *)
LEMMA FreshFits ==
  ASSUME NEW st \in {"active", "revoked"}
  PROVE  /\ RowFits(Fresh) /\ Fresh.status = "none" /\ Fresh.code = 0
         /\ LET r == [Fresh EXCEPT !.status = st] IN RowFits(r) /\ r.status = st /\ r.code = 0 /\ r.session = 0
<1> DEFINE r == [Fresh EXCEPT !.status = st]
<1>1. 0 \in 0..MaxCodes /\ 0 \in 0..MaxAttempts /\ 0 \in 0..MaxTokens /\ 0 < MaxAttempts
  BY RatingConstants
<1>2. Fresh \in Row
  BY <1>1 DEF Fresh, Row, Status
<1>3. Fresh.status = "none" /\ Fresh.code = 0 /\ Fresh.session = 0 /\ Fresh.attempts = 0
  BY DEF Fresh
<1>4. st \in Status
  BY DEF Status
<1> HIDE DEF r
<1>5. r \in Row /\ r.status = st /\ r.code = 0 /\ r.session = 0 /\ r.attempts = 0
  BY <1>2, <1>3, <1>4 DEF r, Row
<1> QED
  BY <1>1, <1>2, <1>3, <1>5 DEF RowFits, r

LEMMA StatusSet ==
  ASSUME NEW r \in Row, NEW st \in Status, NEW n \in 0..MaxTokens
  PROVE  [r EXCEPT !.status = st, !.session = n] \in Row
BY DEF Row

LEMMA StatusFits ==
  ASSUME NEW r, RowFits(r), NEW st \in Status
  PROVE  RowFits([r EXCEPT !.status = st, !.session = 0])
<1>1. r \in Row /\ 0 \in 0..MaxTokens
  BY RatingConstants DEF RowFits
<1> DEFINE s == [r EXCEPT !.status = st, !.session = 0]
<1>2. s \in Row
  BY <1>1, StatusSet
<1>3. s.code = r.code /\ s.attempts = r.attempts /\ s.session = 0
  BY <1>1 DEF Row
<1> HIDE DEF s
<1>4. RowFits(s)
  BY <1>2, <1>3 DEF RowFits
<1> QED
  BY <1>4 DEF s

LEMMA ClosedSet ==
  ASSUME NEW r \in Row, NEW st \in Status, NEW k \in 0..MaxCodes, NEW n \in 0..MaxTokens
  PROVE  /\ [r EXCEPT !.status = st, !.code = k, !.session = n] \in Row
         /\ [r EXCEPT !.session = n, !.status = st] \in Row
BY DEF Row

LEMMA ClosedFits ==
  ASSUME NEW r, RowFits(r), NEW st \in Status
  PROVE  /\ RowFits([r EXCEPT !.status = st, !.code = 0, !.session = 0])
         /\ RowFits([r EXCEPT !.session = 0, !.status = st])
<1>1. r \in Row /\ 0 \in 0..MaxTokens /\ 0 \in 0..MaxCodes
  BY RatingConstants DEF RowFits
<1> DEFINE s == [r EXCEPT !.status = st, !.code = 0, !.session = 0]
           u == [r EXCEPT !.session = 0, !.status = st]
<1>2. s \in Row /\ u \in Row
  BY <1>1, ClosedSet
<1>3. s.code = 0 /\ s.session = 0
  BY <1>1 DEF Row
<1>4. u.code = r.code /\ u.attempts = r.attempts /\ u.session = 0
  BY <1>1 DEF Row
<1> HIDE DEF s, u
<1>5. RowFits(s) /\ RowFits(u)
  BY <1>2, <1>3, <1>4 DEF RowFits
<1> QED
  BY <1>5 DEF s, u

LEMMA StatusOnly ==
  ASSUME NEW r, RowFits(r), r.session = 0, NEW st \in Status
  PROVE  LET s == [r EXCEPT !.status = st]
         IN  RowFits(s) /\ s.status = st /\ s.code = r.code /\ s.session = 0
<1> DEFINE s == [r EXCEPT !.status = st]
<1>1. s \in Row /\ s.code = r.code /\ s.attempts = r.attempts /\ s.session = 0 /\ s.status = st
  BY DEF RowFits, Row
<1> QED
  BY <1>1 DEF RowFits

LEMMA CodeDropped ==
  ASSUME NEW r, RowFits(r)
  PROVE  RowFits([r EXCEPT !.code = 0])
<1> DEFINE s == [r EXCEPT !.code = 0]
<1>1. s \in Row /\ s.code = 0 /\ s.status = r.status /\ s.session = r.session
  BY RatingConstants DEF RowFits, Row
<1> QED
  BY <1>1 DEF RowFits

LEMMA Opened ==
  ASSUME NEW r, RowFits(r)
  PROVE  RowFits([r EXCEPT !.opened = TRUE])
<1> DEFINE s == [r EXCEPT !.opened = TRUE]
<1>1. s \in Row /\ s.code = r.code /\ s.attempts = r.attempts /\ s.status = r.status /\ s.session = r.session
  BY RatingConstants DEF RowFits, Row
<1> QED
  BY <1>1 DEF RowFits

LEMMA CodeSet ==
  ASSUME NEW r \in Row, NEW n \in 0..MaxCodes, NEW m \in 0..MaxAttempts
  PROVE  [r EXCEPT !.code = n, !.attempts = m] \in Row
BY DEF Row

LEMMA CodeGiven ==
  ASSUME NEW r, RowFits(r), NEW n \in 0..MaxCodes
  PROVE  LET s == [r EXCEPT !.code = n, !.attempts = 0]
         IN  RowFits(s) /\ s.code = n /\ s.attempts = 0 /\ s.status = r.status
<1>1. r \in Row /\ 0 \in 0..MaxAttempts /\ 0 < MaxAttempts
  BY RatingConstants DEF RowFits
<1> DEFINE s == [r EXCEPT !.code = n, !.attempts = 0]
<1>2. s \in Row
  BY <1>1, CodeSet
<1>3. s.code = n /\ s.attempts = 0 /\ s.status = r.status /\ s.session = r.session
  BY <1>1 DEF Row
<1> HIDE DEF s
<1>4. RowFits(s)
  BY <1>1, <1>2, <1>3 DEF RowFits
<1> QED
  BY <1>3, <1>4 DEF s

LEMMA Guessed ==
  ASSUME NEW r, RowFits(r), r.code # 0
  PROVE  LET row == [r EXCEPT !.attempts = @ + 1]
         IN  RowFits(IF row.attempts >= MaxAttempts THEN [row EXCEPT !.code = 0] ELSE row)
<1> DEFINE row == [r EXCEPT !.attempts = @ + 1]
<1>1. row \in Row /\ row.attempts = r.attempts + 1 /\ row.status = r.status /\ row.session = r.session /\ row.code = r.code
  BY RatingConstants DEF RowFits, Row
<1> HIDE DEF row
<1>2. CASE row.attempts >= MaxAttempts
  <2> DEFINE s == [row EXCEPT !.code = 0]
  <2>1. s \in Row /\ s.code = 0 /\ s.status = r.status /\ s.session = r.session
    BY <1>1, RatingConstants DEF Row
  <2> HIDE DEF s
  <2>2. RowFits(s)
    BY <2>1 DEF RowFits
  <2> QED
    BY <1>2, <2>2 DEF s, row
<1>3. CASE ~(row.attempts >= MaxAttempts)
  <2>1. RowFits(row)
    BY <1>1, <1>3, RatingConstants DEF RowFits, Row
  <2> QED
    BY <1>3, <2>1 DEF row
<1> QED
  BY <1>2, <1>3

LEMMA SessionSet ==
  ASSUME NEW r \in Row, NEW n \in 0..MaxTokens, NEW k \in 0..MaxCodes, NEW m \in 0..MaxAttempts, NEW b \in BOOLEAN
  PROVE  [r EXCEPT !.session = n, !.code = k, !.attempts = m, !.opened = b] \in Row
BY DEF Row

LEMMA SessionGiven ==
  ASSUME NEW r, RowFits(r), r.status = "active", NEW n \in 0..MaxTokens
  PROVE  LET s == [r EXCEPT !.session = n, !.code = 0, !.attempts = 0, !.opened = TRUE]
         IN  RowFits(s) /\ s.code = 0 /\ s.status = "active"
<1>1. r \in Row /\ 0 \in 0..MaxCodes /\ 0 \in 0..MaxAttempts /\ TRUE \in BOOLEAN
  BY RatingConstants DEF RowFits
<1> DEFINE s == [r EXCEPT !.session = n, !.code = 0, !.attempts = 0, !.opened = TRUE]
<1>2. s \in Row
  BY <1>1, SessionSet
<1>3. s.code = 0 /\ s.status = r.status
  BY <1>1 DEF Row
<1> HIDE DEF s
<1>4. RowFits(s)
  BY <1>2, <1>3 DEF RowFits, Closed
<1> QED
  BY <1>3, <1>4 DEF s

LEMMA Saved ==
  ASSUME RowsInv, NEW i \in Invitations, NEW r, RowFits(r), save(i, r)
  PROVE  inv' \in [Invitations -> Row] /\ \A j \in Invitations : RowFits(inv'[j])
BY DEF RowsInv, save, RowFits

-----------------------------------------------------------------------------
LEMMA RowsStart ==
  ASSUME NEW n, InitWith(n)
  PROVE  RowsInv /\ LinksInv
<1>1. RowFits(Fresh) /\ Fresh \in Row /\ Fresh.status = "none"
  BY FreshFits DEF RowFits
<1>2. inv \in [Invitations -> Row] /\ \A i \in Invitations : RowFits(inv[i]) /\ inv[i].status = "none"
  BY <1>1 DEF InitWith
<1>3. issued \in [codes : 0..MaxCodes, tokens : 0..MaxTokens]
  BY RatingConstants DEF InitWith
<1>4. guesses \in [Codes -> Nat]
  BY DEF InitWith
<1>5. req = [c \in Clients |-> req[c]] /\ \A c \in Clients : req[c] = None
  BY DEF InitWith
<1>6. links \in [Invitations -> [Tickets -> {"none", "open", "rated"}]] /\ \A i \in Invitations, t \in Tickets : links[i][t] = "none"
  BY DEF InitWith
<1>7. rated = {} /\ mailed = {}
  BY DEF InitWith
<1> QED
  BY <1>2, <1>3, <1>4, <1>5, <1>6, <1>7 DEF RowsInv, LinksInv, CompletedIsRated

(* The requests: each action touches the one of its client.                *)
LEMMA Held ==
  ASSUME RowsInv, NEW c \in Clients, NEW q, Hold(c, q), q # None => RequestFits(q)
  PROVE  /\ req' = [d \in Clients |-> req'[d]] /\ req'[c] = q
         /\ \A d \in Clients : d # c => req'[d] = req[d]
         /\ \A d \in Clients : req'[d] # None => RequestFits(req'[d])
BY DEF RowsInv, Hold

LEMMA RowsStep ==
  ASSUME RowsInv, [Next]_vars
  PROVE  RowsInv'
<1> USE DEF RowsInv
<1>0. None # None => RequestFits(None)
  OBVIOUS
<1>1. ASSUME NEW c \in Clients, SendBegin(c)
      PROVE  RowsInv'
  <2>1. PICK i \in Invitations : Hold(c, [op |-> "send", i |-> i, tickets |-> Tickets \ rated,
                   prev |-> {x \in Invitations : inv[x].status = "active"}])
    BY <1>1 DEF SendBegin
  <2> DEFINE q == [op |-> "send", i |-> i, tickets |-> Tickets \ rated,
                   prev |-> {x \in Invitations : inv[x].status = "active"}]
  <2>2. RequestFits(q)
    BY DEF RequestFits
  <2> HIDE DEF q
  <2>3. Hold(c, q)
    BY <2>1 DEF q
  <2> QED
    BY <1>1, <2>2, <2>3, Held DEF SendBegin
<1>2. ASSUME NEW c \in Clients, SendStore(c)
      PROVE  RowsInv'
  <2> DEFINE r == [Fresh EXCEPT !.status = "active"]
             q == [op |-> "mail", i |-> req[c].i, row |-> r]
  <2>1. RowFits(r) /\ r.status = "active" /\ r.code = 0 /\ r.session = 0
    BY FreshFits
  <2>2. \A x \in Invitations : RowFits(Revoked(inv[x]))
    BY ClosedFits DEF Revoked, Status
  <2> HIDE DEF r
  <2>3. inv' = [x \in Invitations |-> IF x = req[c].i THEN r ELSE IF x \in req[c].prev THEN Revoked(inv[x]) ELSE inv[x]]
    BY <1>2 DEF SendStore, r
  <2>4. inv' \in [Invitations -> Row] /\ \A x \in Invitations : RowFits(inv'[x])
    BY <2>1, <2>2, <2>3 DEF RowFits
  <2>5. req[c].i \in Invitations
    BY <1>2 DEF SendStore, RequestFits
  <2>6. RequestFits(q)
    BY <2>1, <2>5 DEF RequestFits
  <2>7. Hold(c, q)
    BY <1>2 DEF SendStore, r
  <2> HIDE DEF q
  <2> QED
    BY <1>2, <2>4, <2>6, <2>7, Held DEF SendStore
<1>3. ASSUME NEW c \in Clients, SendMail(c)
      PROVE  RowsInv'
  <2>1. PICK sent \in BOOLEAN : Hold(c, [op |-> "delivered", i |-> req[c].i,
                   row |-> IF sent THEN req[c].row ELSE [req[c].row EXCEPT !.status = "revoked"]])
    BY <1>3 DEF SendMail
  <2> DEFINE r == IF sent THEN req[c].row ELSE [req[c].row EXCEPT !.status = "revoked"]
             q == [op |-> "delivered", i |-> req[c].i, row |-> r]
  <2>2. RequestFits(req[c]) /\ req[c].op = "mail"
    BY <1>3 DEF SendMail
  <2>3. RowFits(r) /\ r.status \in {"active", "revoked"} /\ r.code = 0 /\ r.session = 0
    <3>1. RowFits(req[c].row) /\ req[c].row.status = "active" /\ req[c].row.code = 0 /\ req[c].row.session = 0
      BY <2>2 DEF RequestFits
    <3>2. "revoked" \in Status
      BY DEF Status
    <3>3. CASE sent
      BY <3>1, <3>3
    <3>4. CASE ~sent
      BY <3>1, <3>2, <3>4, StatusOnly
    <3> QED
      BY <3>3, <3>4
  <2> HIDE DEF r
  <2>4. RequestFits(q)
    BY <2>2, <2>3 DEF RequestFits
  <2>5. Hold(c, q)
    BY <2>1 DEF r
  <2> HIDE DEF q
  <2> QED
    BY <1>3, <2>4, <2>5, Held DEF SendMail
(* The requests that save and end                                          *)
<1>4. ASSUME NEW c \in Clients, NEW r, req[c] # None, RowFits(r), save(req[c].i, r), End(c), UNCHANGED <<issued, guesses>>
      PROVE  RowsInv'
  <2>1. req[c].i \in Invitations
    BY <1>4 DEF RequestFits
  <2>2. inv' \in [Invitations -> Row] /\ \A j \in Invitations : RowFits(inv'[j])
    BY <1>4, <2>1, Saved
  <2> QED
    BY <1>0, <1>4, <2>2, Held DEF End
<1>5. ASSUME NEW c \in Clients, End(c), UNCHANGED <<inv, issued, guesses>>
      PROVE  RowsInv'
  BY <1>0, <1>5, Held DEF End
<1>6. ASSUME NEW c \in Clients, SendSave(c)
      PROVE  RowsInv'
  BY <1>4, <1>6 DEF SendSave, RequestFits
<1>7. ASSUME NEW c \in Clients, NEW i \in Invitations, NEW op \in {"open", "code", "verify"}, Begin(c, i, op)
      PROVE  RowsInv'
  <2> DEFINE q == [op |-> op, i |-> i, row |-> inv[i]]
  <2>1. RequestFits(q)
    BY <1>7 DEF RequestFits, Begin, getActiveInvitationByToken
  <2>2. Hold(c, q)
    BY <1>7 DEF Begin
  <2> HIDE DEF q
  <2> QED
    BY <1>7, <2>1, <2>2, Held DEF Begin
<1>8. ASSUME NEW c \in Clients, NEW i \in Invitations, NEW t \in Tickets, SessionBegin(c, i, t)
      PROVE  RowsInv'
  <2> DEFINE q == [op |-> "rate", i |-> i, t |-> t, row |-> inv[i]]
  <2>1. RequestFits(q)
    BY <1>8 DEF RequestFits, SessionBegin
  <2>2. Hold(c, q)
    BY <1>8 DEF SessionBegin
  <2> HIDE DEF q
  <2> QED
    BY <1>8, <2>1, <2>2, Held DEF SessionBegin
<1>9. ASSUME NEW c \in Clients, getInvitationStatus(c)
      PROVE  RowsInv'
  <2>1. RowFits([req[c].row EXCEPT !.opened = TRUE])
    BY <1>9, Opened DEF RequestFits, getInvitationStatus
  <2> QED
    BY <1>4, <1>5, <1>9, <2>1 DEF getInvitationStatus
<1>10. ASSUME NEW c \in Clients, requestVerificationCode(c)
       PROVE  RowsInv'
  <2>1. RowFits(req[c].row) /\ req[c].row.status = "active" /\ req[c].i \in Invitations
    BY <1>10 DEF requestVerificationCode, RequestFits
  <2>2. CASE moved
    <3>1. RowFits(Revoked(req[c].row))
      BY <2>1, ClosedFits DEF Revoked, Status
    <3> QED
      BY <1>4, <1>10, <2>2, <3>1 DEF requestVerificationCode
  <2>3. CASE ~moved
    <3> DEFINE n == issued.codes + 1
               row == [req[c].row EXCEPT !.code = n, !.attempts = 0]
               q == [op |-> "codemail", i |-> req[c].i, row |-> row]
    <3>1. n \in 0..MaxCodes
      BY <1>10, <2>3, RatingConstants DEF requestVerificationCode
    <3> HIDE DEF n
    <3>2. RowFits(row) /\ row.status = "active"
      BY <2>1, <3>1, CodeGiven
    <3>3. save(req[c].i, row) /\ Hold(c, q)
      BY <1>10, <2>3 DEF requestVerificationCode, n
    <3> HIDE DEF row
    <3>4. RequestFits(q)
      BY <2>1, <3>2 DEF RequestFits
    <3> HIDE DEF q
    <3>5. issued' \in [codes : 0..MaxCodes, tokens : 0..MaxTokens]
      BY <1>10, <2>3, <3>1 DEF requestVerificationCode, n
    <3>6. inv' \in [Invitations -> Row] /\ \A j \in Invitations : RowFits(inv'[j])
      BY <2>1, <3>2, <3>3, Saved
    <3> QED
      BY <1>10, <3>3, <3>4, <3>5, <3>6, Held DEF requestVerificationCode
  <2> QED
    BY <2>2, <2>3
<1>11. ASSUME NEW c \in Clients, CodeMail(c)
       PROVE  RowsInv'
  <2>1. RowFits([req[c].row EXCEPT !.code = 0])
    BY <1>11, CodeDropped DEF RequestFits, CodeMail
  <2> QED
    BY <1>4, <1>5, <1>11, <2>1 DEF CodeMail
<1>12. ASSUME NEW c \in Clients, VerifyWrong(c)
       PROVE  RowsInv'
  <2> DEFINE row == [req[c].row EXCEPT !.attempts = @ + 1]
             s == IF row.attempts >= MaxAttempts THEN [row EXCEPT !.code = 0] ELSE row
  <2>1. RowFits(req[c].row) /\ req[c].row.code # 0 /\ req[c].i \in Invitations
    BY <1>12 DEF VerifyWrong, RequestFits, CodeUsable
  <2>2. RowFits(s)
    BY <2>1, Guessed
  <2>3. save(req[c].i, s)
    BY <1>12 DEF VerifyWrong
  <2> HIDE DEF s
  <2>4. inv' \in [Invitations -> Row] /\ \A j \in Invitations : RowFits(inv'[j])
    BY <2>1, <2>2, <2>3, Saved
  <2>5. guesses' \in [Codes -> Nat]
    <3>1. guesses' = [guesses EXCEPT ![req[c].row.code] = guesses[req[c].row.code] + 1]
      BY <1>12 DEF VerifyWrong
    <3>2. req[c].row.code \in Codes
      BY <2>1, RatingConstants DEF RowFits, Row, Codes
    <3> QED
      BY <3>1, <3>2
  <2> QED
    BY <1>0, <1>12, <2>4, <2>5, Held DEF VerifyWrong, End
<1>13. ASSUME NEW c \in Clients, VerifyRight(c)
       PROVE  RowsInv'
  <2> DEFINE n == issued.tokens + 1
             s == [req[c].row EXCEPT !.session = n, !.code = 0, !.attempts = 0, !.opened = TRUE]
  <2>1. RowFits(req[c].row) /\ req[c].row.status = "active" /\ req[c].i \in Invitations
    BY <1>13 DEF VerifyRight, RequestFits
  <2>2. n \in 0..MaxTokens
    BY <1>13, RatingConstants DEF VerifyRight
  <2> HIDE DEF n
  <2>3. RowFits(s)
    BY <2>1, <2>2, SessionGiven
  <2>4. save(req[c].i, s)
    BY <1>13 DEF VerifyRight, n
  <2> HIDE DEF s
  <2>5. inv' \in [Invitations -> Row] /\ \A j \in Invitations : RowFits(inv'[j])
    BY <2>1, <2>3, <2>4, Saved
  <2>6. issued' \in [codes : 0..MaxCodes, tokens : 0..MaxTokens]
    BY <1>13, <2>2 DEF VerifyRight, n
  <2> QED
    BY <1>0, <1>13, <2>5, <2>6, Held DEF VerifyRight, End
<1>14. ASSUME NEW c \in Clients, VerifyUnusable(c)
       PROVE  RowsInv'
  <2>1. RowFits(req[c].row) /\ RowFits([req[c].row EXCEPT !.code = 0]) /\ RowFits(inv[req[c].i])
    BY <1>14, CodeDropped DEF RequestFits, VerifyUnusable
  <2>2. PICK r : RowFits(r) /\ save(req[c].i, r)
    BY <1>14, <2>1 DEF VerifyUnusable
  <2> QED
    BY <1>4, <1>14, <2>2 DEF VerifyUnusable
<1>15. ASSUME NEW c \in Clients, SubmitRating(c)
       PROVE  RowsInv'
  <2>1. CASE moved
    <3>1. RowFits(RevokedBySession(req[c].row))
      BY <1>15, StatusFits DEF RequestFits, SubmitRating, RevokedBySession, Status
    <3> QED
      BY <1>4, <1>15, <2>1, <3>1 DEF SubmitRating
  <2>2. CASE ~moved /\ req[c].t \in rated
    BY <1>5, <1>15, <2>2 DEF SubmitRating
  <2>3. CASE ~moved /\ req[c].t \notin rated
    <3> DEFINE q == [req[c] EXCEPT !.op = "track"]
    <3>1. RequestFits(req[c]) /\ req[c].op = "rate"
      BY <1>15 DEF SubmitRating
    <3>2. req[c] = [op |-> "rate", i |-> req[c].i, t |-> req[c].t, row |-> req[c].row]
      BY <3>1 DEF RequestFits
    <3>3. q.op = "track" /\ q.i = req[c].i /\ q.row = req[c].row
      BY <3>2
    <3> HIDE DEF q
    <3>4. RequestFits(q)
      BY <3>1, <3>3 DEF RequestFits
    <3>5. Hold(c, q)
      BY <1>15, <2>3 DEF SubmitRating, q
    <3> QED
      BY <1>15, <2>3, <3>4, <3>5, Held DEF SubmitRating
  <2> QED
    BY <2>1, <2>2, <2>3
<1>16. ASSUME NEW c \in Clients, TrackRating(c)
       PROVE  RowsInv'
  <2>1. RowFits([req[c].row EXCEPT !.status = "completed", !.session = 0])
    BY <1>16, StatusFits DEF RequestFits, TrackRating, Status
  <2> QED
    BY <1>4, <1>5, <1>16, <2>1 DEF TrackRating
<1>17. ASSUME NEW c \in Clients, TrackFails(c)
       PROVE  RowsInv'
  BY <1>5, <1>17 DEF TrackFails
<1>18. ASSUME NEW i \in Invitations, ExpireOnAccess(i)
       PROVE  RowsInv'
  <2>1. RowFits([inv[i] EXCEPT !.status = "expired", !.code = 0, !.session = 0])
    BY ClosedFits DEF Status
  <2>2. inv' \in [Invitations -> Row] /\ \A j \in Invitations : RowFits(inv'[j])
    BY <1>18, <2>1, Saved DEF ExpireOnAccess
  <2> QED
    BY <1>18, <2>2 DEF ExpireOnAccess
<1>19. ASSUME NEW i \in Invitations, SessionExpired(i)
       PROVE  RowsInv'
  <2>1. inv' = [inv EXCEPT ![i] = [inv[i] EXCEPT !.session = 0, !.status = IF i \in old THEN "expired" ELSE inv[i].status]]
    BY <1>19 DEF SessionExpired, save, RowFits, Row
  <2> DEFINE st == IF i \in old THEN "expired" ELSE inv[i].status
             s == [inv[i] EXCEPT !.session = 0, !.status = st]
  <2>2. st \in Status
    BY DEF Status, RowFits, Row
  <2> HIDE DEF st
  <2>3. RowFits(s)
    BY <2>2, ClosedFits
  <2>4. inv' \in [Invitations -> Row] /\ \A j \in Invitations : RowFits(inv'[j])
    BY <2>1, <2>3, Saved DEF save, st
  <2> QED
    BY <1>19, <2>4 DEF SessionExpired
<1>20. CASE Crash
  BY <1>20 DEF Crash
<1>21. CASE UNCHANGED <<inv, issued, guesses, req>>
  BY <1>21
<1> QED
  BY <1>1, <1>2, <1>3, <1>6, <1>7, <1>8, <1>9, <1>10, <1>11, <1>12, <1>13, <1>14, <1>15, <1>16, <1>17,
     <1>18, <1>19, <1>20, <1>21 DEF Next, vars, Expire, ChangeAddress, RateSignedIn

LEMMA LinksStep ==
  ASSUME RowsInv, LinksInv, [Next]_vars
  PROVE  LinksInv'
<1> USE DEF LinksInv
<1>0. /\ \A i \in Invitations : inv[i] \in Row
      /\ \A i \in Invitations : inv[i].status = "completed" => \A t \in Tickets : links[i][t] # "open"
  BY DEF RowsInv, CompletedIsRated
(* What is saved is not a completed invitation, and links and ratings stay. *)
<1>1. ASSUME NEW i \in Invitations, NEW r, r.status # "completed", save(i, r),
             UNCHANGED <<links, rated>>, mailed' \subseteq Invitations,
             \A c \in Clients : req'[c] # None /\ req'[c].op = "track" => req'[c] = req[c]
      PROVE  LinksInv'
  <2>1. \A j \in Invitations : inv'[j] = inv[j] \/ (j = i /\ inv'[j] = r)
    BY <1>1 DEF save, RowsInv
  <2> QED
    BY <1>1, <2>1 DEF CompletedIsRated
<1>2. ASSUME UNCHANGED <<inv, links, mailed>>, rated \subseteq rated', rated' \subseteq Tickets,
             \A c \in Clients : req'[c] # None /\ req'[c].op = "track" => req'[c] = req[c] \/ req'[c].t \in rated'
      PROVE  LinksInv'
  BY <1>2 DEF CompletedIsRated
<1>3. ASSUME NEW c \in Clients, NEW q, Hold(c, q), q # None => q.op # "track"
      PROVE  \A d \in Clients : req'[d] # None /\ req'[d].op = "track" => req'[d] = req[d]
  BY <1>3 DEF Hold, RowsInv
<1>4. ASSUME NEW c \in Clients, End(c)
      PROVE  \A d \in Clients : req'[d] # None /\ req'[d].op = "track" => req'[d] = req[d]
  BY <1>4 DEF Hold, End, RowsInv
<1>5. ASSUME NEW c \in Clients, req[c] # None
      PROVE  /\ req[c].i \in Invitations
             /\ req[c].op # "send" => req[c].row \in Row
             /\ req[c].op \notin {"send", "delivered"} => req[c].row.status = "active"
             /\ req[c].op = "delivered" => req[c].row.status # "completed"
  BY <1>5 DEF RowsInv, RequestFits, RowFits
<1>6. ASSUME NEW c \in Clients, SendBegin(c)
      PROVE  LinksInv'
  <2>1. PICK i \in Invitations : Hold(c, [op |-> "send", i |-> i, tickets |-> Tickets \ rated,
                   prev |-> {x \in Invitations : inv[x].status = "active"}])
    BY <1>6 DEF SendBegin
  <2>2. \A d \in Clients : req'[d] # None /\ req'[d].op = "track" => req'[d] = req[d]
    BY <1>3, <2>1
  <2> QED
    BY <1>2, <1>6, <2>2 DEF SendBegin
<1>7. ASSUME NEW c \in Clients, SendStore(c)
      PROVE  LinksInv'
  <2> DEFINE r == [Fresh EXCEPT !.status = "active"]
             new == [t \in Tickets |-> IF t \in req[c].tickets THEN "open" ELSE "none"]
  <2>1. r.status = "active"
    BY FreshFits
  <2>2. \A x \in Invitations : Revoked(inv[x]).status = "revoked"
    BY <1>0 DEF Revoked, Row
  <2> HIDE DEF r
  <2>3. \A x \in Invitations : inv'[x] = IF x = req[c].i THEN r ELSE IF x \in req[c].prev THEN Revoked(inv[x]) ELSE inv[x]
    BY <1>7 DEF SendStore, r
  <2>4. \A x \in Invitations : inv'[x].status = "completed" => x # req[c].i /\ inv[x].status = "completed"
    BY <2>1, <2>2, <2>3
  <2>5. links' = [links EXCEPT ![req[c].i] = new]
    BY <1>7 DEF SendStore
  <2>6. new \in [Tickets -> {"none", "open", "rated"}] /\ \A t \in Tickets : new[t] # "rated"
    OBVIOUS
  <2> HIDE DEF new
  <2>7. links' \in [Invitations -> [Tickets -> {"none", "open", "rated"}]]
    BY <2>5, <2>6
  <2>8. \A x \in Invitations : links'[x] = IF x = req[c].i THEN new ELSE links[x]
    BY <2>5
  <2>9. CompletedIsRated'
    BY <1>7, <2>4, <2>6, <2>8 DEF CompletedIsRated, SendStore
  <2>10. \A d \in Clients : req'[d] # None /\ req'[d].op = "track" => req'[d] = req[d]
    BY <1>3, <1>7 DEF SendStore
  <2> QED
    BY <1>7, <2>7, <2>9, <2>10 DEF SendStore
<1>8. ASSUME NEW c \in Clients, SendMail(c)
      PROVE  LinksInv'
  <2>1. PICK sent \in BOOLEAN : Hold(c, [op |-> "delivered", i |-> req[c].i,
                   row |-> IF sent THEN req[c].row ELSE [req[c].row EXCEPT !.status = "revoked"]])
    BY <1>8 DEF SendMail
  <2>2. \A d \in Clients : req'[d] # None /\ req'[d].op = "track" => req'[d] = req[d]
    BY <1>3, <2>1
  <2>3. mailed' \subseteq Invitations
    BY <1>5, <1>8 DEF SendMail
  <2> QED
    BY <1>8, <2>2, <2>3 DEF SendMail, CompletedIsRated
<1>9. ASSUME NEW c \in Clients, SendSave(c)
      PROVE  LinksInv'
  BY <1>1, <1>4, <1>5, <1>9 DEF SendSave
<1>10. ASSUME NEW c \in Clients, NEW i \in Invitations, NEW op \in {"open", "code", "verify"}, Begin(c, i, op)
       PROVE  LinksInv'
  <2>1. \A d \in Clients : req'[d] # None /\ req'[d].op = "track" => req'[d] = req[d]
    BY <1>3, <1>10 DEF Begin
  <2> QED
    BY <1>2, <1>10, <2>1 DEF Begin
<1>11. ASSUME NEW c \in Clients, NEW i \in Invitations, NEW t \in Tickets, SessionBegin(c, i, t)
       PROVE  LinksInv'
  <2>1. \A d \in Clients : req'[d] # None /\ req'[d].op = "track" => req'[d] = req[d]
    BY <1>3, <1>11 DEF SessionBegin
  <2> QED
    BY <1>2, <1>11, <2>1 DEF SessionBegin
<1>12. ASSUME NEW c \in Clients, getInvitationStatus(c)
       PROVE  LinksInv'
  <2>1. [req[c].row EXCEPT !.opened = TRUE].status = "active"
    BY <1>5, <1>12 DEF getInvitationStatus, Row
  <2> QED
    BY <1>1, <1>2, <1>4, <1>5, <1>12, <2>1 DEF getInvitationStatus
<1>13. ASSUME NEW c \in Clients, requestVerificationCode(c)
       PROVE  LinksInv'
  <2>1. CASE moved
    <3>1. Revoked(req[c].row).status = "revoked"
      BY <1>5, <1>13 DEF requestVerificationCode, Revoked, Row
    <3> QED
      BY <1>1, <1>4, <1>5, <1>13, <2>1, <3>1 DEF requestVerificationCode
  <2>2. CASE ~moved
    <3> DEFINE row == [req[c].row EXCEPT !.code = issued.codes + 1, !.attempts = 0]
    <3>1. row.status = "active"
      BY <1>5, <1>13 DEF requestVerificationCode, Row
    <3>2. save(req[c].i, row) /\ Hold(c, [op |-> "codemail", i |-> req[c].i, row |-> row])
      BY <1>13, <2>2 DEF requestVerificationCode
    <3> HIDE DEF row
    <3>3. \A d \in Clients : req'[d] # None /\ req'[d].op = "track" => req'[d] = req[d]
      BY <1>3, <3>2
    <3> QED
      BY <1>1, <1>5, <1>13, <3>1, <3>2, <3>3 DEF requestVerificationCode
  <2> QED
    BY <2>1, <2>2
<1>14. ASSUME NEW c \in Clients, CodeMail(c)
       PROVE  LinksInv'
  <2>1. [req[c].row EXCEPT !.code = 0].status = "active"
    BY <1>5, <1>14 DEF CodeMail, Row
  <2> QED
    BY <1>1, <1>2, <1>4, <1>5, <1>14, <2>1 DEF CodeMail
<1>15. ASSUME NEW c \in Clients, VerifyWrong(c)
       PROVE  LinksInv'
  <2> DEFINE row == [req[c].row EXCEPT !.attempts = @ + 1]
             s == IF row.attempts >= MaxAttempts THEN [row EXCEPT !.code = 0] ELSE row
  <2>1. row.status = "active" /\ [row EXCEPT !.code = 0].status = "active"
    BY <1>5, <1>15 DEF VerifyWrong, Row
  <2>2. s.status = "active"
    BY <2>1
  <2>3. save(req[c].i, s)
    BY <1>15 DEF VerifyWrong
  <2> HIDE DEF s
  <2> QED
    BY <1>1, <1>4, <1>5, <1>15, <2>2, <2>3 DEF VerifyWrong
<1>16. ASSUME NEW c \in Clients, VerifyRight(c)
       PROVE  LinksInv'
  <2>1. [req[c].row EXCEPT !.session = issued.tokens + 1, !.code = 0, !.attempts = 0, !.opened = TRUE].status = "active"
    BY <1>5, <1>16 DEF VerifyRight, Row
  <2> QED
    BY <1>1, <1>4, <1>5, <1>16, <2>1 DEF VerifyRight
<1>17. ASSUME NEW c \in Clients, VerifyUnusable(c)
       PROVE  LinksInv'
  <2>1. CASE save(req[c].i, inv[req[c].i])
    <3>1. UNCHANGED inv
      BY <1>5, <1>17, <2>1 DEF VerifyUnusable, save, RowsInv
    <3> QED
      BY <1>2, <1>4, <1>17, <3>1 DEF VerifyUnusable
  <2>2. CASE save(req[c].i, [req[c].row EXCEPT !.code = 0])
    <3>1. [req[c].row EXCEPT !.code = 0].status = "active"
      BY <1>5, <1>17 DEF VerifyUnusable, Row
    <3> QED
      BY <1>1, <1>4, <1>5, <1>17, <2>2, <3>1 DEF VerifyUnusable
  <2> QED
    BY <1>17, <2>1, <2>2 DEF VerifyUnusable
<1>18. ASSUME NEW c \in Clients, SubmitRating(c)
       PROVE  LinksInv'
  <2>1. CASE moved
    <3>1. RevokedBySession(req[c].row).status = "revoked"
      BY <1>5, <1>18 DEF SubmitRating, RevokedBySession, Row
    <3> QED
      BY <1>1, <1>4, <1>5, <1>18, <2>1, <3>1 DEF SubmitRating
  <2>2. CASE ~moved /\ req[c].t \in rated
    BY <1>2, <1>4, <1>18, <2>2 DEF SubmitRating
  <2>3. CASE ~moved /\ req[c].t \notin rated
    <3>1. req[c] = [op |-> "rate", i |-> req[c].i, t |-> req[c].t, row |-> req[c].row]
      BY <1>18 DEF SubmitRating, RowsInv, RequestFits
    <3> DEFINE q == [req[c] EXCEPT !.op = "track"]
    <3>2. q.t = req[c].t
      BY <3>1
    <3> HIDE DEF q
    <3>3. req[c].t \in Tickets
      BY <1>18 DEF SubmitRating, RowsInv, RequestFits
    <3>4. rated' = rated \cup {req[c].t} /\ req' = [req EXCEPT ![c] = q]
      BY <1>18, <2>3 DEF SubmitRating, Hold, q
    <3>5. \A d \in Clients : d # c => req'[d] = req[d]
      BY <3>4 DEF RowsInv
    <3>6. req'[c].t \in rated'
      BY <3>2, <3>4 DEF RowsInv
    <3> QED
      BY <1>2, <1>18, <2>3, <3>3, <3>4, <3>5, <3>6 DEF SubmitRating
  <2> QED
    BY <2>1, <2>2, <2>3
<1>19. ASSUME NEW c \in Clients, TrackRating(c)
       PROVE  LinksInv'
  <2> DEFINE i == req[c].i  new == TrackedLinks(i, req[c].t)
             r == [req[c].row EXCEPT !.status = "completed", !.session = 0]
  <2>1. i \in Invitations /\ req[c].t \in rated
    BY <1>5, <1>19 DEF TrackRating
  <2>2. \A u \in Tickets : /\ new[u] \in {"none", "open", "rated"} /\ (new[u] = "rated" => u \in rated)
                           /\ (new[u] = "open" => links[i][u] = "open")
    BY <2>1 DEF TrackedLinks, CompletedIsRated
  <2>3. new \in [Tickets -> {"none", "open", "rated"}]
    BY <2>2 DEF TrackedLinks
  <2>4. links' = [links EXCEPT ![i] = new]
    BY <1>19 DEF TrackRating
  <2> HIDE DEF new
  <2>5. /\ links' \in [Invitations -> [Tickets -> {"none", "open", "rated"}]]
        /\ \A x \in Invitations : links'[x] = IF x = i THEN new ELSE links[x]
    BY <2>3, <2>4
  <2>6. inv' = inv \/ (inv' = [inv EXCEPT ![i] = r] /\ ~\E u \in Tickets : links'[i][u] = "open")
    BY <1>19 DEF TrackRating, save
  <2> HIDE DEF r
  <2>7. \A x \in Invitations : inv'[x] = inv[x] \/ (x = i /\ \A u \in Tickets : links'[i][u] # "open")
    BY <2>6 DEF RowsInv
  <2> HIDE DEF i
  <2>8. CompletedIsRated'
    BY <1>0, <1>19, <2>2, <2>5, <2>7 DEF CompletedIsRated, TrackRating
  <2> QED
    BY <1>4, <1>19, <2>5, <2>8 DEF TrackRating
<1>20. ASSUME NEW c \in Clients, TrackFails(c)
       PROVE  LinksInv'
  BY <1>2, <1>4, <1>20 DEF TrackFails
<1>21. ASSUME NEW i \in Invitations, ExpireOnAccess(i)
       PROVE  LinksInv'
  <2>1. [inv[i] EXCEPT !.status = "expired", !.code = 0, !.session = 0].status = "expired"
    BY <1>0 DEF Row
  <2> QED
    BY <1>1, <1>21, <2>1 DEF ExpireOnAccess
<1>22. ASSUME NEW i \in Invitations, SessionExpired(i)
       PROVE  LinksInv'
  <2> DEFINE st == IF i \in old THEN "expired" ELSE inv[i].status
  <2>1. save(i, [inv[i] EXCEPT !.session = 0, !.status = st])
    BY <1>0, <1>22 DEF SessionExpired, Row
  <2>2. st # "completed"
    BY <1>22 DEF SessionExpired
  <2> HIDE DEF st
  <2>3. [inv[i] EXCEPT !.session = 0, !.status = st].status # "completed"
    BY <1>0, <2>2 DEF Row
  <2> QED
    BY <1>1, <1>22, <2>1, <2>3 DEF SessionExpired
<1>23. CASE Expire \/ ChangeAddress \/ Crash \/ UNCHANGED vars
  BY <1>2, <1>23 DEF Expire, ChangeAddress, Crash, vars
<1>24. ASSUME NEW t \in Tickets, RateSignedIn(t)
       PROVE  LinksInv'
  BY <1>2, <1>24 DEF RateSignedIn
<1> QED
  BY <1>6, <1>7, <1>8, <1>9, <1>10, <1>11, <1>12, <1>13, <1>14, <1>15, <1>16, <1>17, <1>18, <1>19, <1>20, <1>21,
     <1>22, <1>23, <1>24 DEF Next

-----------------------------------------------------------------------------
(* One request at a time: what it holds is current, and the codes mailed   *)
(* are told apart.                                                         *)
OneAtATime == \A c, d \in Clients : req[c] # None /\ req[d] # None => c = d

InStep(c) ==
  /\ req[c].op = "send" => inv[req[c].i] = Fresh /\ req[c].prev = {x \in Invitations : inv[x].status = "active"}
  /\ req[c].op \notin {"send", "delivered"} => req[c].row = inv[req[c].i]
  /\ req[c].op = "delivered" => inv[req[c].i].status = "active"

CodesInv ==
  /\ \A i \in Invitations : inv[i].code <= issued.codes
  /\ \A i, j \in Invitations : inv[i].code = inv[j].code /\ inv[i].code # 0 => i = j
  /\ \A i \in Invitations : inv[i].code # 0 => guesses[inv[i].code] <= inv[i].attempts
  /\ \A n \in Codes : guesses[n] <= MaxAttempts /\ (n > issued.codes => guesses[n] = 0)

OneActive == \A i, j \in Invitations : inv[i].status = "active" /\ inv[j].status = "active" => i = j

SerialInv ==
  serial => /\ OneAtATime
            /\ \A c \in Clients : req[c] # None => InStep(c)
            /\ CodesInv
            /\ OneActive

ClosedKept == \A i \in Invitations : Closed(inv[i].status) => inv'[i].status = inv[i].status

LEMMA SerialStart ==
  ASSUME NEW n, InitWith(n)
  PROVE  SerialInv
<1>1. Fresh.status = "none" /\ Fresh.code = 0
  BY FreshFits
<1>2. \A i \in Invitations : inv[i].status = "none" /\ inv[i].code = 0
  BY <1>1 DEF InitWith
<1>3. \A c \in Clients : req[c] = None
  BY DEF InitWith
<1>4. issued.codes = 0 /\ \A m \in Codes : guesses[m] = 0
  BY DEF InitWith
<1> QED
  BY <1>2, <1>3, <1>4, RatingConstants DEF SerialInv, OneAtATime, CodesInv, OneActive

LEMMA SerialStep ==
  ASSUME RowsInv, SerialInv, serial, [Next]_vars
  PROVE  SerialInv' /\ ClosedKept
<1>0. /\ OneAtATime /\ CodesInv /\ OneActive
      /\ \A c \in Clients : req[c] # None => InStep(c) /\ RequestFits(req[c])
      /\ inv \in [Invitations -> Row] /\ \A i \in Invitations : inv[i] \in Row /\ RowFits(inv[i])
      /\ issued \in [codes : 0..MaxCodes, tokens : 0..MaxTokens] /\ guesses \in [Codes -> Nat]
      /\ req = [c \in Clients |-> req[c]]
  BY DEF RowsInv, SerialInv
<1> USE DEF Idle, Hold, End
(* No request is left: what is stored decides.                             *)
<1>1. ASSUME \A d \in Clients : req'[d] = None, CodesInv', OneActive'
      PROVE  SerialInv'
  BY <1>1 DEF SerialInv, OneAtATime
<1>2. ASSUME NEW c \in Clients, req[c] # None
      PROVE  /\ \A d \in Clients : d # c => req[d] = None
             /\ req[c].i \in Invitations
             /\ req[c].op # "send" => req[c].row \in Row
             /\ req[c].op \notin {"send", "delivered"} =>
                  req[c].row = inv[req[c].i] /\ inv[req[c].i].status = "active"
  BY <1>0, <1>2 DEF OneAtATime, InStep, RequestFits, RowFits
(* An active row is saved with its code, or with none.                     *)
<1>3. ASSUME NEW i \in Invitations, NEW r \in Row, inv[i].status = "active", save(i, r),
             r.code = 0 \/ (r.code = inv[i].code /\ r.attempts = inv[i].attempts),
             UNCHANGED guesses, issued'.codes = issued.codes
      PROVE  CodesInv' /\ OneActive' /\ ClosedKept
  <2>1. \A j \in Invitations : inv'[j] = IF j = i THEN r ELSE inv[j]
    BY <1>0, <1>3 DEF save
  <2>2. OneActive' /\ ClosedKept
    BY <1>0, <1>3, <2>1 DEF OneActive, ClosedKept, Closed
  <2>3. \A j \in Invitations : inv'[j].code = 0 \/ (inv'[j].code = inv[j].code /\ inv'[j].attempts = inv[j].attempts)
    BY <1>3, <2>1
  <2>4. \A j \in Invitations : inv'[j].code <= issued'.codes
    BY <1>0, <1>3, <2>3 DEF CodesInv
  <2> QED
    BY <1>0, <1>3, <2>2, <2>3, <2>4 DEF CodesInv
<1>4. ASSUME NEW c \in Clients, req[c] # None, End(c)
      PROVE  \A d \in Clients : req'[d] = None
  BY <1>0, <1>2, <1>4
<1>5. ASSUME UNCHANGED inv
      PROVE  (OneActive' <=> OneActive) /\ ClosedKept
  BY <1>5 DEF OneActive, ClosedKept
<1>6. ASSUME UNCHANGED <<inv, guesses>>, issued'.codes = issued.codes
      PROVE  CodesInv'
  BY <1>0, <1>6 DEF CodesInv
(* A request begins when no other runs, and reads what is stored.          *)
<1>7. ASSUME NEW c \in Clients, NEW q, Idle(c), Hold(c, q), UNCHANGED <<inv, guesses, issued, serial>>,
             q.op = "send" => inv[q.i] = Fresh /\ q.prev = {x \in Invitations : inv[x].status = "active"},
             q.op # "send" => q.row = inv[q.i], q.op # "delivered"
      PROVE  SerialInv' /\ ClosedKept
  <2>1. \A d \in Clients : req[d] = None
    BY <1>7
  <2>2. req'[c] = q /\ \A d \in Clients : d # c => req'[d] = None
    BY <1>0, <1>7, <2>1
  <2>3. OneAtATime'
    BY <2>2 DEF OneAtATime
  <2>4. InStep(c)'
    BY <1>7, <2>2 DEF InStep
  <2> QED
    BY <1>0, <1>5, <1>6, <1>7, <2>2, <2>3, <2>4 DEF SerialInv
<1>8. ASSUME NEW c \in Clients, SendBegin(c)
      PROVE  SerialInv' /\ ClosedKept
  <2>1. PICK i \in Invitations : inv[i] = Fresh /\ Hold(c, [op |-> "send", i |-> i, tickets |-> Tickets \ rated,
                   prev |-> {x \in Invitations : inv[x].status = "active"}])
    BY <1>8 DEF SendBegin
  <2> DEFINE q == [op |-> "send", i |-> i, tickets |-> Tickets \ rated,
                   prev |-> {x \in Invitations : inv[x].status = "active"}]
  <2>2. q.op = "send" /\ inv[q.i] = Fresh /\ q.prev = {x \in Invitations : inv[x].status = "active"}
    BY <2>1
  <2>3. Hold(c, q)
    BY <2>1
  <2> HIDE DEF q
  <2> QED
    BY <1>7, <1>8, <2>2, <2>3 DEF SendBegin
<1>9. ASSUME NEW c \in Clients, SendStore(c)
      PROVE  SerialInv' /\ ClosedKept
  <2> DEFINE i == req[c].i  r == [Fresh EXCEPT !.status = "active"]
             q == [op |-> "mail", i |-> i, row |-> r]
  <2>1. r \in Row /\ r.status = "active" /\ r.code = 0
    BY FreshFits DEF RowFits
  <2>2. i \in Invitations /\ inv[i] = Fresh /\ req[c].prev = {x \in Invitations : inv[x].status = "active"}
    BY <1>0, <1>2, <1>9 DEF SendStore, InStep
  <2>3. \A x \in Invitations : Revoked(inv[x]).status = "revoked" /\ Revoked(inv[x]).code = 0
    BY <1>0 DEF Revoked, Row
  <2>4. Fresh.status = "none" /\ Fresh.code = 0
    BY FreshFits
  <2>5. Hold(c, q)
    BY <1>9 DEF SendStore
  <2> HIDE DEF r
  <2>6. \A x \in Invitations : inv'[x] = IF x = i THEN r ELSE IF x \in req[c].prev THEN Revoked(inv[x]) ELSE inv[x]
    BY <1>9 DEF SendStore, r
  <2>7. \A x \in Invitations : inv'[x].status = "active" <=> x = i
    BY <2>1, <2>2, <2>3, <2>6
  <2>8. \A x \in Invitations : inv'[x].code = 0 \/ inv'[x] = inv[x]
    BY <2>1, <2>3, <2>6
  <2>9. ClosedKept
    BY <2>1, <2>2, <2>3, <2>4, <2>6 DEF ClosedKept, Closed
  <2>10. UNCHANGED <<guesses, issued, serial>>
    BY <1>9 DEF SendStore
  <2>11. CodesInv'
    BY <1>0, <2>8, <2>10 DEF CodesInv
  <2>12. q.op = "mail" /\ q.i = i /\ q.row = r
    OBVIOUS
  <2> HIDE DEF q
  <2>13. req'[c] = q /\ \A d \in Clients : d # c => req'[d] = None
    BY <1>0, <1>2, <1>9, <2>5 DEF SendStore
  <2>14. OneAtATime' /\ InStep(c)'
    BY <2>2, <2>6, <2>12, <2>13 DEF OneAtATime, InStep
  <2> QED
    BY <2>7, <2>9, <2>10, <2>11, <2>13, <2>14 DEF SerialInv, OneActive
<1>10. ASSUME NEW c \in Clients, SendMail(c)
       PROVE  SerialInv' /\ ClosedKept
  <2>1. PICK sent \in BOOLEAN : Hold(c, [op |-> "delivered", i |-> req[c].i,
                   row |-> IF sent THEN req[c].row ELSE [req[c].row EXCEPT !.status = "revoked"]])
    BY <1>10 DEF SendMail
  <2> DEFINE q == [op |-> "delivered", i |-> req[c].i,
                   row |-> IF sent THEN req[c].row ELSE [req[c].row EXCEPT !.status = "revoked"]]
  <2>2. q.op = "delivered" /\ q.i = req[c].i /\ Hold(c, q)
    BY <2>1
  <2> HIDE DEF q
  <2>3. inv[req[c].i].status = "active"
    BY <1>2, <1>10 DEF SendMail
  <2>4. req'[c] = q /\ \A d \in Clients : d # c => req'[d] = None
    BY <1>0, <1>2, <1>10, <2>2 DEF SendMail
  <2>5. OneAtATime' /\ InStep(c)'
    BY <1>10, <2>2, <2>3, <2>4 DEF OneAtATime, InStep, SendMail
  <2> QED
    BY <1>0, <1>5, <1>6, <1>10, <2>4, <2>5 DEF SerialInv, SendMail
<1>11. ASSUME NEW c \in Clients, NEW i \in Invitations, NEW op \in {"open", "code", "verify"}, Begin(c, i, op)
       PROVE  SerialInv' /\ ClosedKept
  <2> DEFINE q == [op |-> op, i |-> i, row |-> inv[i]]
  <2>1. q.op \notin {"send", "delivered"} /\ q.row = inv[q.i]
    OBVIOUS
  <2>2. Hold(c, q)
    BY <1>11 DEF Begin
  <2> HIDE DEF q
  <2> QED
    BY <1>7, <1>11, <2>1, <2>2 DEF Begin
<1>12. ASSUME NEW c \in Clients, NEW i \in Invitations, NEW t \in Tickets, SessionBegin(c, i, t)
       PROVE  SerialInv' /\ ClosedKept
  <2> DEFINE q == [op |-> "rate", i |-> i, t |-> t, row |-> inv[i]]
  <2>1. q.op \notin {"send", "delivered"} /\ q.row = inv[q.i]
    OBVIOUS
  <2>2. Hold(c, q)
    BY <1>12 DEF SessionBegin
  <2> HIDE DEF q
  <2> QED
    BY <1>7, <1>12, <2>1, <2>2 DEF SessionBegin
(* A request that saves what it holds, changed, and ends                   *)
<1>13. ASSUME NEW c \in Clients, NEW r \in Row, req[c] # None, save(req[c].i, r), End(c),
              inv[req[c].i].status = "active",
              r.code = 0 \/ (r.code = inv[req[c].i].code /\ r.attempts = inv[req[c].i].attempts),
              UNCHANGED guesses, issued'.codes = issued.codes
       PROVE  SerialInv' /\ ClosedKept
  BY <1>1, <1>2, <1>3, <1>4, <1>13
<1>14. ASSUME NEW c \in Clients, req[c] # None, End(c), UNCHANGED <<inv, guesses, issued>>
       PROVE  SerialInv' /\ ClosedKept
  BY <1>0, <1>1, <1>4, <1>5, <1>6, <1>14
<1>15. ASSUME NEW c \in Clients, SendSave(c)
       PROVE  SerialInv' /\ ClosedKept
  <2>1. /\ req[c].row \in Row /\ req[c].row.code = 0 /\ inv[req[c].i].status = "active"
    BY <1>0, <1>15 DEF SendSave, InStep, RequestFits, RowFits
  <2> QED
    BY <1>13, <1>15, <2>1 DEF SendSave
<1>16. ASSUME NEW c \in Clients, getInvitationStatus(c)
       PROVE  SerialInv' /\ ClosedKept
  <2> DEFINE r == [req[c].row EXCEPT !.opened = TRUE]
  <2>1. r \in Row /\ r.code = req[c].row.code /\ r.attempts = req[c].row.attempts
    BY <1>2, <1>16 DEF getInvitationStatus, Row
  <2>2. UNCHANGED inv \/ save(req[c].i, r)
    BY <1>16 DEF getInvitationStatus
  <2> HIDE DEF r
  <2> QED
    BY <1>2, <1>13, <1>14, <1>16, <2>1, <2>2 DEF getInvitationStatus
<1>17. ASSUME NEW c \in Clients, requestVerificationCode(c)
       PROVE  SerialInv' /\ ClosedKept
  <2> DEFINE i == req[c].i
  <2>0. /\ i \in Invitations /\ req[c].row \in Row /\ RowFits(req[c].row)
        /\ req[c].row = inv[i] /\ inv[i].status = "active"
    BY <1>0, <1>2, <1>17 DEF requestVerificationCode
  <2>1. CASE moved
    <3> DEFINE r == Revoked(req[c].row)
    <3>1. r \in Row /\ r.code = 0
      <4>1. "revoked" \in Status
        BY DEF Status
      <4>2. r \in Row
        BY <2>0, <4>1, ClosedFits DEF RowFits, Revoked
      <4> QED
        BY <2>0, <4>2 DEF Revoked, Row
    <3>2. save(i, r) /\ End(c) /\ UNCHANGED <<issued, guesses>>
      BY <1>17, <2>1 DEF requestVerificationCode
    <3> HIDE DEF r
    <3> QED
      BY <1>13, <1>17, <2>0, <3>1, <3>2 DEF requestVerificationCode
  <2>2. CASE ~moved
    <3> DEFINE n == issued.codes + 1
               row == [req[c].row EXCEPT !.code = n, !.attempts = 0]
               q == [op |-> "codemail", i |-> i, row |-> row]
    <3>1. n \in Codes /\ n \in 0..MaxCodes /\ issued'.codes = n /\ n > issued.codes /\ n # 0
      BY <1>0, <1>17, <2>2, RatingConstants DEF requestVerificationCode, Codes
    <3>2. save(i, row) /\ Hold(c, q) /\ UNCHANGED <<guesses, serial>>
      BY <1>17, <2>2 DEF requestVerificationCode
    <3> HIDE DEF n
    <3>3. row \in Row /\ row.code = n /\ row.attempts = 0 /\ row.status = "active"
      <4>1. RowFits(row)
        BY <2>0, <3>1, CodeGiven
      <4>2. row.code = n /\ row.attempts = 0 /\ row.status = "active"
        BY <2>0 DEF Row
      <4> HIDE DEF row
      <4> QED
        BY <4>1, <4>2 DEF RowFits
    <3>4. q.op = "codemail" /\ q.i = i /\ q.row = row
      OBVIOUS
    <3> HIDE DEF row, q
    <3>5. \A j \in Invitations : inv'[j] = IF j = i THEN row ELSE inv[j]
      BY <1>0, <2>0, <3>2 DEF save
    <3>6. OneActive' /\ ClosedKept
      BY <1>0, <2>0, <3>3, <3>5 DEF OneActive, ClosedKept, Closed
    <3>7. \A j \in Invitations : inv[j].code \in Nat /\ inv[j].code <= issued.codes /\ inv[j].code # n
      BY <1>0, <3>1, RatingConstants DEF CodesInv, Row
    <3>8. CodesInv'
      <4>1. \A j \in Invitations : inv'[j].code <= issued'.codes
        BY <1>0, <2>0, <3>1, <3>3, <3>5, <3>7, RatingConstants
      <4>2. \A j, k \in Invitations : inv'[j].code = inv'[k].code /\ inv'[j].code # 0 => j = k
        BY <1>0, <3>3, <3>5, <3>7 DEF CodesInv
      <4>3. guesses[n] = 0
        BY <1>0, <3>1 DEF CodesInv
      <4>4. \A j \in Invitations : inv'[j].code # 0 => guesses[inv'[j].code] <= inv'[j].attempts
        BY <1>0, <3>3, <3>5, <4>3 DEF CodesInv
      <4>5. \A m \in Codes : guesses[m] <= MaxAttempts /\ (m > issued'.codes => guesses[m] = 0)
        BY <1>0, <3>1, RatingConstants DEF CodesInv, Codes
      <4> QED
        BY <3>2, <4>1, <4>2, <4>4, <4>5 DEF CodesInv
    <3>9. req'[c] = q /\ \A d \in Clients : d # c => req'[d] = None
      BY <1>0, <1>2, <1>17, <3>2 DEF requestVerificationCode
    <3>10. OneAtATime' /\ InStep(c)'
      BY <2>0, <3>4, <3>5, <3>9 DEF OneAtATime, InStep
    <3> QED
      BY <3>2, <3>6, <3>8, <3>9, <3>10 DEF SerialInv
  <2> QED
    BY <2>1, <2>2
<1>18. ASSUME NEW c \in Clients, CodeMail(c)
       PROVE  SerialInv' /\ ClosedKept
  <2> DEFINE r == [req[c].row EXCEPT !.code = 0]
  <2>1. r \in Row /\ r.code = 0
    BY <1>2, <1>18, RatingConstants DEF CodeMail, Row
  <2>2. UNCHANGED inv \/ save(req[c].i, r)
    BY <1>18 DEF CodeMail
  <2> HIDE DEF r
  <2> QED
    BY <1>2, <1>13, <1>14, <1>18, <2>1, <2>2 DEF CodeMail
<1>19. ASSUME NEW c \in Clients, VerifyWrong(c)
       PROVE  SerialInv' /\ ClosedKept
  <2> DEFINE i == req[c].i  n == req[c].row.code
             row == [req[c].row EXCEPT !.attempts = @ + 1]
             s == IF row.attempts >= MaxAttempts THEN [row EXCEPT !.code = 0] ELSE row
  <2>0. /\ i \in Invitations /\ req[c].row \in Row /\ req[c].row = inv[i] /\ inv[i].status = "active"
        /\ n # 0 /\ inv[i].attempts < MaxAttempts
    BY <1>0, <1>2, <1>19 DEF VerifyWrong, CodeUsable, RowFits
  <2>1. row.attempts = inv[i].attempts + 1 /\ row.code = n /\ row.status = "active"
        /\ [row EXCEPT !.code = 0].code = 0 /\ [row EXCEPT !.code = 0].status = "active"
    BY <2>0 DEF Row
  <2>2. s.status = "active" /\ (s.code = 0 \/ (s.code = n /\ s.attempts = inv[i].attempts + 1))
    BY <2>1
  <2>3. save(i, s) /\ guesses' = [guesses EXCEPT ![n] = guesses[n] + 1] /\ End(c) /\ UNCHANGED issued
    BY <1>19 DEF VerifyWrong
  <2> HIDE DEF s
  <2>4. \A j \in Invitations : inv'[j] = IF j = i THEN s ELSE inv[j]
    BY <1>0, <2>0, <2>3 DEF save
  <2>5. OneActive' /\ ClosedKept
    BY <1>0, <2>0, <2>2, <2>4 DEF OneActive, ClosedKept, Closed
  <2>6. n \in Codes /\ inv[i].attempts \in Nat /\ n = inv[i].code
    BY <2>0, RatingConstants DEF Row, Codes
  <2> HIDE DEF n, i
  <2>7. \A m \in Codes : guesses'[m] = IF m = n THEN guesses[m] + 1 ELSE guesses[m]
    BY <1>0, <2>3, <2>6
  <2>8. guesses[n] <= inv[i].attempts /\ guesses[n] \in Nat
    BY <1>0, <2>0, <2>6 DEF CodesInv
  <2>9. guesses[n] + 1 <= inv[i].attempts + 1 /\ guesses[n] + 1 <= MaxAttempts
    BY <2>0, <2>6, <2>8, RatingConstants
  <2>10. \A j \in Invitations : j # i => inv[j].code # n
    BY <1>0, <2>0, <2>6 DEF CodesInv
  <2>11. CodesInv'
    <3>1. \A j \in Invitations : inv'[j].code <= issued'.codes
      BY <1>0, <2>0, <2>2, <2>3, <2>4, <2>6 DEF CodesInv
    <3>2. \A j, k \in Invitations : inv'[j].code = inv'[k].code /\ inv'[j].code # 0 => j = k
      BY <1>0, <2>2, <2>4, <2>6, <2>10 DEF CodesInv
    <3>3. \A j \in Invitations : inv'[j].code # 0 => guesses'[inv'[j].code] <= inv'[j].attempts
      <4> SUFFICES ASSUME NEW j \in Invitations, inv'[j].code # 0
                   PROVE  guesses'[inv'[j].code] <= inv'[j].attempts
        OBVIOUS
      <4>1. CASE j = i
        BY <2>2, <2>4, <2>6, <2>7, <2>9, <4>1
      <4>2. CASE j # i
        <5>1. inv'[j] = inv[j] /\ inv[j].code # n /\ inv[j].code \in Codes
          BY <1>0, <2>4, <2>10, <4>2, RatingConstants DEF Row, Codes
        <5> QED
          BY <1>0, <2>7, <5>1 DEF CodesInv
      <4> QED
        BY <4>1, <4>2
    <3>4. \A m \in Codes : guesses'[m] <= MaxAttempts /\ (m > issued'.codes => guesses'[m] = 0)
      <4>1. ~(n > issued.codes)
        BY <1>0, <2>0, <2>6, RatingConstants DEF CodesInv, Codes
      <4> QED
        BY <1>0, <2>3, <2>7, <2>9, <4>1 DEF CodesInv
    <3> QED
      BY <3>1, <3>2, <3>3, <3>4 DEF CodesInv
  <2> QED
    BY <1>1, <1>4, <1>19, <2>3, <2>5, <2>11 DEF VerifyWrong
<1>20. ASSUME NEW c \in Clients, VerifyRight(c)
       PROVE  SerialInv' /\ ClosedKept
  <2> DEFINE n == issued.tokens + 1
             r == [req[c].row EXCEPT !.session = n, !.code = 0, !.attempts = 0, !.opened = TRUE]
  <2>1. n \in 0..MaxTokens
    BY <1>0, <1>20, RatingConstants DEF VerifyRight
  <2>2. save(req[c].i, r) /\ issued'.codes = issued.codes /\ UNCHANGED guesses /\ End(c)
    BY <1>0, <1>20 DEF VerifyRight
  <2> HIDE DEF n
  <2>3. r \in Row /\ r.code = 0
    <3>1. RowFits(req[c].row) /\ req[c].row \in Row /\ req[c].row.status = "active"
      BY <1>0, <1>20 DEF VerifyRight, RequestFits, RowFits
    <3>2. RowFits(r)
      BY <2>1, <3>1, SessionGiven
    <3>3. r.code = 0
      BY <3>1 DEF Row
    <3> HIDE DEF r
    <3> QED
      BY <3>2, <3>3 DEF RowFits
  <2> HIDE DEF r
  <2> QED
    BY <1>2, <1>13, <1>20, <2>2, <2>3 DEF VerifyRight
<1>21. ASSUME NEW c \in Clients, VerifyUnusable(c)
       PROVE  SerialInv' /\ ClosedKept
  <2> DEFINE r == [req[c].row EXCEPT !.code = 0]
  <2>1. r \in Row /\ r.code = 0
    BY <1>2, <1>21, RatingConstants DEF VerifyUnusable, Row
  <2>2. save(req[c].i, inv[req[c].i]) \/ save(req[c].i, r)
    BY <1>21 DEF VerifyUnusable
  <2> HIDE DEF r
  <2>3. inv[req[c].i] \in Row
    BY <1>0, <1>2, <1>21 DEF VerifyUnusable
  <2> QED
    BY <1>2, <1>13, <1>21, <2>1, <2>2, <2>3 DEF VerifyUnusable
<1>22. ASSUME NEW c \in Clients, SubmitRating(c)
       PROVE  SerialInv' /\ ClosedKept
  <2>1. CASE moved
    <3> DEFINE r == RevokedBySession(req[c].row)
    <3>1. r \in Row
      BY <1>0, <1>22, StatusFits DEF SubmitRating, RevokedBySession, RequestFits, RowFits, Status
    <3>2. r.code = req[c].row.code /\ r.attempts = req[c].row.attempts
      BY <1>2, <1>22 DEF SubmitRating, RevokedBySession, Row
    <3>3. save(req[c].i, r)
      BY <1>22, <2>1 DEF SubmitRating
    <3> HIDE DEF r
    <3> QED
      BY <1>2, <1>13, <1>22, <2>1, <3>1, <3>2, <3>3 DEF SubmitRating
  <2>2. CASE ~moved /\ req[c].t \in rated
    BY <1>14, <1>22, <2>2 DEF SubmitRating
  <2>3. CASE ~moved /\ req[c].t \notin rated
    <3> DEFINE q == [req[c] EXCEPT !.op = "track"]
    <3>1. req[c] = [op |-> "rate", i |-> req[c].i, t |-> req[c].t, row |-> req[c].row]
      BY <1>0, <1>22 DEF SubmitRating, RequestFits
    <3>2. q.op = "track" /\ q.i = req[c].i /\ q.row = req[c].row
      BY <3>1
    <3>3. Hold(c, q)
      BY <1>22, <2>3 DEF SubmitRating
    <3> HIDE DEF q
    <3>4. req'[c] = q /\ \A d \in Clients : d # c => req'[d] = None
      BY <1>0, <1>2, <1>22, <3>3 DEF SubmitRating
    <3>5. OneAtATime' /\ InStep(c)'
      BY <1>2, <1>22, <2>3, <3>2, <3>4 DEF OneAtATime, InStep, SubmitRating
    <3> QED
      BY <1>0, <1>5, <1>6, <1>22, <2>3, <3>4, <3>5 DEF SerialInv, SubmitRating
  <2> QED
    BY <2>1, <2>2, <2>3
<1>23. ASSUME NEW c \in Clients, TrackRating(c)
       PROVE  SerialInv' /\ ClosedKept
  <2> DEFINE r == [req[c].row EXCEPT !.status = "completed", !.session = 0]
  <2>1. r \in Row
    BY <1>0, <1>23, StatusFits DEF TrackRating, RequestFits, RowFits, Status
  <2>2. r.code = req[c].row.code /\ r.attempts = req[c].row.attempts
    BY <1>2, <1>23 DEF TrackRating, Row
  <2>3. UNCHANGED inv \/ save(req[c].i, r)
    BY <1>23 DEF TrackRating
  <2> HIDE DEF r
  <2> QED
    BY <1>2, <1>13, <1>14, <1>23, <2>1, <2>2, <2>3 DEF TrackRating
<1>24. ASSUME NEW c \in Clients, TrackFails(c)
       PROVE  SerialInv' /\ ClosedKept
  BY <1>14, <1>24 DEF TrackFails
<1>25. ASSUME NEW i \in Invitations, NEW r \in Row, inv[i].status = "active", save(i, r), \E c \in Clients : Idle(c),
              r.code = 0 \/ (r.code = inv[i].code /\ r.attempts = inv[i].attempts),
              UNCHANGED <<guesses, issued, req>>
       PROVE  SerialInv' /\ ClosedKept
  <2>1. \A d \in Clients : req'[d] = None
    BY <1>25
  <2> QED
    BY <1>1, <1>3, <1>25, <2>1
<1>26. ASSUME NEW i \in Invitations, ExpireOnAccess(i)
       PROVE  SerialInv' /\ ClosedKept
  <2> DEFINE r == [inv[i] EXCEPT !.status = "expired", !.code = 0, !.session = 0]
  <2>1. r \in Row
    BY <1>0, ClosedFits DEF RowFits, Status
  <2>2. r.code = 0
    BY <1>0 DEF Row
  <2>3. save(i, r)
    BY <1>26 DEF ExpireOnAccess
  <2> HIDE DEF r
  <2> QED
    BY <1>25, <1>26, <2>1, <2>2, <2>3 DEF ExpireOnAccess
<1>27. ASSUME NEW i \in Invitations, SessionExpired(i)
       PROVE  SerialInv' /\ ClosedKept
  <2> DEFINE st == IF i \in old THEN "expired" ELSE inv[i].status
             r == [inv[i] EXCEPT !.session = 0, !.status = st]
  <2>1. save(i, r)
    BY <1>0, <1>27 DEF SessionExpired, Row
  <2>2. st \in Status
    BY <1>0 DEF Row, Status
  <2> HIDE DEF st
  <2>3. r \in Row
    BY <1>0, <2>2, ClosedFits DEF RowFits
  <2>4. r.code = inv[i].code /\ r.attempts = inv[i].attempts
    BY <1>0 DEF Row
  <2> HIDE DEF r
  <2> QED
    BY <1>25, <1>27, <2>1, <2>3, <2>4 DEF SessionExpired
<1>28. CASE Crash
  <2>1. \A d \in Clients : req'[d] = None
    BY <1>28 DEF Crash
  <2> QED
    BY <1>0, <1>1, <1>5, <1>6, <1>28, <2>1 DEF Crash
<1>29. CASE UNCHANGED <<inv, issued, guesses, req, serial>>
  <2>1. ClosedKept /\ CodesInv' /\ OneActive'
    BY <1>0, <1>5, <1>6, <1>29
  <2>2. OneAtATime'
    BY <1>0, <1>29 DEF OneAtATime
  <2>3. \A c \in Clients : req'[c] # None => InStep(c)'
    BY <1>0, <1>29 DEF InStep
  <2> QED
    BY <2>1, <2>2, <2>3 DEF SerialInv
<1> QED
  BY <1>8, <1>9, <1>10, <1>11, <1>12, <1>15, <1>16, <1>17, <1>18, <1>19, <1>20, <1>21, <1>22, <1>23, <1>24,
     <1>26, <1>27, <1>28, <1>29 DEF Next, vars, Expire, ChangeAddress, RateSignedIn

LEMMA SerialFixed ==
  ASSUME [Next]_vars
  PROVE  serial' = serial
BY DEF Next, vars, SendBegin, SendStore, SendMail, SendSave, Begin, SessionBegin, getInvitationStatus,
       requestVerificationCode, CodeMail, VerifyWrong, VerifyRight, VerifyUnusable, SubmitRating, TrackRating,
       TrackFails, ExpireOnAccess, SessionExpired, Expire, ChangeAddress, Crash, RateSignedIn

RatingInv == RowsInv /\ LinksInv /\ SerialInv

LEMMA RatingInductive == RatingInv /\ [Next]_vars => RatingInv'
<1> SUFFICES ASSUME RatingInv, [Next]_vars
             PROVE  RatingInv'
  OBVIOUS
<1>1. RowsInv' /\ LinksInv'
  BY RowsStep, LinksStep DEF RatingInv
<1>2. CASE serial
  BY <1>1, <1>2, SerialStep DEF RatingInv
<1>3. CASE ~serial
  BY <1>1, <1>3, SerialFixed DEF RatingInv, SerialInv
<1> QED
  BY <1>2, <1>3

LEMMA RatingInvHolds == RatingInv => InvitationsHold
<1> SUFFICES ASSUME RatingInv
             PROVE  InvitationsHold
  OBVIOUS
<1>1. InvTypeOK
  BY DEF RatingInv, RowsInv, LinksInv, InvTypeOK, Row, RowFits, Codes, Tokens
<1>2. CompletedIsRated
  BY DEF RatingInv, LinksInv
<1>3. GuessesBounded /\ OneActiveInvitation
  BY DEF RatingInv, SerialInv, CodesInv, OneActive, GuessesBounded, OneActiveInvitation
<1>4. ClosedHoldsNoSecret
  BY DEF RatingInv, RowsInv, RowFits, ClosedHoldsNoSecret
<1> QED
  BY <1>1, <1>2, <1>3, <1>4 DEF InvitationsHold

(* Invitations, links, ratings, codes and sessions fit each other: no rated *)
(* link without feedback (submitRating), five guesses to a code and one     *)
(* active invitation when requests run one by one (verifyCode,             *)
(* sendInvitations), no session on a closed invitation.                    *)
THEOREM InvitationsFit == Spec => []InvitationsHold
<1>1. Init => RatingInv
  BY RowsStart, SerialStart DEF Init, RatingInv
<1> QED
  BY <1>1, RatingInductive, RatingInvHolds, PTL DEF Spec

(* One request at a time never reopens an invitation that is revoked,      *)
(* expired or completed.                                                   *)
THEOREM ClosedForGood == Spec => ClosedStaysClosed
<1>1. Init => RatingInv
  BY RowsStart, SerialStart DEF Init, RatingInv
<1>2. RatingInv /\ [Next]_vars => [serial => \A i \in Invitations : Closed(inv[i].status) => inv'[i].status = inv[i].status]_vars
  BY SerialStep DEF RatingInv, ClosedKept
<1> QED
  BY <1>1, <1>2, RatingInductive, PTL DEF Spec, ClosedStaysClosed

-----------------------------------------------------------------------------
(* Routing                                                                 *)

CategoryRow == [types : (SUBSET Supports) \ {{}}, active : BOOLEAN, deleted : BOOLEAN]
IssueRow == [cat : Categories \cup {Unnamed}, sla : BOOLEAN, active : BOOLEAN, deleted : BOOLEAN]
FilingRow == [stage : {"match", "check", "save"}, user : BOOLEAN, chosen : Supports, type : Supports, cat : Categories,
              issue : Issues \cup {Unnamed}, text : SUBSET Keywords, rule : RuleRow \cup {Unnamed}, valid : BOOLEAN]
TicketRow == [user : BOOLEAN, chosen : Supports, type : Supports, cat : Categories \cup {Unnamed},
              issue : Issues \cup {Unnamed}, ruled : BOOLEAN, started : BOOLEAN, dueFor : Issues \cup {Unnamed, "none"}]

SettingsInv ==
  /\ rtCat \in [Categories -> CategoryRow] /\ \A c \in Categories : rtCat[c].deleted => ~rtCat[c].active
  /\ rtIssue \in [Issues -> IssueRow] /\ \A i \in Issues : rtIssue[i].deleted => ~rtIssue[i].active
  /\ ActiveIssueHasLimit
  /\ rtRule \in [Rules -> RuleRow]

(* What holds of a filing and of a ticket whatever the settings become     *)
ChoiceKept(k, ruled) ==
  /\ k.chosen = "specialized" => k.type = "specialized" /\ ~ruled
  /\ k.user /\ k.issue # Unnamed => ruled

TicketSound(k) ==
  /\ k \in TicketRow /\ ChoiceKept(k, k.ruled)
  /\ k.started => k.dueFor = k.issue

Fitting(t, c, i) ==
  /\ c # Unnamed => rtCat[c].active /\ t \in rtCat[c].types
  /\ i # Unnamed => rtIssue[i].active /\ rtIssue[i].cat = c

(* A filing: what its stage has checked holds as long as the settings have *)
(* not changed since it began.                                             *)
NewFiling(f) ==
  /\ f \in FilingRow /\ ChoiceKept(f, f.rule # Unnamed)
  /\ f.stage = "match" => f.rule = Unnamed
  /\ ~rtOvertaken =>
       /\ f.stage = "match" /\ f.valid => validateRoutingSelection(f.type, f.cat, f.issue)
       /\ f.stage = "check" /\ f.valid => validateRoutingSelection(f.type, f.cat, f.issue)
                                          \/ (f.rule # Unnamed /\ f.rule.issue = Unnamed)
       /\ f.stage = "save" => validateRoutingSelection(f.type, f.cat, f.issue)

(* A correction                                                            *)
Correction(f) ==
  /\ f.stage = "corrected" /\ rtTicket # Unnamed /\ TicketSound(f.row)
  /\ f.named \in Issues => f.row.issue = f.named
  /\ ~rtOvertaken /\ (f.row.issue # rtTicket.issue \/ f.row.cat # rtTicket.cat) => Fitting(f.row.type, f.row.cat, f.row.issue)

WorkInv ==
  /\ rtFiling # Unnamed => NewFiling(rtFiling) \/ Correction(rtFiling)
  /\ rtTicket # Unnamed => TicketSound(rtTicket)
  /\ RefusalHasAReason

RoutingInv == SettingsInv /\ WorkInv

LEMMA RoutingStarts == RoutingInit => RoutingInv
<1> SUFFICES ASSUME RoutingInit
             PROVE  RoutingInv
  OBVIOUS
<1>1. rtCat \in [Categories -> CategoryRow] /\ \A c \in Categories : rtCat[c].deleted => ~rtCat[c].active
  <2>1. rtCat \in [Categories -> [types : TypeSets, active : {TRUE}, deleted : {FALSE}]]
    BY DEF RoutingInit
  <2>2. TypeSets \subseteq (SUBSET Supports) \ {{}}
    BY DEF TypeSets, Supports
  <2>3. \A r \in [types : TypeSets, active : {TRUE}, deleted : {FALSE}] : r \in CategoryRow /\ ~r.deleted
    BY <2>2 DEF CategoryRow
  <2> QED
    BY <2>1, <2>3
<1>3. rtIssue \in [Issues -> IssueRow] /\ \A i \in Issues : (rtIssue[i].deleted => ~rtIssue[i].active) /\ rtIssue[i].sla
  <2>1. /\ rtIssue \in [Issues -> [cat : Categories, sla : {TRUE}, active : BOOLEAN, deleted : BOOLEAN]]
        /\ \A i \in Issues : rtIssue[i].active <=> ~rtIssue[i].deleted
    BY DEF RoutingInit
  <2>2. \A r \in [cat : Categories, sla : {TRUE}, active : BOOLEAN, deleted : BOOLEAN] : r \in IssueRow /\ r.sla
    BY DEF IssueRow
  <2> QED
    BY <2>1, <2>2
<1>4. ActiveIssueHasLimit
  BY <1>3 DEF ActiveIssueHasLimit
<1> QED
  BY <1>1, <1>3, <1>4 DEF RoutingInit, RoutingInv, SettingsInv, WorkInv, RefusalHasAReason

LEMMA SettingsStep ==
  ASSUME SettingsInv, [RoutingNext]_rtVars
  PROVE  SettingsInv'
<1> USE DEF SettingsInv
<1>1. ASSUME NEW c \in Categories, NEW ts \in TypeSets, NEW b \in BOOLEAN, SaveCategory(c, ts, b)
      PROVE  SettingsInv'
  <2>1. [types |-> ts, active |-> b, deleted |-> FALSE] \in CategoryRow
    BY DEF CategoryRow, TypeSets, Supports
  <2> QED
    BY <1>1, <2>1 DEF SaveCategory, ActiveIssueHasLimit
<1>2. ASSUME NEW c \in Categories, DeleteCategory(c)
      PROVE  SettingsInv'
  <2>1. rtCat' = [rtCat EXCEPT ![c].deleted = TRUE, ![c].active = FALSE] /\ UNCHANGED <<rtIssue, rtRule, rtBlank>>
    BY <1>2 DEF DeleteCategory
  <2>2. rtCat' \in [Categories -> CategoryRow] /\ \A d \in Categories : d # c => rtCat'[d] = rtCat[d]
    BY <2>1 DEF CategoryRow
  <2>3. rtCat'[c].active = FALSE
    BY <2>1 DEF CategoryRow
  <2> QED
    BY <2>1, <2>2, <2>3 DEF ActiveIssueHasLimit
(* An issue is stored                                                      *)
<1>3. ASSUME NEW i \in Issues, NEW row \in IssueRow, rtIssue' = [rtIssue EXCEPT ![i] = row],
             row.deleted => ~row.active, row.active => row.sla \/ i \in rtBlank', rtBlank \subseteq rtBlank',
             UNCHANGED <<rtCat, rtRule>>
      PROVE  SettingsInv'
  BY <1>3 DEF ActiveIssueHasLimit
<1>4. ASSUME NEW i \in Issues, NEW c \in Categories \cup {Unnamed}, NEW sla \in BOOLEAN, NEW active \in BOOLEAN \cup {Unnamed},
             UpdateIssueType(i, c, sla, active)
      PROVE  SettingsInv'
  <2> DEFINE was == rtIssue[i]
             put == [was EXCEPT !.cat = c, !.deleted = FALSE]
             row == withLimit(put, sla)
             new == IF active = Unnamed THEN row ELSE [row EXCEPT !.active = active]
  <2>1. was \in IssueRow /\ (was.active => was.sla \/ i \in rtBlank)
    BY DEF ActiveIssueHasLimit
  <2> HIDE DEF was
  <2>2. put \in IssueRow /\ put.deleted = FALSE
    BY <2>1 DEF IssueRow
  <2> HIDE DEF put
  <2>3. row \in IssueRow /\ row.deleted = FALSE /\ row.sla = sla /\ (row.active => sla)
    BY <2>2 DEF IssueRow, withLimit
  <2>4. (active = TRUE => row.sla) /\ rtIssue' = [rtIssue EXCEPT ![i] = new] /\ UNCHANGED <<rtCat, rtRule, rtBlank>>
    BY <1>4 DEF UpdateIssueType, put, was
  <2> HIDE DEF row
  <2>5. new \in IssueRow /\ new.deleted = FALSE /\ (new.active => new.sla)
    <3>1. CASE active = Unnamed
      BY <2>3, <3>1
    <3>2. CASE active # Unnamed /\ active = TRUE
      BY <2>3, <2>4, <3>2 DEF IssueRow
    <3>3. CASE active # Unnamed /\ active = FALSE
      BY <2>3, <3>3 DEF IssueRow
    <3> QED
      BY <3>1, <3>2, <3>3
  <2> HIDE DEF new
  <2> QED
    BY <1>3, <2>4, <2>5
<1>5. ASSUME NEW i \in Issues, NEW c \in Categories \cup {Unnamed}, NEW sla \in BOOLEAN, NEW b \in BOOLEAN,
             CreateIssueType(i, c, sla, b)
      PROVE  SettingsInv'
  <2> DEFINE row == [cat |-> c, sla |-> sla, active |-> b, deleted |-> FALSE]
  <2>1. row \in IssueRow /\ row.deleted = FALSE /\ row.active = b /\ row.sla = sla
    BY DEF IssueRow
  <2>2. rtIssue' = [rtIssue EXCEPT ![i] = row]
    BY <1>5 DEF CreateIssueType
  <2> HIDE DEF row
  <2> QED
    BY <1>3, <1>5, <2>1, <2>2 DEF CreateIssueType
<1>6. ASSUME NEW i \in Issues, DeleteIssueType(i)
      PROVE  SettingsInv'
  <2>1. rtIssue' = [rtIssue EXCEPT ![i].deleted = TRUE, ![i].active = FALSE] /\ UNCHANGED <<rtCat, rtRule, rtBlank>>
    BY <1>6 DEF DeleteIssueType
  <2>2. rtIssue' \in [Issues -> IssueRow] /\ \A j \in Issues : j # i => rtIssue'[j] = rtIssue[j]
    BY <2>1 DEF IssueRow
  <2>3. rtIssue'[i].active = FALSE
    BY <2>1 DEF IssueRow
  <2> QED
    BY <2>1, <2>2, <2>3 DEF ActiveIssueHasLimit
<1>7. ASSUME NEW r \in Rules, NEW row \in RuleRows, SaveKeywordRule(r, row)
      PROVE  SettingsInv'
  BY <1>7 DEF SaveKeywordRule, RuleRows, ActiveIssueHasLimit
<1>8. ASSUME NEW r \in Rules, DeleteKeywordRule(r)
      PROVE  SettingsInv'
  BY <1>8 DEF DeleteKeywordRule, RuleRow, ActiveIssueHasLimit
<1>9. ASSUME UNCHANGED rtSettings
      PROVE  SettingsInv'
  BY <1>9 DEF rtSettings, ActiveIssueHasLimit
<1>10. CASE ChangeSettings
  BY <1>1, <1>2, <1>4, <1>5, <1>6, <1>7, <1>8, <1>10 DEF ChangeSettings
<1>11. CASE FileOrCorrect
  <2>1. ASSUME NEW user, NEW t, NEW c, NEW i, NEW text, createTicketInternal(user, t, c, i, text)
        PROVE  UNCHANGED rtSettings
    BY <2>1 DEF createTicketInternal
  <2>2. ASSUME NEW t, NEW c, NEW i, Correct(t, c, i)
        PROVE  UNCHANGED rtSettings
    BY <2>2 DEF Correct
  <2> QED
    BY <1>9, <1>11, <2>1, <2>2 DEF FileOrCorrect
<1>12. CASE MatchRule \/ Validate \/ (\E b \in BOOLEAN : Save(b)) \/ StartWork \/ SaveCorrection
  BY <1>9, <1>12 DEF MatchRule, Validate, Save, StartWork, SaveCorrection
<1>13. CASE UNCHANGED rtVars
  BY <1>9, <1>13 DEF rtVars, rtSettings
<1> QED
  BY <1>10, <1>11, <1>12, <1>13 DEF RoutingNext

(* Choosing and correcting: each step on its own                           *)
LEMMA MatchedFits ==
  ASSUME SettingsInv, NEW f \in FilingRow, NEW r \in matchKeywordRules(f.text, f.type)
  PROVE  /\ r \in Rules /\ rtRule[r] \in RuleRow /\ listedCategory(rtRule[r].cat)
         /\ categorySupportsTicketType(rtRule[r].cat, rtRule[r].type) /\ issueFits(rtRule[r].cat, rtRule[r].issue)
<1>1. \A s \in found(f.text) : s \in Rules /\ usable(s)
  BY DEF found
<1>2. r \in found(f.text)
  BY DEF matchKeywordRules
<1> QED
  BY <1>1, <1>2 DEF usable, SettingsInv

LEMMA Shifted ==
  ASSUME NEW f \in FilingRow, NEW st \in {"match", "check", "save"}, NEW tx \in SUBSET Keywords, NEW t \in Supports,
         NEW c \in Categories, NEW i \in Issues \cup {Unnamed}, NEW m \in RuleRow
  PROVE  [f EXCEPT !.stage = st, !.text = tx, !.type = t, !.cat = c, !.issue = i, !.rule = m] \in FilingRow
BY DEF FilingRow

LEMMA Checked ==
  ASSUME NEW f \in FilingRow, NEW st \in {"match", "check", "save"}, NEW tx \in SUBSET Keywords
  PROVE  [f EXCEPT !.stage = st, !.text = tx] \in FilingRow
BY DEF FilingRow

LEMMA Corrected ==
  ASSUME NEW k \in TicketRow, NEW t \in Supports, NEW c \in Categories \cup {Unnamed}, NEW i \in Issues \cup {Unnamed},
         NEW d \in Issues \cup {Unnamed, "none"}
  PROVE  [k EXCEPT !.type = t, !.cat = c, !.issue = i, !.ruled = FALSE, !.user = FALSE,
                     !.chosen = t, !.dueFor = d] \in TicketRow
BY DEF TicketRow

(* The filing is not the correction of a ticket and the other way round.   *)
LEMMA FilingIsNew ==
  ASSUME WorkInv, rtFiling # Unnamed, rtFiling.stage # "corrected"
  PROVE  NewFiling(rtFiling) /\ rtFiling \in FilingRow
BY DEF WorkInv, NewFiling, Correction

LEMMA FilingIsCorrection ==
  ASSUME WorkInv, rtFiling # Unnamed, rtFiling.stage = "corrected"
  PROVE  Correction(rtFiling)
BY DEF WorkInv, NewFiling, FilingRow

LEMMA CreateStep ==
  ASSUME SettingsInv, WorkInv, NEW user \in BOOLEAN, NEW t \in Supports, NEW c \in Categories, NEW text \in SUBSET Keywords,
         NEW i \in Issues \cup {Unnamed}, createTicketInternal(user, t, c, i, text)
  PROVE  WorkInv'
<1> DEFINE issue == IF user THEN Unnamed ELSE i
           ok == validateRoutingSelection(t, c, issue)
<1>1. PICK b \in BOOLEAN : b = ok
  <2>1. ok \in BOOLEAN
    BY DEF validateRoutingSelection
  <2> HIDE DEF ok
  <2> QED
    BY <2>1, Zenon
<1> DEFINE f == [stage |-> "match", user |-> user, chosen |-> t, type |-> t, cat |-> c, issue |-> issue,
                 text |-> text, rule |-> Unnamed, valid |-> b]
<1>2. rtFiling' = f
  <2>1. rtFiling' = [stage |-> "match", user |-> user, chosen |-> t, type |-> t, cat |-> c, issue |-> issue,
                 text |-> text, rule |-> Unnamed, valid |-> ok]
    BY Zenon DEF createTicketInternal
  <2> HIDE DEF ok
  <2> QED
    BY <1>1, <2>1, Zenon
<1>3. issue \in Issues \cup {Unnamed} /\ (user => issue = Unnamed)
  OBVIOUS
<1> HIDE DEF issue
<1>4. f \in FilingRow
  BY <1>3 DEF FilingRow
<1>5. f.stage = "match" /\ f.type = t /\ f.cat = c /\ f.issue = issue /\ f.rule = Unnamed /\ f.valid = b
      /\ f.chosen = t /\ f.user = user
  OBVIOUS
<1> HIDE DEF f
<1>6. ChoiceKept(f, f.rule # Unnamed)
  BY <1>3, <1>5 DEF ChoiceKept
<1>7. UNCHANGED <<rtTicket, rtSettings>> /\ rtRefused' = Unnamed /\ rtOvertaken' = FALSE
  BY DEF createTicketInternal
<1>8. f.valid => validateRoutingSelection(f.type, f.cat, f.issue)
  BY <1>1, <1>5, Zenon
<1>9. validateRoutingSelection(f.type, f.cat, f.issue) => validateRoutingSelection(f.type, f.cat, f.issue)'
  BY <1>2, <1>7 DEF validateRoutingSelection, listedCategory, categorySupportsTicketType, issueFits, rtSettings
<1>10. NewFiling(f)'
  BY <1>4, <1>5, <1>6, <1>8, <1>9 DEF NewFiling
<1> QED
  BY <1>2, <1>7, <1>10 DEF WorkInv, RefusalHasAReason

LEMMA CorrectStep ==
  ASSUME SettingsInv, WorkInv, NEW t \in Supports \cup {Unnamed}, NEW c \in Categories \cup {Unnamed},
         NEW i \in Issues \cup {Unnamed, "cleared"}, Correct(t, c, i)
  PROVE  WorkInv'
<1> DEFINE type == IF t = Unnamed THEN rtTicket.type ELSE t
           tc   == type # rtTicket.type
           cat  == inherited(c, tc, rtTicket.cat)
           next == IF i = "cleared" THEN Unnamed ELSE inherited(i, tc, rtTicket.issue)
           fits == validateRoutingSelection(type, cat, next)
           drop == mayClearInheritedIssue(i, tc, cat # rtTicket.cat, next) /\ validateRoutingSelection(type, cat, Unnamed)
           new  == IF cat # Unnamed /\ ~fits THEN Unnamed ELSE next
           due  == recalculateTicketSlaAfterRoutingChange(rtTicket, new)
           row  == [rtTicket EXCEPT !.type = type, !.cat = cat, !.issue = new, !.ruled = FALSE, !.user = FALSE,
                                    !.chosen = type, !.dueFor = due]
           f == [stage |-> "corrected", named |-> i, row |-> row]
<1>1. /\ rtTicket # Unnamed /\ (IF cat = Unnamed THEN next = Unnamed ELSE ~fits => drop)
      /\ rtFiling' = f /\ rtOvertaken' = FALSE /\ UNCHANGED <<rtTicket, rtRefused, rtSettings>>
  BY Zenon DEF Correct
<1>2. /\ rtTicket \in TicketRow /\ rtTicket.type \in Supports /\ rtTicket.cat \in Categories \cup {Unnamed}
      /\ rtTicket.issue \in Issues \cup {Unnamed} /\ rtTicket.dueFor \in Issues \cup {Unnamed, "none"}
      /\ (rtTicket.started => rtTicket.dueFor = rtTicket.issue)
  BY <1>1 DEF WorkInv, TicketSound, TicketRow
<1>3. type \in Supports /\ cat \in Categories \cup {Unnamed} /\ next \in Issues \cup {Unnamed}
  BY <1>2 DEF inherited
<1>4. i \in Issues => i # Unnamed /\ i # "cleared" /\ next = i
  BY RoutingAssumption DEF inherited
<1>5. drop => i = Unnamed
  BY DEF mayClearInheritedIssue
<1>6. drop => validateRoutingSelection(type, cat, Unnamed)
  OBVIOUS
<1> HIDE DEF type, cat, next, drop
<1>7. new \in Issues \cup {Unnamed} /\ (i \in Issues => new = i)
  BY <1>1, <1>3, <1>4, <1>5
<1>8. cat # Unnamed => validateRoutingSelection(type, cat, new)
  <2>1. CASE fits
    <3>1. new = next /\ validateRoutingSelection(type, cat, next)
      BY <2>1
    <3> QED
      BY <3>1, Zenon
  <2>2. CASE cat # Unnamed /\ ~fits
    <3>1. new = Unnamed /\ validateRoutingSelection(type, cat, Unnamed)
      BY <1>1, <1>6, <2>2, Zenon
    <3> QED
      BY <3>1, Zenon
  <2> QED
    BY <2>1, <2>2, Zenon
<1>9. cat = Unnamed => new = Unnamed
  BY <1>1
<1> HIDE DEF new, fits
<1>10. Fitting(type, cat, new)
  BY <1>8, <1>9 DEF Fitting, validateRoutingSelection, listedCategory, categorySupportsTicketType, issueFits
<1>11. due \in Issues \cup {Unnamed, "none"} /\ (rtTicket.started => due = new)
  BY <1>2, <1>7 DEF recalculateTicketSlaAfterRoutingChange
<1> HIDE DEF due
<1>12. row \in TicketRow
  BY <1>2, <1>3, <1>7, <1>11, Corrected
<1>13. row.type = type /\ row.cat = cat /\ row.issue = new /\ row.ruled = FALSE /\ row.user = FALSE
       /\ row.chosen = type /\ row.dueFor = due /\ row.started = rtTicket.started
  BY <1>2 DEF TicketRow
<1> HIDE DEF row
<1>14. TicketSound(row)
  BY <1>11, <1>12, <1>13 DEF TicketSound, ChoiceKept
<1>15. PICK r, k : r = row /\ k = f
  OBVIOUS
<1>16. k.stage = "corrected" /\ k.named = i /\ k.row = r /\ rtFiling' = k
  BY <1>1, <1>15
<1>17. /\ TicketSound(r) /\ Fitting(r.type, r.cat, r.issue) /\ (i \in Issues => r.issue = i)
  BY <1>7, <1>10, <1>13, <1>14, <1>15
<1>18. Fitting(r.type, r.cat, r.issue)'
  BY <1>1, <1>17 DEF Fitting, rtSettings
<1>19. Correction(k)'
  BY <1>1, <1>16, <1>17, <1>18 DEF Correction
<1> QED
  BY <1>1, <1>16, <1>19 DEF WorkInv, RefusalHasAReason

LEMMA MatchStep ==
  ASSUME SettingsInv, WorkInv, MatchRule
  PROVE  WorkInv'
<1>1. /\ NewFiling(rtFiling) /\ rtFiling \in FilingRow /\ rtFiling.stage = "match" /\ rtFiling.rule = Unnamed
      /\ UNCHANGED <<rtTicket, rtOvertaken, rtRefused, rtSettings>>
  BY FilingIsNew DEF MatchRule, NewFiling
<1>2. \A t, c, i : validateRoutingSelection(t, c, i)' <=> validateRoutingSelection(t, c, i)
  BY <1>1 DEF validateRoutingSelection, listedCategory, categorySupportsTicketType, issueFits, rtSettings
<1>3. SUFFICES ASSUME NEW f, rtFiling' = f
               PROVE  NewFiling(f)'
  BY <1>1, <1>3 DEF WorkInv, RefusalHasAReason
<1>4. ASSUME NEW r \in matchKeywordRules(rtFiling.text, rtFiling.type), movable(rtFiling.type), f = shifted(rtFiling, r)
      PROVE  NewFiling(f)'
  <2> DEFINE m == rtRule[r]
             issue == IF m.issue # Unnamed THEN m.issue ELSE rtFiling.issue
             g == [rtFiling EXCEPT !.stage = "check", !.text = {}, !.type = m.type, !.cat = m.cat, !.issue = issue, !.rule = m]
  <2>1. /\ m \in RuleRow /\ listedCategory(m.cat)
        /\ categorySupportsTicketType(m.cat, m.type) /\ issueFits(m.cat, m.issue)
    BY <1>1, <1>4, MatchedFits
  <2>2. f = g
    BY <1>1, <1>4 DEF shifted, FilingRow
  <2> HIDE DEF m
  <2>3. /\ m.type \in Supports /\ m.cat \in Categories /\ m.issue \in Issues \cup {Unnamed} /\ m # Unnamed
        /\ rtFiling.issue \in Issues \cup {Unnamed}
    BY <1>1, <2>1, RoutingAssumption DEF RuleRow, Supports, FilingRow
  <2>4. issue \in Issues \cup {Unnamed} /\ "check" \in {"match", "check", "save"} /\ {} \in SUBSET Keywords
    BY <2>3
  <2>5. m.issue # Unnamed => issue = m.issue
    OBVIOUS
  <2> HIDE DEF issue
  <2>6. g \in FilingRow
    BY <1>1, <2>1, <2>3, <2>4, Shifted
  <2>7. g.stage = "check" /\ g.type = m.type /\ g.cat = m.cat /\ g.issue = issue /\ g.rule = m /\ g.chosen = rtFiling.chosen
    BY <1>1 DEF FilingRow
  <2> HIDE DEF g
  <2>8. ChoiceKept(g, g.rule # Unnamed)
    BY <1>1, <1>4, <2>3, <2>7 DEF ChoiceKept, NewFiling, movable
  <2>9. m.issue = Unnamed \/ validateRoutingSelection(m.type, m.cat, issue)
    BY <2>1, <2>5 DEF validateRoutingSelection
  <2>10. /\ f \in FilingRow /\ f.stage = "check" /\ ChoiceKept(f, f.rule # Unnamed)
         /\ validateRoutingSelection(f.type, f.cat, f.issue) \/ (f.rule # Unnamed /\ f.rule.issue = Unnamed)
    BY <2>2, <2>3, <2>6, <2>7, <2>8, <2>9
  <2> QED
    BY <1>1, <1>2, <2>10 DEF NewFiling
<1>5. ASSUME f = [rtFiling EXCEPT !.stage = "check", !.text = {}]
      PROVE  NewFiling(f)'
  <2>1. f \in FilingRow
    BY <1>1, <1>5, Checked
  <2>2. /\ f.stage = "check" /\ f.type = rtFiling.type /\ f.cat = rtFiling.cat /\ f.issue = rtFiling.issue
        /\ f.rule = Unnamed /\ f.chosen = rtFiling.chosen /\ f.user = rtFiling.user /\ f.valid = rtFiling.valid
    BY <1>1, <1>5 DEF FilingRow
  <2> QED
    BY <1>1, <1>2, <2>1, <2>2 DEF NewFiling, ChoiceKept
<1> QED
  BY <1>3, <1>4, <1>5 DEF MatchRule

LEMMA ValidateStep ==
  ASSUME SettingsInv, WorkInv, Validate
  PROVE  WorkInv'
<1>1. /\ NewFiling(rtFiling) /\ rtFiling \in FilingRow /\ rtFiling.stage = "check"
      /\ UNCHANGED <<rtTicket, rtOvertaken, rtSettings>>
  BY FilingIsNew DEF Validate
<1>2. CASE validateRoutingSelection(rtFiling.type, rtFiling.cat, rtFiling.issue)
  <2> DEFINE f == [rtFiling EXCEPT !.stage = "save"]
  <2>1. f \in FilingRow
    BY <1>1 DEF FilingRow
  <2>2. /\ f.stage = "save" /\ f.type = rtFiling.type /\ f.cat = rtFiling.cat /\ f.issue = rtFiling.issue
        /\ f.rule = rtFiling.rule /\ f.chosen = rtFiling.chosen /\ f.user = rtFiling.user
    BY <1>1 DEF FilingRow
  <2>3. rtFiling' = f /\ UNCHANGED rtRefused
    BY <1>2 DEF Validate
  <2> HIDE DEF f
  <2>4. PICK g : g = f
    OBVIOUS
  <2>5. validateRoutingSelection(g.type, g.cat, g.issue)'
    BY <1>1, <1>2, <2>2, <2>4
       DEF validateRoutingSelection, listedCategory, categorySupportsTicketType, issueFits, rtSettings
  <2>6. NewFiling(g)'
    BY <1>1, <2>1, <2>2, <2>4, <2>5 DEF NewFiling, ChoiceKept
  <2> QED
    BY <1>1, <2>3, <2>4, <2>6 DEF WorkInv, RefusalHasAReason
<1>3. CASE ~validateRoutingSelection(rtFiling.type, rtFiling.cat, rtFiling.issue)
  <2>1. rtFiling' = Unnamed /\ rtRefused' = [valid |-> rtFiling.valid, overtaken |-> rtOvertaken, rule |-> rtFiling.rule]
    BY <1>3 DEF Validate
  <2>2. RefusalHasAReason'
    BY <1>1, <1>3, <2>1 DEF RefusalHasAReason, NewFiling
  <2> QED
    BY <1>1, <2>1, <2>2 DEF WorkInv
<1> QED
  BY <1>2, <1>3

LEMMA SaveStep ==
  ASSUME SettingsInv, WorkInv, NEW started \in BOOLEAN, Save(started)
  PROVE  WorkInv'
<1>1. /\ NewFiling(rtFiling) /\ rtFiling \in FilingRow /\ rtFiling.stage = "save"
      /\ rtFiling' = Unnamed /\ UNCHANGED <<rtRefused, rtOvertaken>>
  BY FilingIsNew DEF Save
<1>2. PICK b \in BOOLEAN : b <=> rtFiling.rule # Unnamed
  OBVIOUS
<1> DEFINE due == IF started THEN rtFiling.issue ELSE "none"
           k == [user |-> rtFiling.user, chosen |-> rtFiling.chosen, type |-> rtFiling.type, cat |-> rtFiling.cat,
                 issue |-> rtFiling.issue, ruled |-> b, started |-> started, dueFor |-> due]
<1>3. rtTicket' = k
  BY <1>2, Zenon DEF Save
<1>4. due \in Issues \cup {Unnamed, "none"} /\ (started => due = rtFiling.issue)
  BY <1>1 DEF FilingRow
<1> HIDE DEF due
<1>5. k \in TicketRow
  BY <1>1, <1>4 DEF FilingRow, TicketRow
<1>6. TicketSound(k)
  BY <1>1, <1>2, <1>4, <1>5 DEF TicketSound, ChoiceKept, NewFiling
<1> HIDE DEF k
<1> QED
  BY <1>1, <1>3, <1>6 DEF WorkInv, RefusalHasAReason, TicketSound, ChoiceKept

LEMMA WorkStep ==
  ASSUME SettingsInv, WorkInv, [RoutingNext]_rtVars
  PROVE  WorkInv'
<1>1. CASE ChangeSettings
  <2>1. rtOvertaken' = TRUE /\ UNCHANGED <<rtFiling, rtTicket, rtRefused>>
    BY <1>1 DEF ChangeSettings, SaveCategory, DeleteCategory, UpdateIssueType, CreateIssueType, DeleteIssueType,
                SaveKeywordRule, DeleteKeywordRule, changing
  <2>2. rtFiling # Unnamed => (NewFiling(rtFiling) \/ Correction(rtFiling))'
    BY <2>1 DEF WorkInv, NewFiling, Correction
  <2> QED
    BY <2>1, <2>2 DEF WorkInv, RefusalHasAReason
<1>2. CASE FileOrCorrect
  <2>1. ASSUME NEW user \in BOOLEAN, NEW t \in Supports, NEW c \in Categories, NEW text \in SUBSET Keywords,
               NEW i \in IF user THEN {Unnamed} ELSE Issues, createTicketInternal(user, t, c, i, text)
        PROVE  WorkInv'
    <3>1. i \in Issues \cup {Unnamed}
      OBVIOUS
    <3> QED
      BY <2>1, <3>1, CreateStep
  <2> QED
    BY <1>2, <2>1, CorrectStep DEF FileOrCorrect
<1>3. CASE MatchRule \/ Validate \/ \E b \in BOOLEAN : Save(b)
  BY <1>3, MatchStep, ValidateStep, SaveStep
<1>4. CASE StartWork
  <2>1. TicketSound(rtTicket)
    BY <1>4 DEF StartWork, WorkInv
  <2> DEFINE k == [rtTicket EXCEPT !.started = TRUE, !.dueFor = rtTicket.issue]
  <2>2. k \in TicketRow
    BY <2>1 DEF TicketSound, TicketRow
  <2>3. /\ k.dueFor = k.issue /\ k.chosen = rtTicket.chosen /\ k.type = rtTicket.type /\ k.user = rtTicket.user
        /\ k.issue = rtTicket.issue /\ k.ruled = rtTicket.ruled
    BY <2>1 DEF TicketSound, TicketRow
  <2> HIDE DEF k
  <2>4. TicketSound(k)
    BY <2>1, <2>2, <2>3 DEF TicketSound, ChoiceKept
  <2>5. rtTicket' = k /\ rtFiling' = Unnamed /\ UNCHANGED rtRefused
    BY <1>4 DEF StartWork, k
  <2> QED
    BY <2>4, <2>5 DEF WorkInv, RefusalHasAReason, TicketSound, ChoiceKept
<1>5. CASE SaveCorrection
  <2>1. Correction(rtFiling) /\ rtTicket' = rtFiling.row /\ rtFiling' = Unnamed /\ UNCHANGED rtRefused
    BY <1>5, FilingIsCorrection DEF SaveCorrection
  <2> QED
    BY <2>1 DEF WorkInv, RefusalHasAReason, Correction, TicketSound, ChoiceKept
<1>6. CASE UNCHANGED rtVars
  <2>1. rtFiling # Unnamed => (NewFiling(rtFiling) \/ Correction(rtFiling))'
    BY <1>6 DEF rtVars, WorkInv, NewFiling, Correction, validateRoutingSelection, listedCategory,
                categorySupportsTicketType, issueFits, Fitting
  <2> QED
    BY <1>6, <2>1 DEF rtVars, WorkInv, RefusalHasAReason
<1> QED
  BY <1>1, <1>2, <1>3, <1>4, <1>5, <1>6 DEF RoutingNext

LEMMA RoutingInductive == RoutingInv /\ [RoutingNext]_rtVars => RoutingInv'
BY SettingsStep, WorkStep DEF RoutingInv

LEMMA RoutingInvHolds == RoutingInv => RoutingHolds
<1> SUFFICES ASSUME RoutingInv
             PROVE  RoutingHolds
  OBVIOUS
<1>1. RoutingTypeOK
  BY DEF RoutingInv, SettingsInv, WorkInv, RoutingTypeOK, CategoryRow, IssueRow, TicketSound, TicketRow
<1>2. FilersChoiceKept /\ DeadlineFollowsIssue
  BY DEF RoutingInv, WorkInv, TicketSound, ChoiceKept, FilersChoiceKept, DeadlineFollowsIssue
<1> QED
  BY <1>1, <1>2 DEF RoutingInv, SettingsInv, WorkInv, RoutingHolds

(* Settings, filings and tickets fit: an active issue has its limit, a     *)
(* filing is refused for a reason, what the filer chose is kept and the    *)
(* deadline is the issue's (ticket-settings.service, createTicketInternal, *)
(* updateTicketRouting).                                                   *)
THEOREM RoutingFits == RoutingSpec => []RoutingHolds
BY RoutingStarts, RoutingInductive, RoutingInvHolds, PTL DEF RoutingSpec

LEMMA StoresWhatFits ==
  ASSUME RoutingInv, RoutingNext
  PROVE  FiledTogether /\ NamedIssueNeverDropped
<1>1. CASE UNCHANGED rtTicket
  BY <1>1 DEF FiledTogether, NamedIssueNeverDropped
<1>2. CASE StartWork
  <2>1. rtTicket \in TicketRow /\ rtTicket # Unnamed /\ rtFiling = Unnamed
    BY <1>2 DEF StartWork, RoutingInv, WorkInv, TicketSound
  <2>2. rtTicket'.issue = rtTicket.issue /\ rtTicket'.cat = rtTicket.cat
    BY <1>2, <2>1 DEF StartWork, TicketRow
  <2> QED
    BY <2>1, <2>2 DEF FiledTogether, NamedIssueNeverDropped
<1>3. ASSUME NEW started \in BOOLEAN, Save(started)
      PROVE  FiledTogether /\ NamedIssueNeverDropped
  <2>1. NewFiling(rtFiling) /\ rtFiling \in FilingRow /\ rtFiling.stage = "save" /\ UNCHANGED rtSettings
    BY <1>3, FilingIsNew DEF Save, RoutingInv
  <2>2. rtTicket'.type = rtFiling.type /\ rtTicket'.cat = rtFiling.cat /\ rtTicket'.issue = rtFiling.issue
    BY <1>3 DEF Save
  <2>3. ~rtOvertaken => Fitting(rtFiling.type, rtFiling.cat, rtFiling.issue)
    BY <2>1 DEF NewFiling, Fitting, validateRoutingSelection, listedCategory, categorySupportsTicketType, issueFits
  <2> QED
    BY <2>1, <2>2, <2>3 DEF FiledTogether, NamedIssueNeverDropped, Fitting, rtSettings
<1>4. CASE SaveCorrection
  <2>1. Correction(rtFiling) /\ rtTicket' = rtFiling.row /\ UNCHANGED rtSettings
    BY <1>4, FilingIsCorrection DEF SaveCorrection, RoutingInv
  <2> QED
    BY <2>1 DEF Correction, Fitting, FiledTogether, NamedIssueNeverDropped, rtSettings
<1>5. CASE ChangeSettings
  BY <1>1, <1>5 DEF ChangeSettings, SaveCategory, DeleteCategory, UpdateIssueType, CreateIssueType, DeleteIssueType,
                    SaveKeywordRule, DeleteKeywordRule, changing
<1>6. CASE FileOrCorrect
  <2>1. ASSUME NEW user, NEW t, NEW c, NEW i, NEW text, createTicketInternal(user, t, c, i, text)
        PROVE  UNCHANGED rtTicket
    BY <2>1 DEF createTicketInternal
  <2>2. ASSUME NEW t, NEW c, NEW i, Correct(t, c, i)
        PROVE  UNCHANGED rtTicket
    BY <2>2 DEF Correct
  <2> QED
    BY <1>1, <1>6, <2>1, <2>2 DEF FileOrCorrect
<1>7. CASE MatchRule \/ Validate
  BY <1>1, <1>7 DEF MatchRule, Validate
<1> QED
  BY <1>2, <1>3, <1>4, <1>5, <1>6, <1>7 DEF RoutingNext

(* Unless the settings change meanwhile, what filing and correcting store  *)
(* fits together, and an issue named in a correction is the one stored.    *)
THEOREM FiledAndCorrectedTogether == RoutingSpec => StoredTogether
<1>1. RoutingInv /\ [RoutingNext]_rtVars => [FiledTogether /\ NamedIssueNeverDropped]_rtVars
  BY StoresWhatFits
<1> QED
  BY <1>1, RoutingStarts, RoutingInductive, PTL DEF RoutingSpec, StoredTogether
=============================================================================
