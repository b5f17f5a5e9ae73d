--------------------------- MODULE Records_proofs ---------------------------
(***************************************************************************)
(* What the components of the records promise for any number of accounts,  *)
(* clients, reports, issuances, users and pages: an inductive invariant    *)
(* for each, that it holds initially and that every step keeps it, and at  *)
(* the end the theorems of RecordsSpec.                                    *)
(***************************************************************************)
EXTENDS MCRecords, FiniteSetTheorems, WellFoundedInduction, TLAPS

-----------------------------------------------------------------------------
(* Signing in                                                              *)
(* A user row whose counters are below what locks the account or ends the  *)
(* challenge, as long as neither has happened.                             *)
RowSound(a) ==
  /\ a \in Account
  /\ a.lock = "null" => a.att < MaxAttempts
  /\ a.code # NoCode => a.lock = "null" /\ a.ch < MaxChallenge

Calls == {Nobody} \cup [at : {"signed"}, remember : BOOLEAN]
         \cup [at : {"device"}, epoch : Nat, ver : Nat] \cup [at : {"refresh"}, s : Nat \ {0}]

(* The row, and the failures it has counted while no edit overlaps.        *)
AccountInv ==
  /\ RowSound(acct) /\ codes \in Nat /\ verifications \in Nat
  /\ edit # Nobody => edit.at = "read" /\ scope = "edits" /\ RowSound(edit.row)
  /\ scope # "edits" => wrong = acct.att /\ wrongHere = acct.ch

(* A device about to be stored under the verification the row carries was  *)
(* verified after the last recovery.                                       *)
TrustInv ==
  /\ unlocks \in Nat /\ call \in [Clients -> Calls]
  /\ scope # "edits" =>
       /\ acct.ver <= verifications
       /\ \A d \in devs : d.epoch = unlocks
       /\ \A c \in Clients : call[c].at = "device" =>
            /\ call[c].ver <= verifications
            /\ call[c].ver = acct.ver /\ acct.ver # 0 => call[c].epoch = unlocks

(* Whatever was continued was spent on it, and not by logout.              *)
SessionInv ==
  /\ sessions \in Seq(Nat) /\ 0 \notin ended /\ ended \subseteq spent
  /\ \A s \in DOMAIN sessions : sessions[s] # 0 => sessions[s] \in spent \ ended
  /\ \A s, t \in DOMAIN sessions : sessions[s] = sessions[t] /\ sessions[s] # 0 => s = t

SignInInv == AccountInv /\ TrustInv /\ SessionInv

LEMMA SignInStarts == SignInInit => SignInInv
<1> SUFFICES ASSUME SignInInit PROVE SignInInv
  OBVIOUS
<1>1. AccountInv
  BY SignInAssumption DEF SignInInit, AccountInv, RowSound, Account, NoCode, Nobody
<1>2. TrustInv
  BY DEF SignInInit, TrustInv, Calls, Nobody
<1>3. SessionInv
  BY DEF SignInInit, SessionInv
<1> QED
  BY <1>1, <1>2, <1>3 DEF SignInInv

(* What an operation makes of a row is a row.                              *)
LEMMA Forgiven ==
  ASSUME NEW a \in Account, NEW at \in 0..MaxAttempts, NEW lk \in {"null", "held", "past"}
  PROVE  [a EXCEPT !.att = at, !.lock = lk] \in Account
BY DEF Account

LEMMA Challenged ==
  ASSUME NEW a \in Account, NEW cd \in 0..MaxCodes, NEW ag \in {"new", "live", "old"}, NEW ch \in 0..MaxChallenge
  PROVE  [a EXCEPT !.code = cd, !.age = ag, !.ch = ch] \in Account
BY DEF Account

LEMMA Resent ==
  ASSUME NEW a \in Account, NEW cd \in 0..MaxCodes, NEW ag \in {"new", "live", "old"}
  PROVE  [a EXCEPT !.code = cd, !.age = ag] \in Account
BY DEF Account

LEMMA Failed ==
  ASSUME NEW a \in Account, NEW at \in 0..MaxAttempts, NEW ch \in 0..MaxChallenge,
         NEW lk \in {"null", "held", "past"}, NEW cd \in 0..MaxCodes
  PROVE  [a EXCEPT !.att = at, !.ch = ch, !.lock = lk, !.code = cd] \in Account
BY DEF Account

LEMMA Cleared ==
  ASSUME NEW a \in Account, NEW cd \in 0..MaxCodes, NEW ve \in 0..MaxVerified, NEW at \in 0..MaxAttempts,
         NEW ch \in 0..MaxChallenge, NEW lk \in {"null", "held", "past"}
  PROVE  [a EXCEPT !.code = cd, !.ver = ve, !.att = at, !.ch = ch, !.lock = lk] \in Account
BY DEF Account

(* A success and a recovery leave a sound row without failures.            *)
LEMMA ClearedSound ==
  ASSUME NEW a \in Account, NEW ve \in 0..MaxVerified
  PROVE  LET b == [a EXCEPT !.code = NoCode, !.ver = ve, !.att = 0, !.ch = 0, !.lock = "null"]
         IN  RowSound(b) /\ b.att = 0 /\ b.ch = 0 /\ b.ver = ve
<1> DEFINE b == [a EXCEPT !.code = NoCode, !.ver = ve, !.att = 0, !.ch = 0, !.lock = "null"]
<1>1. /\ NoCode \in 0..MaxCodes /\ 0 \in 0..MaxAttempts /\ 0 \in 0..MaxChallenge
      /\ "null" \in {"null", "held", "past"}
  BY SignInAssumption DEF NoCode
<1>2. b \in Account
  BY <1>1, Cleared
<1>3. b.att = 0 /\ b.ch = 0 /\ b.code = NoCode /\ b.lock = "null" /\ b.ver = ve
  BY DEF Account
<1> HIDE DEF b
<1>4. RowSound(b)
  BY <1>2, <1>3, SignInAssumption DEF RowSound
<1> QED
  BY <1>3, <1>4 DEF b

LEMMA AccountStep ==
  ASSUME AccountInv, [SignInNext]_signInVars
  PROVE  AccountInv'
<1>0. /\ RowSound(acct) /\ acct \in Account
      /\ 0 \in 0..MaxAttempts /\ 0 \in 0..MaxChallenge /\ "null" \in {"null", "held", "past"}
      /\ "new" \in {"new", "live", "old"}
  BY SignInAssumption DEF AccountInv, RowSound
<1>1. ASSUME NEW c \in Clients, Login(c)
      PROVE  AccountInv'
  <2> DEFINE f == forgive(acct)
  <2>1. PICK n \in 1..MaxCodes : n = codes + 1
    BY <1>1, SignInAssumption DEF AccountInv, Login, Issue
  <2>2. f \in Account
    BY <1>0, Forgiven DEF forgive
  <2>3. f.lock = "null" /\ f.att < MaxAttempts /\ f.att = IF acct.lock = "past" THEN 0 ELSE acct.att
    BY <1>0, <1>1, SignInAssumption DEF RowSound, Account, Login, forgive
  <2>4. acct' = [f EXCEPT !.code = n, !.age = "new", !.ch = 0]
    BY <1>1, <2>1 DEF Login, Issue, newChallenge
  <2> HIDE DEF f
  <2>5. n \in 0..MaxCodes
    BY <2>1
  <2>6. acct' \in Account
    BY <1>0, <2>2, <2>4, <2>5, Challenged
  <2>7. acct'.att = f.att /\ acct'.ch = 0 /\ acct'.lock = f.lock
    BY <2>2, <2>4 DEF Account
  <2>8. RowSound(acct')
    BY <2>3, <2>6, <2>7, SignInAssumption DEF RowSound
  <2> QED
    BY <1>1, <2>3, <2>7, <2>8 DEF AccountInv, RowSound, Login, Issue, Nobody
<1>2. ASSUME NEW c \in Clients, Resend(c)
      PROVE  AccountInv'
  <2>1. PICK n \in 1..MaxCodes : n = codes + 1
    BY <1>2, SignInAssumption DEF AccountInv, Resend, Issue
  <2>2. acct.lock = "null" /\ acct.ch < MaxChallenge
    BY <1>0, <1>2 DEF RowSound, Resend
  <2>3. acct' = [acct EXCEPT !.code = n, !.age = "new"]
    BY <1>2, <2>1, <2>2 DEF Resend, Issue, resent, forgive
  <2>4. n \in 0..MaxCodes
    BY <2>1
  <2>5. acct' \in Account
    BY <1>0, <2>3, <2>4, Resent
  <2>6. acct'.att = acct.att /\ acct'.ch = acct.ch /\ acct'.lock = acct.lock
    BY <1>0, <2>3 DEF Account
  <2> QED
    BY <1>2, <2>2, <2>5, <2>6 DEF AccountInv, RowSound, Resend, Issue, mfaGhosts, Nobody
<1>3. ASSUME NEW c \in Clients, VerifyWrong(c)
      PROVE  AccountInv'
  <2>1. acct.lock = "null" /\ acct.att + 1 \in 0..MaxAttempts /\ acct.ch + 1 \in 0..MaxChallenge
    BY <1>0, <1>3, SignInAssumption DEF RowSound, Account, VerifyWrong, Checkable
  <2> DEFINE lk == IF acct.att + 1 >= MaxAttempts THEN "held" ELSE "null"
             cd == IF acct.att + 1 >= MaxAttempts \/ acct.ch + 1 >= MaxChallenge THEN NoCode ELSE acct.code
  <2>2. acct' = [acct EXCEPT !.att = acct.att + 1, !.ch = acct.ch + 1, !.lock = lk, !.code = cd]
    BY <1>3, <2>1 DEF VerifyWrong, failure
  <2>3. /\ cd \in 0..MaxCodes /\ lk \in {"null", "held", "past"}
        /\ lk = "null" => acct.att + 1 < MaxAttempts
        /\ cd # NoCode => lk = "null" /\ acct.ch + 1 < MaxChallenge
    BY <1>0, <2>1, SignInAssumption DEF Account, NoCode
  <2> HIDE DEF lk, cd
  <2>4. acct' \in Account
    BY <1>0, <2>1, <2>2, <2>3, Failed
  <2>5. acct'.att = acct.att + 1 /\ acct'.ch = acct.ch + 1 /\ acct'.lock = lk /\ acct'.code = cd
    BY <1>0, <2>2 DEF Account
  <2> QED
    BY <1>3, <2>3, <2>4, <2>5 DEF AccountInv, RowSound, VerifyWrong, Nobody
<1>4. ASSUME NEW c \in Clients, VerifyRight(c)
      PROVE  AccountInv'
  <2>1. verifications + 1 \in 0..MaxVerified
    BY <1>4, SignInAssumption DEF AccountInv, VerifyRight
  <2>2. RowSound(acct') /\ acct'.att = 0 /\ acct'.ch = 0
    BY <1>0, <1>4, <2>1, ClearedSound, Zenon DEF VerifyRight
  <2> QED
    BY <1>4, <2>2 DEF AccountInv, RowSound, VerifyRight, Nobody
<1>5. CASE UnlockMfa
  <2>1. CASE UNCHANGED <<acct, wrong, wrongHere>>
    BY <1>5, <2>1 DEF AccountInv, UnlockMfa, mfaGhosts, Nobody, RowSound
  <2>2. CASE acct' = [acct EXCEPT !.code = NoCode, !.ver = 0, !.att = 0, !.ch = 0, !.lock = "null"] /\ wrong' = 0 /\ wrongHere' = 0
    <3>1. 0 \in 0..MaxVerified
      BY SignInAssumption
    <3>2. RowSound(acct') /\ acct'.att = 0 /\ acct'.ch = 0
      BY <1>0, <2>2, <3>1, ClearedSound, Zenon
    <3> QED
      BY <1>5, <2>2, <3>2 DEF AccountInv, RowSound, UnlockMfa, Nobody
  <2> QED
    BY <1>5, <2>1, <2>2 DEF UnlockMfa, mfaGhosts
<1>6. CASE Tick
  <2>1. acct' \in Account /\ acct'.att = acct.att /\ acct'.ch = acct.ch /\ acct'.code = acct.code
        /\ (acct'.lock = "null" <=> acct.lock = "null")
    <3>1. CASE acct' = [acct EXCEPT !.age = IF acct.age = "new" THEN "live" ELSE "old"]
      BY <1>0, <3>1 DEF Account
    <3>2. CASE acct.lock = "held" /\ acct' = [acct EXCEPT !.lock = "past"]
      BY <1>0, <3>2 DEF Account
    <3> QED
      BY <1>6, <3>1, <3>2 DEF Tick
  <2> QED
    BY <1>6, <2>1 DEF AccountInv, RowSound, Tick, mfaGhosts, Nobody
<1>7. CASE EditRead
  BY <1>7 DEF AccountInv, RowSound, Account, EditRead, mfaGhosts, Nobody
<1>8. CASE EditSave
  BY <1>8 DEF AccountInv, RowSound, Account, EditSave, mfaGhosts, Nobody
<1>9. CASE SetActive
  BY <1>9 DEF AccountInv, RowSound, Account, SetActive, mfaGhosts
<1>10. ASSUME UNCHANGED <<acct, edit, codes, verifications, mfaGhosts, scope>>
       PROVE  AccountInv'
  BY <1>10 DEF AccountInv, RowSound, mfaGhosts
<1> QED
  BY <1>1, <1>2, <1>3, <1>4, <1>5, <1>6, <1>7, <1>8, <1>9, <1>10
     DEF SignInNext, signInVars, LoginTrusted, SignedIn, TrustDevice, ReviewAccount, DeviceExpires,
         RefreshCheck, RefreshStore, Logout, mfaGhosts

LEMMA TrustStep ==
  ASSUME SignInInv, [SignInNext]_signInVars
  PROVE  TrustInv'
<1> USE DEF SignInInv
<1>0. acct \in Account /\ (edit # Nobody => scope = "edits")
  BY DEF AccountInv, RowSound
<1>1. ASSUME NEW c \in Clients, Login(c) \/ Resend(c)
      PROVE  TrustInv'
  <2>1. acct'.ver = acct.ver
    BY <1>0, <1>1 DEF Login, Resend, Issue, newChallenge, resent, forgive, Account
  <2> QED
    BY <1>1, <2>1 DEF TrustInv, Login, Resend
<1>2. ASSUME NEW c \in Clients, VerifyWrong(c)
      PROVE  TrustInv'
  <2>1. acct'.ver = acct.ver
    BY <1>0, <1>2 DEF VerifyWrong, failure, Account
  <2> QED
    BY <1>2, <2>1 DEF TrustInv, VerifyWrong
<1>3. ASSUME NEW c \in Clients, VerifyRight(c)
      PROVE  TrustInv'
  <2>1. acct'.ver = verifications + 1
    BY <1>0, <1>3 DEF VerifyRight, Account
  <2>2. PICK r \in BOOLEAN : call' = [call EXCEPT ![c] = [at |-> "signed", remember |-> r]]
    BY <1>3 DEF VerifyRight
  <2>3. call' \in [Clients -> Calls]
    BY <2>2 DEF TrustInv, Calls
  <2>4. ASSUME NEW d \in Clients, call'[d].at = "device"
        PROVE  call'[d] = call[d]
    BY <2>2, <2>4 DEF TrustInv
  <2>5. ASSUME NEW d \in Clients, call[d].at = "device"
        PROVE  call[d].ver \in Nat
    BY <2>5 DEF TrustInv, Calls, Nobody
  <2> QED
    BY <1>3, <2>1, <2>3, <2>4, <2>5 DEF TrustInv, VerifyRight, AccountInv
<1>4. ASSUME NEW c \in Clients, SignedIn(c)
      PROVE  TrustInv'
  <2>1. \/ call' = [call EXCEPT ![c] = [at |-> "device", epoch |-> unlocks, ver |-> acct.ver]]
        \/ call' = [call EXCEPT ![c] = Nobody]
    BY <1>4 DEF SignedIn
  <2>2. acct.ver \in Nat
    BY <1>0, SignInAssumption DEF Account
  <2>3. call' \in [Clients -> Calls]
    BY <2>1, <2>2 DEF TrustInv, Calls
  <2>4. ASSUME NEW d \in Clients, call'[d].at = "device"
        PROVE  call'[d] = call[d] \/ call'[d] = [at |-> "device", epoch |-> unlocks, ver |-> acct.ver]
    BY <2>1, <2>4 DEF TrustInv, Nobody
  <2> QED
    BY <1>4, <2>3, <2>4 DEF TrustInv, SignedIn, mfaGhosts
<1>5. ASSUME NEW c \in Clients, TrustDevice(c)
      PROVE  TrustInv'
  <2>1. call' \in [Clients -> Calls]
    BY <1>5 DEF TrustDevice, TrustInv, Calls
  <2>2. ASSUME NEW d \in Clients, call'[d].at = "device"
        PROVE  call'[d] = call[d]
    BY <1>5, <2>2 DEF TrustDevice, TrustInv, Nobody
  <2>3. ASSUME scope # "edits", NEW d \in devs'
        PROVE  d.epoch = unlocks
    BY <1>5, <2>3 DEF TrustDevice, TrustInv, stillVerified
  <2> QED
    BY <1>5, <2>1, <2>2, <2>3 DEF TrustInv, TrustDevice, mfaGhosts
<1>6. CASE UnlockMfa
  <2>1. CASE UNCHANGED <<acct, devs, unlocks>>
    BY <1>6, <2>1 DEF TrustInv, UnlockMfa
  <2>2. CASE acct' = [acct EXCEPT !.code = NoCode, !.ver = 0, !.att = 0, !.ch = 0, !.lock = "null"]
             /\ devs' = {} /\ unlocks' = unlocks + 1
    <3>1. acct'.ver = 0
      BY <1>0, <2>2 DEF Account
    <3> QED
      BY <1>6, <2>2, <3>1 DEF TrustInv, UnlockMfa, AccountInv
  <2> QED
    BY <1>6, <2>1, <2>2 DEF UnlockMfa
<1>7. CASE Tick \/ SetActive
  <2>1. acct'.ver = acct.ver
    BY <1>0, <1>7 DEF Tick, SetActive, Account
  <2> QED
    BY <1>7, <2>1 DEF TrustInv, Tick, SetActive
<1>8. CASE EditSave
  <2>1. scope = "edits" /\ scope' = scope
    BY <1>0, <1>8 DEF EditSave, mfaGhosts, AccountInv, Nobody
  <2> QED
    BY <1>8, <2>1 DEF TrustInv, EditSave
<1>9. CASE DeviceExpires
  BY <1>9 DEF TrustInv, DeviceExpires
<1>10. ASSUME NEW c \in Clients, RefreshCheck(c) \/ RefreshStore(c)
       PROVE  TrustInv'
  <2>1. PICK x \in {Nobody} \cup [at : {"refresh"}, s : Nat \ {0}] : call' = [call EXCEPT ![c] = x]
    <3>1. CASE RefreshCheck(c)
      <4>1. PICK s \in DOMAIN sessions : call' = [call EXCEPT ![c] = [at |-> "refresh", s |-> s]]
        BY <3>1 DEF RefreshCheck
      <4>2. s \in Nat \ {0}
        BY <4>1 DEF SessionInv
      <4> QED
        BY <4>1, <4>2
    <3>2. CASE RefreshStore(c)
      BY <3>2 DEF RefreshStore
    <3> QED
      BY <1>10, <3>1, <3>2
  <2>2. call' \in [Clients -> Calls]
    BY <2>1 DEF TrustInv, Calls
  <2>3. ASSUME NEW d \in Clients, call'[d].at = "device"
        PROVE  call'[d] = call[d]
    BY <2>1, <2>3 DEF TrustInv, Nobody
  <2> QED
    BY <1>10, <2>2, <2>3 DEF TrustInv, RefreshCheck, RefreshStore, mfaGhosts
<1>11. ASSUME UNCHANGED <<acct, devs, call, unlocks, verifications, scope>>
       PROVE  TrustInv'
  BY <1>11 DEF TrustInv
<1> QED
  BY <1>1, <1>2, <1>3, <1>4, <1>5, <1>6, <1>7, <1>8, <1>9, <1>10, <1>11
     DEF SignInNext, signInVars, LoginTrusted, ReviewAccount, EditRead, Logout, mfaGhosts

LEMMA SessionStep ==
  ASSUME SignInInv, [SignInNext]_signInVars
  PROVE  SessionInv'
<1> USE DEF SignInInv
<1>1. ASSUME NEW c \in Clients, LoginTrusted(c) \/ SignedIn(c)
      PROVE  SessionInv'
  <2>1. UNCHANGED <<spent, ended>> /\ sessions' \in {sessions, Append(sessions, 0)}
    BY <1>1 DEF LoginTrusted, SignedIn
  <2>2. CASE sessions' = Append(sessions, 0)
    <3>1. /\ sessions' \in Seq(Nat)
          /\ \A s \in DOMAIN sessions' : sessions'[s] # 0 => s \in DOMAIN sessions /\ sessions'[s] = sessions[s]
      BY <2>2 DEF SessionInv
    <3> QED
      BY <2>1, <3>1 DEF SessionInv
  <2> QED
    BY <2>1, <2>2 DEF SessionInv
<1>2. ASSUME NEW c \in Clients, RefreshStore(c)
      PROVE  SessionInv'
  <2>1. CASE UNCHANGED <<spent, sessions>>
    BY <1>2, <2>1 DEF SessionInv, RefreshStore
  <2> DEFINE s == call[c].s
  <2>2. CASE s \notin spent /\ spent' = spent \cup {s} /\ sessions' = Append(sessions, s)
    <3>1. s \in Nat \ {0}
      BY <1>2 DEF RefreshStore, TrustInv, Calls, Nobody
    <3>2. ended' = ended
      BY <1>2 DEF RefreshStore
    <3> HIDE DEF s
    <3> QED
      BY <2>2, <3>1, <3>2 DEF SessionInv
  <2> QED
    BY <1>2, <2>1, <2>2 DEF RefreshStore, storeToken
<1>3. ASSUME NEW c \in Clients, Logout(c)
      PROVE  SessionInv'
  BY <1>3 DEF SessionInv, Logout
<1>4. ASSUME UNCHANGED <<sessions, spent, ended>>
      PROVE  SessionInv'
  BY <1>4 DEF SessionInv
<1> QED
  BY <1>1, <1>2, <1>3, <1>4
     DEF SignInNext, signInVars, Login, Resend, VerifyWrong, VerifyRight, TrustDevice, RefreshCheck, ReviewAccount,
         UnlockMfa, Tick, DeviceExpires, EditRead, EditSave, SetActive

LEMMA SignInImplies == SignInInv => SignInHolds
<1> SUFFICES ASSUME SignInInv PROVE SignInHolds
  OBVIOUS
<1>1. SignInTypeOK
  BY DEF SignInInv, AccountInv, RowSound, SignInTypeOK
<1>2. GuessesLimited
  BY SignInAssumption DEF SignInInv, AccountInv, RowSound, Account, GuessesLimited
<1>3. NoTrustAcrossRecovery
  BY DEF SignInInv, TrustInv, NoTrustAcrossRecovery
<1>4. ContinuedOnce
  BY DEF SignInInv, SessionInv, ContinuedOnce
<1> QED
  BY <1>1, <1>2, <1>3, <1>4 DEF SignInHolds

-----------------------------------------------------------------------------
(* The report snapshots                                                    *)
(* A row as it may be stored under id, or none.                            *)
RowFits(id, row) ==
  row # NoRow =>
    /\ row \in ArtifactRow
    /\ row.quarter \in (IF id \in Plans THEN {0} ELSE Quarters)
    /\ id \notin Reports => row.sha = Nothing
    /\ id \in Reports => /\ row.sha = row.content
                         /\ row.status = "approved" => row.finalized
                         /\ row.status \in {"draft", "reviewed"} => ~row.finalized

(* A request between its read and its write: what it will store fits, and  *)
(* if it read an approved report it supersedes it and nothing else.        *)
RequestFits(p) ==
  /\ p.id \in used /\ p.id \in Artifacts /\ p.quarter \in Quarters
  /\ RowFits(p.id, p.row)
  /\ p.id \in Reports /\ p.saw # NoRow /\ p.saw.status = "approved" =>
       /\ p.row # NoRow /\ p.row.content = p.saw.content /\ p.row.status = "superseded"

StoreInv ==
  /\ artifacts \in [Artifacts -> ArtifactRow \cup {NoRow}]
  /\ pending = [m \in Managers |-> pending[m]]
  /\ \A id \in Artifacts : RowFits(id, artifacts[id]) /\ (Exists(id) => id \in used)
  /\ \A m \in Managers : pending[m] # Nothing => RequestFits(pending[m])
  /\ shown \in Contents /\ generating \subseteq Contents

(* While nothing went wrong, everything under way on the page is about the *)
(* quarter selected on it.                                                 *)
PageInv ==
  /\ selected \in Quarters /\ listed.quarter \in Quarters /\ loads \subseteq Quarters
  /\ changes \in 0..MaxChanges /\ moves \in 0..MaxMoves
  /\ ~disturbed => /\ loads \subseteq {selected}
                   /\ loads = {} => listed.quarter = selected
                   /\ pending[PageUser] # Nothing => pending[PageUser].quarter = selected

SnapshotInv == StoreInv /\ PageInv

LEMMA SnapshotStarts == SnapshotInit => SnapshotInv
<1> SUFFICES ASSUME SnapshotInit PROVE SnapshotInv
  OBVIOUS
<1>1. StoreInv
  BY DEF SnapshotInit, StoreInv, RowFits, Exists, Contents
<1>2. PageInv
  BY SnapshotAssumption DEF SnapshotInit, PageInv
<1> QED
  BY <1>1, <1>2 DEF SnapshotInv

(* What update() is going to save.                                         *)
LEMMA UpdateFits ==
  ASSUME NEW id \in Artifacts, NEW row \in ArtifactRow, RowFits(id, row),
         NEW s \in ReportStatuses \cup ScheduleStatuses \cup {"active", Nothing},
         NEW text \in {Nothing, Rewritten}, NEW patch, patch = [status |-> s, content |-> text],
         NEW new, new = updated(id, row, patch), new # Nothing
  PROVE  /\ RowFits(id, new)
         /\ id \in Reports /\ row.status = "approved" =>
              new # NoRow /\ new.content = row.content /\ new.status = "superseded"
<1>0. row # NoRow
  BY SnapshotAssumption
<1>1. CASE id \in Reports /\ row.status = "approved"
  <2>1. new = [row EXCEPT !.status = "superseded"]
    BY <1>1 DEF updated
  <2>2. new \in ArtifactRow /\ new.content = row.content /\ new.sha = row.sha /\ new.status = "superseded"
        /\ new.quarter = row.quarter
    BY <2>1 DEF ArtifactRow, ReportStatuses
  <2> QED
    BY <1>0, <1>1, <2>2, SnapshotAssumption DEF RowFits
<1>2. CASE ~(id \in Reports /\ row.status = "approved")
  <2> DEFINE a == assigned(row, patch)
             st == IF s = Nothing THEN row.status ELSE s
             co == IF text = Nothing THEN row.content ELSE text
  <2>1. st \in ReportStatuses \cup ScheduleStatuses \cup {"active"} /\ co \in Contents
    BY DEF ArtifactRow, Contents
  <2>2. a = [row EXCEPT !.status = st, !.content = co]
    BY DEF assigned
  <2> HIDE DEF st, co
  <2>3. a \in ArtifactRow /\ a.quarter = row.quarter /\ a.sha = row.sha /\ a.content = co
    BY <2>1, <2>2 DEF ArtifactRow
  <2>4. CASE id \notin Reports
    BY <1>0, <1>2, <2>3, <2>4 DEF RowFits, updated
  <2>5. CASE id \in Reports
    <3>1. new = [a EXCEPT !.sha = a.content, !.finalized = (a.status = "approved")]
      BY <1>2, <2>5 DEF updated, sealed
    <3>2. PICK f \in BOOLEAN : f = (a.status = "approved")
      OBVIOUS
    <3>3. new = [a EXCEPT !.sha = a.content, !.finalized = f]
      BY <3>1, <3>2
    <3>4. a.content \in Contents
      BY <2>1, <2>3
    <3> HIDE DEF a
    <3>5. new \in ArtifactRow /\ new.sha = new.content /\ new.finalized = f /\ new.status = a.status
          /\ new.quarter = a.quarter
      BY <2>3, <3>3, <3>4 DEF ArtifactRow
    <3> QED
      BY <1>0, <1>2, <2>3, <2>5, <3>2, <3>5 DEF RowFits
  <2> QED
    BY <2>4, <2>5
<1> QED
  BY <1>1, <1>2

(* The rows create() and the bootstrap insert.                             *)
LEMMA NewRowsFit ==
  ASSUME NEW q \in Quarters, StoreInv
  PROVE  /\ \A id \in Reports : RowFits(id, NewReport(shown, q))
         /\ \A id \in Schedules, st \in ScheduleStatuses : RowFits(id, NewEntry(q, st))
         /\ \A id \in Plans : RowFits(id, NewEntry(0, "active"))
         /\ NewReport(shown, q) \in ArtifactRow /\ NewEntry(0, "active") \in ArtifactRow
         /\ \A st \in ScheduleStatuses : NewEntry(q, st) \in ArtifactRow
<1>1. NewReport(shown, q) \in ArtifactRow
  BY DEF NewReport, ArtifactRow, ReportStatuses, StoreInv
<1>2. Nothing \in Contents
  BY DEF Contents
<1>3. \A st \in ScheduleStatuses : NewEntry(q, st) \in ArtifactRow
  BY <1>2 DEF NewEntry, ArtifactRow
<1>4. NewEntry(0, "active") \in ArtifactRow
  BY <1>2 DEF NewEntry, ArtifactRow
<1>5. \A id \in Reports : RowFits(id, NewReport(shown, q))
  BY <1>1, SnapshotAssumption DEF RowFits, NewReport
<1>6. \A id \in Schedules, st \in ScheduleStatuses : RowFits(id, NewEntry(q, st))
  BY <1>3, SnapshotAssumption DEF RowFits, NewEntry
<1>7. \A id \in Plans : RowFits(id, NewEntry(0, "active"))
  BY <1>4, SnapshotAssumption DEF RowFits, NewEntry
<1> QED
  BY <1>1, <1>3, <1>4, <1>5, <1>6, <1>7

(* One more row inserted keeps the store sound.                            *)
LEMMA CreateKeepsStore ==
  ASSUME SnapshotInv, NEW id \in Artifacts, NEW row \in ArtifactRow, RowFits(id, row), Create(id, row)
  PROVE  StoreInv'
<1>1. artifacts' = [artifacts EXCEPT ![id] = row] /\ used' = used \cup {id}
      /\ UNCHANGED <<pending, shown, generating>>
  BY DEF Create
<1>2. artifacts' \in [Artifacts -> ArtifactRow \cup {NoRow}]
  BY <1>1 DEF SnapshotInv, StoreInv
<1>3. \A k \in Artifacts : RowFits(k, artifacts'[k]) /\ (artifacts'[k] # NoRow => k \in used')
  BY <1>1 DEF SnapshotInv, StoreInv, Exists
<1>4. ASSUME NEW m \in Managers, pending[m] # Nothing
      PROVE  RequestFits(pending[m])'
  BY <1>1, <1>4 DEF SnapshotInv, StoreInv, RequestFits, RowFits
<1> QED
  BY <1>1, <1>2, <1>3, <1>4 DEF SnapshotInv, StoreInv, Exists, RowFits

LEMMA SnapshotStoreStep ==
  ASSUME SnapshotInv, [SnapshotNext]_snapshotVars
  PROVE  StoreInv'
<1> USE DEF SnapshotInv
<1>1. ASSUME NEW m \in Managers, NEW id \in Artifacts,
             NEW s \in ReportStatuses \cup ScheduleStatuses \cup {"active", Nothing},
             NEW text \in {Nothing, Rewritten}, UpdateRead(m, id, [status |-> s, content |-> text])
      PROVE  StoreInv'
  <2> DEFINE patch == [status |-> s, content |-> text]
             new == updated(id, artifacts[id], patch)
  <2>1. artifacts[id] \in ArtifactRow /\ RowFits(id, artifacts[id]) /\ id \in used
    BY <1>1 DEF UpdateRead, StoreInv, Exists
  <2>2. /\ new # Nothing
        /\ pending' = [pending EXCEPT ![m] = [id |-> id, row |-> new, saw |-> artifacts[id], quarter |-> selected]]
        /\ UNCHANGED <<artifacts, used, shown, generating>>
    BY <1>1 DEF UpdateRead
  <2>3. /\ RowFits(id, new)
        /\ id \in Reports /\ artifacts[id].status = "approved" =>
             new # NoRow /\ new.content = artifacts[id].content /\ new.status = "superseded"
    BY <2>1, <2>2, UpdateFits
  <2> HIDE DEF new
  <2>4. RequestFits([id |-> id, row |-> new, saw |-> artifacts[id], quarter |-> selected])
    BY <2>1, <2>3 DEF RequestFits, PageInv
  <2> QED
    BY <2>2, <2>4 DEF StoreInv, RequestFits, Exists, RowFits
<1>2. ASSUME NEW m \in Managers, NEW id \in Artifacts, RemoveRead(m, id)
      PROVE  StoreInv'
  <2>1. /\ pending' = [pending EXCEPT ![m] = [id |-> id, row |-> NoRow, saw |-> artifacts[id], quarter |-> selected]]
        /\ UNCHANGED <<artifacts, used, shown, generating>> /\ Exists(id) /\ ~kept(id, artifacts[id])
    BY <1>2 DEF RemoveRead
  <2>2. RequestFits([id |-> id, row |-> NoRow, saw |-> artifacts[id], quarter |-> selected])
    BY <2>1 DEF RequestFits, PageInv, StoreInv, RowFits, kept
  <2> QED
    BY <2>1, <2>2 DEF StoreInv, RequestFits, Exists, RowFits
<1>3. ASSUME NEW m \in Managers, Write(m)
      PROVE  StoreInv'
  <2> DEFINE p == pending[m]
  <2>1. RequestFits(p)
    BY <1>3 DEF Write, StoreInv
  <2>2. /\ artifacts' = [artifacts EXCEPT ![p.id] = p.row] /\ pending' = [pending EXCEPT ![m] = Nothing]
        /\ UNCHANGED <<used, shown, generating>>
    BY <1>3 DEF Write
  <2> HIDE DEF p
  <2>3. artifacts' \in [Artifacts -> ArtifactRow \cup {NoRow}]
    BY <2>1, <2>2 DEF StoreInv, RequestFits, RowFits
  <2>4. \A id \in Artifacts : RowFits(id, artifacts'[id]) /\ (artifacts'[id] # NoRow => id \in used)
    BY <2>1, <2>2 DEF StoreInv, RequestFits, Exists
  <2> QED
    BY <2>2, <2>3, <2>4 DEF StoreInv, Exists, RequestFits, RowFits
<1>4. CASE SaveGeneratedReport \/ AddScheduleEntry \/ AddPlanEntry
  BY <1>4, NewRowsFit, CreateKeepsStore DEF SaveGeneratedReport, AddScheduleEntry, AddPlanEntry, PageInv, Artifacts
<1>5. CASE Seed
  <2>1. NewEntry(1, "planned") \in ArtifactRow /\ NewEntry(0, "active") \in ArtifactRow
    BY NewRowsFit, SnapshotAssumption DEF ScheduleStatuses
  <2>2. \A id \in Schedules : RowFits(id, NewEntry(1, "planned"))
    BY NewRowsFit, SnapshotAssumption DEF ScheduleStatuses
  <2>3. \A id \in Plans : RowFits(id, NewEntry(0, "active"))
    BY NewRowsFit, SnapshotAssumption
  <2>4. \A id \in Artifacts :
          artifacts'[id] = IF id \in missing(Plans) THEN NewEntry(0, "active")
                           ELSE IF id \in missing(Schedules) THEN NewEntry(1, "planned") ELSE artifacts[id]
    BY <1>5 DEF Seed
  <2>5. artifacts' \in [Artifacts -> ArtifactRow \cup {NoRow}]
    BY <1>5, <2>1 DEF Seed, StoreInv
  <2>6. \A id \in Artifacts : RowFits(id, artifacts'[id]) /\ (artifacts'[id] # NoRow => id \in used')
    BY <1>5, <2>2, <2>3, <2>4 DEF Seed, missing, StoreInv, Exists
  <2>7. used \subseteq used' /\ UNCHANGED <<pending, shown, generating>>
    BY <1>5 DEF Seed
  <2> QED
    BY <2>5, <2>6, <2>7 DEF StoreInv, Exists, RequestFits, RowFits
<1>6. ASSUME NEW k \in Kinds, Generate(k)
      PROVE  StoreInv'
  <2>1. reportOf(k, selected) \in Contents
    BY DEF reportOf, Contents, PageInv, completedSchedule
  <2> QED
    BY <1>6, <2>1 DEF Generate, StoreInv, Exists, RequestFits, RowFits
<1>7. ASSUME NEW r \in generating, GenerateAnswers(r)
      PROVE  StoreInv'
  BY <1>7 DEF GenerateAnswers, StoreInv, Exists, RequestFits, RowFits
<1>8. ASSUME UNCHANGED <<artifacts, used, pending, shown, generating>>
      PROVE  StoreInv'
  BY <1>8 DEF StoreInv, Exists, RequestFits, RowFits
<1>9. \A id \in Artifacts, s \in ReportStatuses \cup ScheduleStatuses : SaveArtifactStatus(id, s) => StoreInv'
  BY <1>1, SnapshotAssumption DEF SaveArtifactStatus
<1>10. \A id \in Schedules, s \in ScheduleStatuses : UpdateScheduleEntry(id, s) => StoreInv'
  BY <1>1, SnapshotAssumption DEF UpdateScheduleEntry, Artifacts
<1>11. \A id \in Plans : SavePlanEdit(id) \/ DeletePlanEntry(id) => StoreInv'
  BY <1>1, <1>2, SnapshotAssumption DEF SavePlanEdit, DeletePlanEntry, Artifacts
<1>12. \A m \in Managers, id \in Reports, s \in ReportStatuses \cup {Nothing}, text \in {Nothing, Rewritten} :
         OtherUpdate(m, id, s, text) => StoreInv'
  BY <1>1 DEF OtherUpdate, Artifacts
<1>13. \A m \in Managers, id \in Artifacts : OtherRemove(m, id) => StoreInv'
  BY <1>2 DEF OtherRemove
<1>14. CASE SnapshotNext
  BY <1>3, <1>4, <1>5, <1>6, <1>7, <1>8, <1>9, <1>10, <1>11, <1>12, <1>13, <1>14
     DEF SnapshotNext, SelectQuarter, LoadAnswers, LoadFails
<1> QED
  BY <1>8, <1>14 DEF snapshotVars

LEMMA SnapshotPageStep ==
  ASSUME SnapshotInv, [SnapshotNext]_snapshotVars
  PROVE  PageInv'
<1> USE DEF SnapshotInv
<1>0. PageUser \in Managers
  BY SnapshotAssumption
<1>1. ASSUME NEW m \in Managers, NEW id, NEW patch, UpdateRead(m, id, patch)
      PROVE  PageInv'
  BY <1>0, <1>1, SnapshotAssumption DEF UpdateRead, PageInv, StoreInv
<1>2. ASSUME NEW m \in Managers, NEW id, RemoveRead(m, id)
      PROVE  PageInv'
  BY <1>0, <1>2, SnapshotAssumption DEF RemoveRead, PageInv, StoreInv
<1>3. ASSUME NEW m \in Managers, Write(m)
      PROVE  PageInv'
  BY <1>0, <1>3 DEF Write, PageInv, StoreInv, Loading, RequestFits
<1>4. ASSUME NEW id, NEW row, Create(id, row)
      PROVE  PageInv'
  BY <1>4, SnapshotAssumption DEF Create, PageInv, Loading
<1>5. ASSUME NEW q \in Quarters, SelectQuarter(q)
      PROVE  PageInv'
  <2>1. /\ moves < MaxMoves /\ moves' = moves + 1 /\ selected' = q /\ loads' = loads \cup {q}
        /\ disturbed' = (loads # {} \/ pending[PageUser] # Nothing) /\ UNCHANGED <<pending, listed, changes>>
    BY <1>5 DEF SelectQuarter, Loading, effectQuarter
  <2>2. /\ selected' \in Quarters /\ listed'.quarter \in Quarters /\ loads' \subseteq Quarters
        /\ changes' \in 0..MaxChanges /\ moves' \in 0..MaxMoves
    BY <2>1, SnapshotAssumption DEF PageInv
  <2>3. ASSUME ~disturbed'
        PROVE  loads' = {selected'} /\ pending'[PageUser] = Nothing
    BY <2>1, <2>3
  <2> QED
    BY <2>2, <2>3 DEF PageInv
<1>6. ASSUME NEW q \in loads, LoadAnswers(q) \/ LoadFails(q)
      PROVE  PageInv'
  BY <1>6 DEF LoadAnswers, LoadFails, PageInv
<1>7. ASSUME NEW k \in Kinds, Generate(k)
      PROVE  PageInv'
  BY <1>7, SnapshotAssumption DEF Generate, PageInv
<1>8. ASSUME UNCHANGED <<pending, selected, listed, loads, disturbed, changes, moves>>
      PROVE  PageInv'
  BY <1>8 DEF PageInv
<1>9. CASE SaveGeneratedReport \/ AddScheduleEntry \/ AddPlanEntry
  BY <1>4, <1>9 DEF SaveGeneratedReport, AddScheduleEntry, AddPlanEntry
<1>10. ASSUME NEW id, NEW s, SaveArtifactStatus(id, s) \/ UpdateScheduleEntry(id, s)
       PROVE  PageInv'
  BY <1>0, <1>1, <1>10 DEF SaveArtifactStatus, UpdateScheduleEntry
<1>11. ASSUME NEW id, SavePlanEdit(id) \/ DeletePlanEntry(id)
       PROVE  PageInv'
  BY <1>0, <1>1, <1>2, <1>11 DEF SavePlanEdit, DeletePlanEntry
<1>12. ASSUME NEW m \in Managers, NEW id, NEW s, NEW text, OtherUpdate(m, id, s, text) \/ OtherRemove(m, id)
       PROVE  PageInv'
  BY <1>1, <1>2, <1>12 DEF OtherUpdate, OtherRemove
<1>13. CASE SnapshotNext
  BY <1>3, <1>5, <1>6, <1>7, <1>8, <1>9, <1>10, <1>11, <1>12, <1>13 DEF SnapshotNext, GenerateAnswers, Seed
<1> QED
  BY <1>8, <1>13 DEF snapshotVars

LEMMA SnapshotImplies ==
  SnapshotInv => SnapshotTypeOK /\ SealMatchesText /\ ListFollowsSelection
<1> SUFFICES ASSUME SnapshotInv PROVE SnapshotTypeOK /\ SealMatchesText /\ ListFollowsSelection
  OBVIOUS
<1>1. SnapshotTypeOK
  BY DEF SnapshotInv, StoreInv, PageInv, SnapshotTypeOK, RowFits, Exists
<1>2. SealMatchesText
  BY DEF SnapshotInv, StoreInv, SealMatchesText, RowFits, Exists, Artifacts
<1>3. ListFollowsSelection
  BY DEF SnapshotInv, PageInv, ListFollowsSelection
<1> QED
  BY <1>1, <1>2, <1>3

(* Only a write touches a report, and what it writes over an approved one  *)
(* it was read from is that report superseded.                             *)
LEMMA SnapshotKeeps ==
  ASSUME SnapshotInv, [SnapshotNext]_snapshotVars
  PROVE  ApprovedIsKept
<1> USE DEF SnapshotInv
<1> SUFFICES ASSUME NEW r \in Reports, Exists(r), artifacts[r].status = "approved"
             PROVE  \/ /\ artifacts'[r] # NoRow /\ artifacts'[r].content = artifacts[r].content
                       /\ artifacts'[r].status \in {"approved", "superseded"}
                    \/ \E m \in Managers : pending[m] # Nothing /\ pending[m].id = r /\ pending[m].saw # artifacts[r]
                                           /\ pending'[m] = Nothing
  BY DEF ApprovedIsKept
<1>1. r \in Artifacts /\ r \in used /\ r \notin Plans /\ r \notin Schedules
  BY SnapshotAssumption DEF Artifacts, StoreInv
<1>2. ASSUME NEW m \in Managers, Write(m)
      PROVE  \/ artifacts'[r] = artifacts[r]
             \/ /\ artifacts'[r] # NoRow /\ artifacts'[r].content = artifacts[r].content
                /\ artifacts'[r].status = "superseded"
             \/ pending[m] # Nothing /\ pending[m].id = r /\ pending[m].saw # artifacts[r] /\ pending'[m] = Nothing
  <2> DEFINE p == pending[m]
  <2>1. RequestFits(p)
    BY <1>2 DEF Write, StoreInv
  <2>2. p # Nothing /\ artifacts' = [artifacts EXCEPT ![p.id] = p.row] /\ pending'[m] = Nothing
    BY <1>2 DEF Write, StoreInv
  <2>3. CASE p.id # r
    BY <1>1, <2>2, <2>3 DEF StoreInv
  <2>4. CASE p.id = r
    BY <1>1, <2>1, <2>2, <2>4 DEF StoreInv, RequestFits, Exists
  <2> QED
    BY <2>3, <2>4
<1>3. ASSUME NEW id \in Artifacts, NEW row, Create(id, row)
      PROVE  artifacts'[r] = artifacts[r]
  BY <1>1, <1>3 DEF Create, StoreInv
<1>4. ASSUME SaveGeneratedReport \/ AddScheduleEntry \/ AddPlanEntry
      PROVE  artifacts'[r] = artifacts[r]
  <2>1. CASE SaveGeneratedReport
    BY <1>3, <2>1 DEF SaveGeneratedReport, Artifacts
  <2>2. CASE AddScheduleEntry
    BY <1>3, <2>2 DEF AddScheduleEntry, Artifacts
  <2>3. CASE AddPlanEntry
    BY <1>3, <2>3 DEF AddPlanEntry, Artifacts
  <2> QED
    BY <1>4, <2>1, <2>2, <2>3
<1>5. ASSUME Seed
      PROVE  artifacts'[r] = artifacts[r]
  <2>1. r \notin missing(Plans) /\ r \notin missing(Schedules)
    BY <1>1 DEF missing
  <2> QED
    BY <1>1, <1>5, <2>1 DEF Seed
<1>6. \/ UNCHANGED artifacts
      \/ SaveGeneratedReport \/ AddScheduleEntry \/ AddPlanEntry \/ Seed
      \/ \E m \in Managers : Write(m)
  BY DEF SnapshotNext, snapshotVars, SelectQuarter, LoadAnswers, LoadFails, Generate, GenerateAnswers,
         SaveArtifactStatus, UpdateScheduleEntry, SavePlanEdit, DeletePlanEntry, OtherUpdate, OtherRemove,
         UpdateRead, RemoveRead
<1> QED
  BY <1>2, <1>3, <1>4, <1>5, <1>6 DEF Exists

-----------------------------------------------------------------------------
(* The quarterly assessments                                               *)
AssessRow == [issuance : Issuances, quarter : AssessedQuarters \cup {Annual}, status : Statuses]
ActionRow == [row : Nat, status : ActionStatuses, dated : BOOLEAN]

(* What a request between two of its steps is going to do, given the rows: *)
(* the row it read is of its period, and without one there was none when   *)
(* it looked.                                                              *)
SaveFits(a, rs) ==
  /\ a.issuance \in Issuances /\ a.quarter \in AssessedQuarters \cup {Annual} /\ a.status \in Statuses
  /\ a.looked \in 0..Len(rs) /\ a.row \in 0..Len(rs)
  /\ a.row = 0 => \A k \in 1..a.looked : ~samePeriod(rs[k], a.issuance, a.quarter)
  /\ a.row # 0 => samePeriod(rs[a.row], a.issuance, a.quarter)

ActionFits(row, rs) ==
  row \in ActionRow /\ row.row \in 1..Len(rs) /\ (row.dated <=> row.status = "completed")

AskFits(slot, a, rs) ==
  \/ a = Idle
  \/ a.op = "save" /\ SaveFits(a, rs)
  \/ a.op = "action" /\ a.id \in ActionIds /\ ActionFits(a.action, rs)
  \/ a.op = "refresh" /\ a.issuance \in Issuances /\ slot \notin Others

RowsInv ==
  /\ rows \in Seq(AssessRow)
  /\ evidence \in [EvidenceIds -> 1..Len(rows) \cup {Absent}]
  /\ actions = [a \in ActionIds |-> actions[a]]
  /\ \A a \in ActionIds : actions[a] # Absent => ActionFits(actions[a], rows)
  /\ count \in 0..MaxAsks

AsksInv ==
  /\ asks = [s \in Slots |-> asks[s]]
  /\ \A s \in Slots : AskFits(s, asks[s], rows)

(* The issuance whose dialog a request of the page brings back.            *)
about(a, rs) == IF a.op = "action" THEN rs[a.action.row].issuance ELSE a.issuance

(* The rows the dialog knows are still of the issuances and periods they   *)
(* were of, and its requests are about the issuance it shows.              *)
DialogInv ==
  /\ dialog \in Issuances \cup {Absent} /\ form.quarter \in AssessedQuarters \cup {Annual}
  /\ known \in Seq(AssessRow) /\ Len(known) <= Len(rows)
  /\ \A k \in 1..Len(known) : samePeriod(rows[k], known[k].issuance, known[k].quarter)
  /\ ~crossed => /\ dialog # Absent => form.of = dialog
                 /\ \A s \in {"save", "child"} :
                      asks[s] # Idle => dialog # Absent /\ about(asks[s], rows) = dialog

AssessInv == RowsInv /\ AsksInv /\ DialogInv

(* The first of a set of positions.                                        *)
LEMMA FirstPosition ==
  ASSUME NEW found, found \subseteq Nat, found # {}
  PROVE  /\ (CHOOSE k \in found : \A l \in found : k <= l) \in found
         /\ \A l \in found : (CHOOSE k \in found : \A j \in found : k <= j) <= l
<1> DEFINE R == OpToRel(<, Nat)
<1>1. IsWellFoundedOn(R, Nat)
  BY NatLessThanWellFounded
<1>2. \A x, y \in Nat : <<y, x>> \in R <=> y < x
  BY DEF OpToRel
<1> HIDE DEF R
<1>3. PICK x \in found : \A y \in found : ~ (<<y, x>> \in R)
  BY <1>1, WFMin
<1>4. ASSUME NEW y \in found
      PROVE  x <= y
  <2>1. x \in Nat /\ y \in Nat
    BY <1>3
  <2>2. ~ (y < x)
    BY <1>2, <1>3, <2>1
  <2> QED
    BY <2>1, <2>2
<1> QED
  BY <1>3, <1>4

(* Storing a row, new or in place of one of its period, leaves every       *)
(* position to its issuance and period.                                    *)
LEMMA RowStored ==
  ASSUME NEW rs \in Seq(AssessRow), NEW row \in AssessRow, NEW k \in 0..Len(rs),
         k # 0 => samePeriod(rs[k], row.issuance, row.quarter)
  PROVE  LET new == IF k # 0 THEN [rs EXCEPT ![k] = row] ELSE Append(rs, row) IN
         /\ new \in Seq(AssessRow) /\ Len(new) \in Nat /\ Len(rs) \in Nat
         /\ Len(new) = IF k # 0 THEN Len(rs) ELSE Len(rs) + 1
         /\ \A l \in 1..Len(rs) : /\ rs[l] \in AssessRow /\ new[l] \in AssessRow
                                  /\ new[l].issuance = rs[l].issuance /\ new[l].quarter = rs[l].quarter
         /\ k = 0 => new[Len(rs) + 1] = row
<1> DEFINE new == IF k # 0 THEN [rs EXCEPT ![k] = row] ELSE Append(rs, row)
<1>1. CASE k = 0
  BY <1>1
<1>2. CASE k # 0
  <2>1. k \in 1..Len(rs) /\ rs[k].issuance = row.issuance /\ rs[k].quarter = row.quarter
    BY <1>2 DEF samePeriod
  <2>2. new = [rs EXCEPT ![k] = row]
    BY <1>2
  <2> QED
    BY <1>2, <2>1, <2>2
<1> QED
  BY <1>1, <1>2

(* Rows that keep their issuances and periods keep what refers to them.    *)
LEMMA FitsStay ==
  ASSUME NEW rs \in Seq(AssessRow), NEW new \in Seq(AssessRow), Len(rs) <= Len(new),
         \A l \in 1..Len(rs) : new[l].issuance = rs[l].issuance /\ new[l].quarter = rs[l].quarter
  PROVE  /\ \A slot, a : AskFits(slot, a, rs) => AskFits(slot, a, new) /\ about(a, new) = about(a, rs)
         /\ \A row : ActionFits(row, rs) => ActionFits(row, new)
<1>1. Len(rs) \in Nat /\ Len(new) \in Nat
  OBVIOUS
<1>2. ASSUME NEW row, ActionFits(row, rs)
      PROVE  ActionFits(row, new) /\ new[row.row].issuance = rs[row.row].issuance
  BY <1>1, <1>2 DEF ActionFits
<1>3. ASSUME NEW a, SaveFits(a, rs)
      PROVE  SaveFits(a, new)
  BY <1>1, <1>3 DEF SaveFits, samePeriod
<1>4. ASSUME NEW slot, NEW a, AskFits(slot, a, rs)
      PROVE  AskFits(slot, a, new)
  BY <1>2, <1>3, <1>4 DEF AskFits
<1>5. ASSUME NEW slot, NEW a, AskFits(slot, a, rs)
      PROVE  about(a, new) = about(a, rs)
  BY <1>2, <1>5 DEF AskFits, about, Idle
<1> QED
  BY <1>2, <1>4, <1>5

LEMMA OpsDiffer ==
  /\ \A slot, rs : AskFits(slot, Idle, rs)
  /\ \A slot, rs : \A i \in Issuances : slot \notin Others => AskFits(slot, [op |-> "refresh", issuance |-> i], rs)
  /\ \A i, rs : about([op |-> "refresh", issuance |-> i], rs) = i
BY DEF AskFits, about

(* A request that has been served about issuance i.                        *)
LEMMA ServedFits ==
  ASSUME AsksInv, NEW slot \in Slots, NEW i \in Issuances, asks' = served(slot, i),
         \A s \in Slots : AskFits(s, asks[s], rows')
  PROVE  /\ AsksInv'
         /\ \A s \in Slots \ {slot} : asks'[s] = asks[s]
         /\ slot \in Others => asks'[slot] = Idle
         /\ about(asks'[slot], rows') = i \/ asks'[slot] = Idle
<1>1. \A s \in Slots : asks'[s] = IF s # slot THEN asks[s] ELSE IF slot \in Others THEN Idle
                                  ELSE [op |-> "refresh", issuance |-> i]
  BY DEF served, AsksInv
<1>2. \A s \in Slots : AskFits(s, asks'[s], rows')
  BY <1>1, OpsDiffer
<1>3. asks' = [s \in Slots |-> asks'[s]]
  BY DEF served, AsksInv
<1> QED
  BY <1>1, <1>2, <1>3, OpsDiffer DEF AsksInv

LEMMA AssessStarts == AssessInit => AssessInv
<1> SUFFICES ASSUME AssessInit PROVE AssessInv
  OBVIOUS
<1>1. RowsInv /\ AsksInv
  BY AssessmentAssumption DEF AssessInit, RowsInv, AsksInv, AskFits
<1>2. DialogInv
  BY AssessmentAssumption DEF AssessInit, DialogInv, Slots
<1> QED
  BY <1>1, <1>2 DEF AssessInv

(* The read of saveAssessment finds the first row of the period.           *)
LEMMA SaveReadFits ==
  ASSUME RowsInv, NEW slot \in Slots, NEW i \in Issuances, NEW q \in AssessedQuarters \cup {Annual},
         NEW status \in Statuses, SaveRead(slot, i, q, status)
  PROVE  \E a : /\ asks' = [asks EXCEPT ![slot] = a] /\ a # Idle /\ AskFits(slot, a, rows) /\ about(a, rows) = i
<1> DEFINE found == {k \in 1..Len(rows) : samePeriod(rows[k], i, q)}
           first == IF found = {} THEN 0 ELSE CHOOSE k \in found : \A l \in found : k <= l
           a == [op |-> "save", issuance |-> i, quarter |-> q, status |-> status, looked |-> Len(rows), row |-> first]
<1>1. asks' = [asks EXCEPT ![slot] = a]
  BY DEF SaveRead
<1>2. Len(rows) \in Nat
  BY DEF RowsInv
<1>3. /\ found \subseteq Nat /\ \A k \in found : k \in 1..Len(rows) /\ samePeriod(rows[k], i, q)
      /\ \A k \in 1..Len(rows) : k \in found \/ ~samePeriod(rows[k], i, q)
  BY <1>2
<1>4. IF found = {} THEN first = 0 ELSE first \in found
  BY <1>3, FirstPosition
<1>5. /\ a.op = "save" /\ a.issuance = i /\ a.quarter = q /\ a.status = status /\ a.looked = Len(rows) /\ a.row = first
      /\ a # Idle
  BY DEF Idle
<1> HIDE DEF a, found, first
<1>6. SaveFits(a, rows)
  <2>1. CASE found = {}
    <3>1. a.row = 0 /\ \A k \in 1..Len(rows) : ~samePeriod(rows[k], i, q)
      BY <1>3, <1>4, <1>5, <2>1
    <3> QED
      BY <1>2, <1>5, <3>1 DEF SaveFits
  <2>2. CASE found # {}
    <3>1. a.row \in 1..Len(rows) /\ samePeriod(rows[a.row], i, q)
      BY <1>3, <1>4, <1>5, <2>2
    <3> QED
      BY <1>2, <1>5, <3>1 DEF SaveFits
  <2> QED
    BY <2>1, <2>2
<1>7. AskFits(slot, a, rows) /\ about(a, rows) = i
  BY <1>5, <1>6 DEF AskFits, about
<1> QED
  BY <1>1, <1>5, <1>7

(* The row the dialog shows is one of the issuance shown.                  *)
LEMMA ShownRow ==
  ASSUME DialogInv, RowsInv, activeAssessment # 0
  PROVE  /\ dialog # Absent /\ activeAssessment \in 1..Len(rows)
         /\ rows[activeAssessment] \in AssessRow /\ rows[activeAssessment].issuance = dialog
<1> DEFINE found == {k \in 1..Len(known) : samePeriod(known[k], dialog, form.quarter)}
           first == CHOOSE k \in found : \A l \in found : k <= l
<1>1. dialog # Absent /\ found # {} /\ activeAssessment = first
  BY DEF activeAssessment, knownRow
<1>2. Len(known) \in Nat /\ Len(rows) \in Nat /\ Len(known) <= Len(rows)
  BY DEF DialogInv, RowsInv
<1>3. found \subseteq Nat /\ \A k \in found : k \in 1..Len(known) /\ samePeriod(known[k], dialog, form.quarter)
  BY <1>2
<1>4. first \in found
  BY <1>1, <1>3, FirstPosition
<1> HIDE DEF found, first
<1>5. first \in 1..Len(known) /\ samePeriod(known[first], dialog, form.quarter)
  BY <1>3, <1>4
<1>6. first \in 1..Len(rows) /\ samePeriod(rows[first], known[first].issuance, known[first].quarter)
  BY <1>2, <1>5 DEF DialogInv
<1>7. rows[first] \in AssessRow
  BY <1>6 DEF RowsInv
<1> QED
  BY <1>1, <1>5, <1>6, <1>7 DEF samePeriod

(* A request of the page about the issuance it shows, or of somebody else. *)
Attached(slot, i) == slot \in Others \/ (dialog # Absent /\ i = dialog)

LEMMA AssessStep ==
  ASSUME AssessInv, [AssessNext]_assessVars
  PROVE  AssessInv'
<1> USE DEF AssessInv
<1>1. Slots = {"save", "child"} \cup Others /\ "save" \notin Others /\ "child" \notin Others
  BY AssessmentAssumption DEF Slots
<1>2. Len(rows) \in Nat /\ (\A k \in 1..Len(rows) : rows[k] \in AssessRow /\ rows[k].issuance \in Issuances)
  <2>1. Len(rows) \in Nat /\ \A k \in 1..Len(rows) : rows[k] \in AssessRow
    BY DEF RowsInv
  <2>2. \A r \in AssessRow : r.issuance \in Issuances
    BY DEF AssessRow
  <2> QED
    BY <2>1, <2>2
<1>3. ASSUME NEW slot \in Slots, NEW a, asks' = [asks EXCEPT ![slot] = a], Next0(slot),
             a # Idle, AskFits(slot, a, rows), Attached(slot, about(a, rows)),
             UNCHANGED <<rows, evidence, actions, dialog, known, form, crossed>>
      PROVE  AssessInv'
  <2>1. RowsInv'
    BY <1>3, AssessmentAssumption DEF RowsInv, Next0
  <2>2. AsksInv'
    BY <1>3 DEF AsksInv
  <2>3. DialogInv'
    BY <1>1, <1>3 DEF DialogInv, Attached, AsksInv
  <2> QED
    BY <2>1, <2>2, <2>3
<1>4. ASSUME NEW slot \in Slots, NEW i \in Issuances, asks' = served(slot, i), Attached(slot, i), RowsInv',
             UNCHANGED <<rows, dialog, known, form, crossed>>
      PROVE  AssessInv'
  <2>1. /\ AsksInv' /\ \A s \in Slots \ {slot} : asks'[s] = asks[s]
        /\ slot \in Others => asks'[slot] = Idle
        /\ about(asks'[slot], rows') = i \/ asks'[slot] = Idle
    BY <1>4, ServedFits DEF AsksInv
  <2>2. DialogInv'
    BY <1>1, <1>4, <2>1 DEF DialogInv, Attached
  <2> QED
    BY <1>4, <2>1, <2>2
<1>5. ASSUME NEW slot \in Slots, NEW i \in Issuances, NEW q \in AssessedQuarters \cup {Annual}, NEW status \in Statuses,
             SaveRead(slot, i, q, status), Attached(slot, i)
      PROVE  AssessInv'
  <2>1. PICK a : asks' = [asks EXCEPT ![slot] = a] /\ a # Idle /\ AskFits(slot, a, rows) /\ about(a, rows) = i
    BY <1>5, SaveReadFits
  <2>2. Next0(slot) /\ UNCHANGED <<rows, evidence, actions, dialog, known, form, crossed>>
    BY <1>5 DEF SaveRead
  <2>3. Attached(slot, about(a, rows))
    BY <1>5, <2>1
  <2> QED
    BY <1>3, <2>1, <2>2, <2>3
<1>6. ASSUME NEW slot \in Slots, NEW e \in EvidenceIds, RemoveEvidence(slot, e), Attached(slot, rows[evidence[e]].issuance)
      PROVE  AssessInv'
  <2>1. evidence[e] \in 1..Len(rows)
    BY <1>6 DEF RemoveEvidence, RowsInv
  <2>2. RowsInv'
    BY <1>6, AssessmentAssumption DEF RemoveEvidence, RowsInv, Next0
  <2> QED
    BY <1>2, <1>4, <1>6, <2>1, <2>2 DEF RemoveEvidence
<1>7. ASSUME NEW slot \in Slots, NEW a \in ActionIds, NEW s \in ActionStatuses \cup {Absent},
             UpdateActionRead(slot, a, s), Attached(slot, rows[actions[a].row].issuance)
      PROVE  AssessInv'
  <2> DEFINE new == IF s = Absent THEN actions[a] ELSE withStatus(actions[a], s)
             ask == [op |-> "action", id |-> a, action |-> new]
  <2>1. ActionFits(actions[a], rows)
    BY <1>7 DEF UpdateActionRead, RowsInv
  <2>2. ActionFits(new, rows) /\ new.row = actions[a].row
    <3>1. CASE s = Absent
      BY <2>1, <3>1
    <3>2. CASE s # Absent
      <4>1. s \in ActionStatuses /\ new = [actions[a] EXCEPT !.status = s, !.dated = s = "completed"]
        BY <3>2 DEF withStatus
      <4> HIDE DEF new
      <4>2. new \in ActionRow /\ new.row = actions[a].row /\ new.status = s /\ (new.dated <=> s = "completed")
        BY <2>1, <4>1 DEF ActionFits, ActionRow
      <4> QED
        BY <2>1, <4>2 DEF ActionFits
    <3> QED
      BY <3>1, <3>2
  <2>3. ask.op = "action" /\ ask.id = a /\ ask.action = new /\ ask # Idle
    BY DEF Idle
  <2>4. asks' = [asks EXCEPT ![slot] = ask]
    BY <1>7 DEF UpdateActionRead
  <2> HIDE DEF ask, new
  <2>5. AskFits(slot, ask, rows) /\ about(ask, rows) = rows[actions[a].row].issuance
    BY <2>2, <2>3 DEF AskFits, about
  <2> QED
    BY <1>3, <1>7, <2>3, <2>4, <2>5 DEF UpdateActionRead
<1>8. ASSUME NEW slot \in Slots, NEW a \in ActionIds, RemoveAction(slot, a), Attached(slot, rows[actions[a].row].issuance)
      PROVE  AssessInv'
  <2>1. actions[a].row \in 1..Len(rows)
    BY <1>8 DEF RemoveAction, RowsInv, ActionFits
  <2>2. RowsInv'
    BY <1>8, AssessmentAssumption DEF RemoveAction, RowsInv, Next0
  <2> QED
    BY <1>2, <1>4, <1>8, <2>1, <2>2 DEF RemoveAction
<1>9. CASE ChildRequest
  <2> DEFINE k == activeAssessment
  <2>1. dialog # Absent /\ k \in 1..Len(rows) /\ rows[k].issuance = dialog /\ rows[k].issuance \in Issuances
    BY <1>2, <1>9, ShownRow DEF ChildRequest
  <2>2. "child" \in Slots /\ Attached("child", rows[k].issuance)
    BY <1>1, <2>1 DEF Attached
  <2> HIDE DEF k
  <2>3. ASSUME NEW e \in EvidenceIds, AddEvidence("child", k, e)
        PROVE  AssessInv'
    <3>1. RowsInv'
      BY <2>1, <2>3, AssessmentAssumption DEF AddEvidence, RowsInv, Next0
    <3> QED
      BY <1>4, <2>1, <2>2, <2>3, <3>1 DEF AddEvidence
  <2>4. ASSUME NEW e \in EvidenceIds, evidence[e] = k, RemoveEvidence("child", e)
        PROVE  AssessInv'
    BY <1>6, <2>2, <2>4
  <2>5. ASSUME NEW a \in ActionIds, NEW s \in ActionStatuses, AddAction("child", k, a, s)
        PROVE  AssessInv'
    <3> DEFINE row == [row |-> k, status |-> s, dated |-> s = "completed"]
    <3>1. ActionFits(row, rows)
      <4>1. row.row = k /\ row.status = s /\ row.dated = (s = "completed") /\ k \in Nat /\ (s = "completed") \in BOOLEAN
        BY <1>2, <2>1
      <4>2. row \in ActionRow
        BY <2>5, <4>1 DEF ActionRow
      <4> QED
        BY <2>1, <4>1, <4>2 DEF ActionFits
    <3>2. actions' = [actions EXCEPT ![a] = row]
      BY <2>5 DEF AddAction
    <3> HIDE DEF row
    <3>3. RowsInv'
      BY <2>5, <3>1, <3>2, AssessmentAssumption DEF AddAction, RowsInv, Next0
    <3> QED
      BY <1>4, <2>1, <2>2, <2>5, <3>3 DEF AddAction
  <2>6. ASSUME NEW a \in ActionIds, NEW s \in ActionStatuses, actions[a].row = k,
               UpdateActionRead("child", a, s) \/ RemoveAction("child", a)
        PROVE  AssessInv'
    BY <1>7, <1>8, <2>2, <2>6
  <2> QED
    BY <1>9, <2>3, <2>4, <2>5, <2>6 DEF ChildRequest, k
<1>10. ASSUME NEW slot \in Others, OtherRequest(slot)
       PROVE  AssessInv'
  <2>1. slot \in Slots /\ \A i : Attached(slot, i)
    BY <1>1 DEF Attached
  <2> QED
    BY <1>5, <1>6, <1>7, <1>8, <1>10, <2>1 DEF OtherRequest
<1>11. ASSUME NEW s \in Statuses, SaveAssessment(s)
       PROVE  AssessInv'
  <2>1. dialog \in Issuances /\ Attached("save", dialog) /\ SaveRead("save", dialog, form.quarter, s)
    BY <1>11 DEF SaveAssessment, DialogInv, Attached
  <2>2. form.quarter \in AssessedQuarters \cup {Annual}
    BY DEF DialogInv
  <2> QED
    BY <1>1, <1>5, <2>1, <2>2
<1>12. ASSUME NEW slot \in Slots, SaveWrite(slot)
       PROVE  AssessInv'
  <2> DEFINE ask == asks[slot]
             row == [issuance |-> ask.issuance, quarter |-> ask.quarter, status |-> ask.status]
             new == IF ask.row # 0 THEN [rows EXCEPT ![ask.row] = row] ELSE Append(rows, row)
  <2>1. SaveFits(ask, rows) /\ ask.op = "save"
    BY <1>12 DEF SaveWrite, AsksInv, AskFits, Idle
  <2>2. row \in AssessRow /\ row.issuance = ask.issuance /\ row.quarter = ask.quarter
    BY <2>1 DEF SaveFits, AssessRow
  <2>3. rows' = new /\ asks' = served(slot, ask.issuance) /\ UNCHANGED <<evidence, actions, dialog, known, form, crossed, count>>
    BY <1>12 DEF SaveWrite
  <2>4. rows \in Seq(AssessRow) /\ ask.row \in 0..Len(rows) /\ (ask.row # 0 => samePeriod(rows[ask.row], row.issuance, row.quarter))
    BY <2>1, <2>2 DEF RowsInv, SaveFits
  <2> HIDE DEF row
  <2>5. /\ new \in Seq(AssessRow) /\ Len(new) \in Nat /\ Len(rows) \in Nat
        /\ Len(new) = (IF ask.row # 0 THEN Len(rows) ELSE Len(rows) + 1)
        /\ \A l \in 1..Len(rows) : /\ rows[l] \in AssessRow /\ new[l] \in AssessRow
                                  /\ new[l].issuance = rows[l].issuance /\ new[l].quarter = rows[l].quarter
    BY <2>2, <2>4, RowStored
  <2> HIDE DEF ask, new
  <2>6. /\ Len(rows) <= Len(rows') /\ rows' \in Seq(AssessRow)
        /\ \A l \in 1..Len(rows) : rows'[l].issuance = rows[l].issuance /\ rows'[l].quarter = rows[l].quarter
    BY <2>3, <2>5
  <2>7. /\ \A s, a : AskFits(s, a, rows) => AskFits(s, a, rows') /\ about(a, rows') = about(a, rows)
        /\ \A r : ActionFits(r, rows) => ActionFits(r, rows')
    BY <2>4, <2>6, FitsStay
  <2>8. RowsInv'
    BY <2>3, <2>5, <2>6, <2>7 DEF RowsInv
  <2>9. ask.issuance \in Issuances /\ about(ask, rows) = ask.issuance /\ ask # Idle /\ ask = asks[slot]
    BY <2>1 DEF SaveFits, about, Idle, ask
  <2>10. /\ AsksInv' /\ \A s \in Slots \ {slot} : asks'[s] = asks[s]
         /\ slot \in Others => asks'[slot] = Idle
         /\ about(asks'[slot], rows') = ask.issuance \/ asks'[slot] = Idle
    BY <2>3, <2>7, <2>9, ServedFits DEF AsksInv
  <2>11. DialogInv'
    <3>1. known' \in Seq(AssessRow) /\ Len(known') <= Len(rows') /\ dialog' \in Issuances \cup {Absent}
      BY <2>3, <2>5 DEF DialogInv
    <3>2. \A k \in 1..Len(known') : samePeriod(rows'[k], known'[k].issuance, known'[k].quarter)
      BY <2>3, <2>5 DEF DialogInv, samePeriod
    <3>3. ASSUME ~crossed', NEW s \in {"save", "child"}, asks'[s] # Idle
          PROVE  dialog # Absent /\ about(asks'[s], rows') = dialog
      <4>1. s \in Slots
        BY <1>1
      <4>2. CASE s = slot
        BY <2>3, <2>9, <2>10, <3>3, <4>2 DEF DialogInv
      <4>3. CASE s # slot
        BY <2>3, <2>7, <2>10, <3>3, <4>1, <4>3 DEF DialogInv, AsksInv
      <4> QED
        BY <4>2, <4>3
    <3> QED
      BY <2>3, <3>1, <3>2, <3>3 DEF DialogInv
  <2> QED
    BY <2>8, <2>10, <2>11
<1>13. ASSUME NEW slot \in Slots, UpdateActionWrite(slot)
       PROVE  AssessInv'
  <2> DEFINE ask == asks[slot]
             i == rows[ask.action.row].issuance
  <2>1. ask.op = "action" /\ ask.id \in ActionIds /\ ActionFits(ask.action, rows)
    BY <1>13 DEF UpdateActionWrite, AsksInv, AskFits, Idle
  <2>2. /\ actions' = [actions EXCEPT ![ask.id] = ask.action] /\ asks' = served(slot, i)
        /\ UNCHANGED <<rows, evidence, dialog, known, form, crossed, count>>
    BY <1>13 DEF UpdateActionWrite
  <2>3. i \in Issuances
    BY <1>2, <2>1 DEF ActionFits
  <2>4. RowsInv'
    BY <2>1, <2>2 DEF RowsInv
  <2>5. /\ AsksInv' /\ \A s \in Slots \ {slot} : asks'[s] = asks[s]
        /\ slot \in Others => asks'[slot] = Idle
        /\ about(asks'[slot], rows') = i \/ asks'[slot] = Idle
    BY <2>2, <2>3, ServedFits DEF AsksInv
  <2>6. about(ask, rows) = i /\ ask # Idle
    BY <2>1 DEF about, Idle
  <2>7. DialogInv'
    BY <1>1, <2>2, <2>5, <2>6 DEF DialogInv
  <2> QED
    BY <2>4, <2>5, <2>7
<1>14. ASSUME NEW slot \in Slots, Refresh(slot)
       PROVE  AssessInv'
  <2>1. asks[slot].op = "refresh" /\ asks[slot].issuance \in Issuances /\ slot \in {"save", "child"} /\ asks[slot] # Idle
    BY <1>1, <1>14 DEF Refresh, AsksInv, AskFits, Idle
  <2>2. about(asks[slot], rows) = asks[slot].issuance
    BY <2>1 DEF about
  <2>3. /\ dialog' = asks[slot].issuance /\ known' = rows /\ asks' = [asks EXCEPT ![slot] = Idle]
        /\ UNCHANGED <<rows, evidence, actions, form, crossed, count>>
    BY <1>14 DEF Refresh
  <2>4. RowsInv'
    BY <2>3 DEF RowsInv
  <2>5. AsksInv'
    BY <2>3, OpsDiffer DEF AsksInv
  <2>6. ~crossed => dialog # Absent /\ dialog' = dialog
    BY <2>1, <2>2, <2>3 DEF DialogInv
  <2>7. DialogInv'
    BY <1>1, <1>2, <2>1, <2>3, <2>6 DEF DialogInv, RowsInv, AsksInv, samePeriod
  <2> QED
    BY <2>4, <2>5, <2>7
<1>15. ASSUME NEW i \in Issuances, OpenDialog(i)
       PROVE  AssessInv'
  <2>1. /\ dialog = Absent /\ dialog' = i /\ known' = rows /\ form'.of = i /\ form'.quarter \in AssessedQuarters
        /\ UNCHANGED <<rows, evidence, actions, asks, crossed, count>>
    BY <1>15 DEF OpenDialog, filled
  <2>2. RowsInv' /\ AsksInv'
    BY <2>1 DEF RowsInv, AsksInv
  <2>3. DialogInv'
    BY <1>2, <2>1 DEF DialogInv, RowsInv, samePeriod
  <2> QED
    BY <2>2, <2>3
<1>16. CASE CloseDialog
  <2>1. /\ asks["save"] = Idle /\ dialog' = Absent /\ crossed' = (crossed \/ asks["child"] # Idle)
        /\ UNCHANGED <<rows, evidence, actions, asks, known, form, count>>
    BY <1>16 DEF CloseDialog, closable
  <2>2. RowsInv' /\ AsksInv'
    BY <2>1 DEF RowsInv, AsksInv
  <2>3. DialogInv'
    BY <2>1 DEF DialogInv
  <2> QED
    BY <2>2, <2>3
<1>17. ASSUME NEW q \in AssessedQuarters \cup {Annual}, SelectPeriod(q)
       PROVE  AssessInv'
  BY <1>17 DEF SelectPeriod, filled, RowsInv, AsksInv, DialogInv
<1>18. CASE UNCHANGED assessVars
  BY <1>18 DEF assessVars, RowsInv, AsksInv, DialogInv
<1> QED
  BY <1>9, <1>10, <1>11, <1>12, <1>13, <1>14, <1>15, <1>16, <1>17, <1>18 DEF AssessNext

LEMMA AssessImplies == AssessInv => AssessTypeOK /\ CompletedIsDated /\ FormBelongsToIssuance
<1> SUFFICES ASSUME AssessInv PROVE AssessTypeOK /\ CompletedIsDated /\ FormBelongsToIssuance
  OBVIOUS
<1>1. \A k \in 1..Len(rows) : rows[k] \in AssessRow
  BY DEF AssessInv, RowsInv
<1>4. AssessTypeOK
  BY <1>1 DEF AssessInv, RowsInv, DialogInv, AssessTypeOK, AssessRow, ActionFits
<1>2. CompletedIsDated
  BY DEF AssessInv, RowsInv, CompletedIsDated, ActionFits
<1>3. FormBelongsToIssuance
  BY DEF AssessInv, DialogInv, FormBelongsToIssuance
<1> QED
  BY <1>2, <1>3, <1>4

(* Only saveAssessment adds a row, and it had looked at too few rows to    *)
(* see one of the same period.                                             *)
LEMMA AssessKeeps ==
  ASSUME AssessInv, [AssessNext]_assessVars
  PROVE  SecondRowOnlyFromRace
<1> USE DEF AssessInv
<1>1. \/ UNCHANGED rows
      \/ \E slot \in Slots : SaveWrite(slot)
  BY DEF AssessNext, assessVars, OpenDialog, CloseDialog, ChildRequest, SelectPeriod, SaveAssessment, SaveRead,
         UpdateActionWrite, Refresh, OtherRequest, AddEvidence, RemoveEvidence, AddAction, UpdateActionRead, RemoveAction
<1>2. CASE UNCHANGED rows
  BY <1>2 DEF SecondRowOnlyFromRace, RowsInv
<1>3. ASSUME NEW slot \in Slots, SaveWrite(slot)
      PROVE  SecondRowOnlyFromRace
  <2> DEFINE ask == asks[slot]
             row == [issuance |-> ask.issuance, quarter |-> ask.quarter, status |-> ask.status]
  <2>1. SaveFits(ask, rows) /\ ask.op = "save"
    BY <1>3 DEF SaveWrite, AsksInv, AskFits, Idle
  <2>2. rows' = (IF ask.row # 0 THEN [rows EXCEPT ![ask.row] = row] ELSE Append(rows, row))
        /\ asks' = served(slot, ask.issuance)
    BY <1>3 DEF SaveWrite
  <2>3. asks'[slot] # ask
    BY <2>1, <2>2 DEF served, AsksInv, Idle
  <2>4. row \in AssessRow /\ row.issuance = ask.issuance /\ row.quarter = ask.quarter
    BY <2>1 DEF SaveFits, AssessRow
  <2>5. rows \in Seq(AssessRow) /\ ask.row \in 0..Len(rows) /\ (ask.row # 0 => samePeriod(rows[ask.row], row.issuance, row.quarter))
    BY <2>1, <2>4 DEF RowsInv, SaveFits
  <2> HIDE DEF row
  <2>6. /\ Len(rows') \in Nat /\ Len(rows) \in Nat
        /\ Len(rows') = IF ask.row # 0 THEN Len(rows) ELSE Len(rows) + 1
        /\ ask.row = 0 => rows'[Len(rows) + 1] = row
    BY <2>2, <2>4, <2>5, RowStored
  <2> HIDE DEF ask
  <2>7. ASSUME NEW k \in 1..Len(rows'), k > Len(rows), NEW l \in 1..Len(rows),
               rows[l].issuance = rows'[k].issuance, rows[l].quarter = rows'[k].quarter
        PROVE  ask.looked < l
    <3>1. ask.row = 0 /\ k = Len(rows) + 1 /\ rows'[k] = row
      BY <2>6, <2>7
    <3>2. samePeriod(rows[l], ask.issuance, ask.quarter)
      BY <2>4, <2>7, <3>1 DEF samePeriod
    <3> QED
      BY <2>1, <2>6, <3>1, <3>2 DEF SaveFits
  <2> QED
    BY <2>1, <2>3, <2>7 DEF SecondRowOnlyFromRace, ask
<1> QED
  BY <1>1, <1>2, <1>3

-----------------------------------------------------------------------------
(* The KPI values and the scoring rules                                    *)
EntryRow == [value : Values, status : {"draft", "locked"}]

(* What a request is going to save; of a locked row it saves that row.     *)
KpiRequestFits(r) ==
  /\ r.code \in Codes /\ r.row \in EntryRow /\ r.saw \in EntryRow \cup {None}
  /\ r.saw # None /\ r.saw.status = "locked" => r.row = r.saw

ValueInv ==
  /\ masters \in [Codes -> MasterForms \cup {None}] /\ entries \in [Codes -> EntryRow \cup {None}]
  /\ \A c \in Codes : entries[c] # None => masters[c] # None
  /\ \A u \in Users : request[u] # None => KpiRequestFits(request[u])
  /\ request = [u \in Users |-> request[u]]

(* A rule that is in force alone, or a save of it that has yet to switch   *)
(* the others off.                                                         *)
RuleInv ==
  /\ active \subseteq created /\ pendingOff \subseteq created /\ created \subseteq Rules
  /\ requests \in 0..MaxRequests
  /\ pendingOff = {} => \E r \in Rules : active \subseteq {r}
  /\ ~rulesRaced => \/ pendingOff = {} /\ active # {}
                    \/ \E r \in Rules : pendingOff = {r} /\ r \in active

KpiInv == ValueInv /\ RuleInv

LEMMA FirstRule == Min(Rules) \in Rules
<1>1. \E first \in Rules : \A r \in Rules : first <= r
  BY KpiAssumption
<1> QED
  BY <1>1 DEF Min

LEMMA KpiStarts == KpiInit => KpiInv
<1> SUFFICES ASSUME KpiInit PROVE KpiInv
  OBVIOUS
<1>1. ValueInv
  <2>1. masters \in [Codes -> MasterForms \cup {None}] /\ entries \in [Codes -> EntryRow \cup {None}]
    BY DEF KpiInit
  <2> QED
    BY <2>1 DEF KpiInit, ValueInv
<1>2. RuleInv
  <2>1. created \subseteq Rules /\ active = created /\ active = {Min(Rules)} /\ Min(Rules) \in Rules
    BY FirstRule DEF KpiInit
  <2>2. pendingOff = {} /\ requests \in 0..MaxRequests
    BY KpiAssumption DEF KpiInit
  <2> QED
    BY <2>1, <2>2 DEF RuleInv
<1> QED
  BY <1>1, <1>2 DEF KpiInv

LEMMA KpiValueStep ==
  ASSUME KpiInv, [KpiNext]_kpiVars
  PROVE  ValueInv'
<1> USE DEF KpiInv
<1>0. \A row : row \in EntryRow => row \in EntryRow \cup {None}
  OBVIOUS
<1>1. ASSUME NEW u \in Users, NEW c \in Codes, NEW v \in Values, NEW s \in {"draft", "locked"},
             EncodeRead(u, c, v, s) \/ UpdateRowRead(u, c, v, s)
      PROVE  ValueInv'
  <2> DEFINE r == [code |-> c, saw |-> entries[c], row |-> [value |-> v, status |-> s]]
  <2>1. /\ request' = [request EXCEPT ![u] = r] /\ UNCHANGED <<masters, entries>>
        /\ entries[c] # None => entries[c].status # "locked"
    BY <1>1 DEF EncodeRead, UpdateRowRead, unlocked
  <2>2. KpiRequestFits(r)
    BY <2>1 DEF KpiRequestFits, EntryRow, ValueInv
  <2> HIDE DEF r
  <2> QED
    BY <2>1, <2>2 DEF ValueInv, KpiRequestFits
<1>2. ASSUME NEW u \in Users, NEW c \in Codes, LockRead(u, c)
      PROVE  ValueInv'
  <2> DEFINE r == [code |-> c, saw |-> entries[c], row |-> [value |-> entries[c].value, status |-> "locked"]]
  <2>1. request' = [request EXCEPT ![u] = r] /\ UNCHANGED <<masters, entries>> /\ entries[c] # None
    BY <1>2 DEF LockRead
  <2>2. entries[c] \in EntryRow
    BY <2>1 DEF ValueInv
  <2>3. entries[c].status = "locked" => [value |-> entries[c].value, status |-> "locked"] = entries[c]
    BY <2>2 DEF EntryRow
  <2>4. KpiRequestFits(r)
    BY <2>2, <2>3 DEF KpiRequestFits, EntryRow
  <2> HIDE DEF r
  <2> QED
    BY <2>1, <2>4 DEF ValueInv, KpiRequestFits
<1>3. ASSUME NEW u \in Users, SaveRow(u)
      PROVE  ValueInv'
  <2> DEFINE r == request[u]
  <2>1. KpiRequestFits(r)
    BY <1>3 DEF SaveRow, ValueInv
  <2>2. /\ entries' = (IF refused(r) THEN entries ELSE [entries EXCEPT ![r.code] = r.row])
        /\ request' = [request EXCEPT ![u] = None] /\ masters' = masters
    BY <1>3 DEF SaveRow
  <2> HIDE DEF r
  <2>3. entries' \in [Codes -> EntryRow \cup {None}]
    BY <2>1, <2>2 DEF ValueInv, KpiRequestFits
  <2>4. \A c \in Codes : entries'[c] # None => masters[c] # None
    BY <2>1, <2>2 DEF ValueInv, KpiRequestFits, refused
  <2> QED
    BY <2>2, <2>3, <2>4 DEF ValueInv, KpiRequestFits
<1>4. ASSUME NEW c \in Codes, NEW f \in MasterForms, SaveMaster(c, f)
      PROVE  ValueInv'
  BY <1>4, KpiAssumption DEF SaveMaster, ValueInv, KpiRequestFits
<1>5. ASSUME NEW c \in Codes, RemoveMaster(c)
      PROVE  ValueInv'
  BY <1>5 DEF RemoveMaster, ValueInv, KpiRequestFits
<1>6. ASSUME UNCHANGED <<masters, entries, request>>
      PROVE  ValueInv'
  BY <1>6 DEF ValueInv, KpiRequestFits
<1>7. ASSUME NEW c \in Codes, PageRequest(c)
      PROVE  ValueInv'
  BY <1>1, <1>2, <1>7, KpiAssumption DEF PageRequest
<1>8. ASSUME NEW u \in Users, NEW c \in Codes, OtherRequestOf(u, c)
      PROVE  ValueInv'
  BY <1>1, <1>2, <1>8 DEF OtherRequestOf
<1> QED
  BY <1>3, <1>4, <1>5, <1>6, <1>7, <1>8 DEF KpiNext, kpiVars, LoadMonitoring, RuleOthersOff, SaveRule

LEMMA KpiRuleStep ==
  ASSUME KpiInv, [KpiNext]_kpiVars
  PROVE  RuleInv'
<1> USE DEF KpiInv
<1>1. ASSUME NEW r \in Rules, NEW on \in BOOLEAN, SaveRule(r, on)
      PROVE  RuleInv'
  <2>1. /\ requests < MaxRequests /\ requests' = requests + 1 /\ r \notin pendingOff /\ created' = created \cup {r}
        /\ ~rulesRaced' => ~rulesRaced /\ pendingOff = {} /\ on
    BY <1>1 DEF SaveRule
  <2>2. created' \subseteq Rules /\ requests' \in 0..MaxRequests
    BY <2>1, KpiAssumption DEF RuleInv
  <2>3. CASE on
    <3>1. active' = active \cup {r} /\ pendingOff' = pendingOff \cup {r}
      BY <1>1, <2>3 DEF SaveRule
    <3>2. ~rulesRaced' => pendingOff' = {r} /\ r \in active'
      BY <2>1, <3>1
    <3> QED
      BY <2>1, <2>2, <3>1, <3>2 DEF RuleInv
  <2>4. CASE ~on
    <3>1. active' = active \ {r} /\ pendingOff' = pendingOff /\ rulesRaced'
      BY <1>1, <2>4 DEF SaveRule
    <3> QED
      BY <2>1, <2>2, <3>1 DEF RuleInv
  <2> QED
    BY <2>3, <2>4
<1>2. ASSUME NEW r \in Rules, RuleOthersOff(r)
      PROVE  RuleInv'
  BY <1>2 DEF RuleOthersOff, othersOff, RuleInv
<1>3. ASSUME UNCHANGED <<active, pendingOff, created, rulesRaced>>, requests' \in {requests, requests + 1},
             requests' # requests => requests < MaxRequests
      PROVE  RuleInv'
  BY <1>3, KpiAssumption DEF RuleInv
<1>4. ASSUME NEW u, NEW c, NEW v, NEW s, EncodeRead(u, c, v, s) \/ UpdateRowRead(u, c, v, s) \/ LockRead(u, c)
      PROVE  RuleInv'
  BY <1>3, <1>4 DEF EncodeRead, UpdateRowRead, LockRead, Begin
<1>5. ASSUME NEW c, PageRequest(c)
      PROVE  RuleInv'
  BY <1>4, <1>5 DEF PageRequest
<1>6. ASSUME NEW u, NEW c, OtherRequestOf(u, c)
      PROVE  RuleInv'
  BY <1>4, <1>6 DEF OtherRequestOf
<1>7. ASSUME NEW c, NEW f, SaveMaster(c, f) \/ RemoveMaster(c)
      PROVE  RuleInv'
  BY <1>3, <1>7 DEF SaveMaster, RemoveMaster
<1> QED
  BY <1>1, <1>2, <1>3, <1>5, <1>6, <1>7 DEF KpiNext, kpiVars, SaveRow, LoadMonitoring

LEMMA KpiImplies == KpiInv => KpiTypeOK /\ OneRuleInForce
<1> SUFFICES ASSUME KpiInv PROVE KpiTypeOK /\ OneRuleInForce
  OBVIOUS
<1>1. KpiTypeOK
  BY DEF KpiInv, ValueInv, RuleInv, KpiTypeOK, EntryRow, KpiRequestFits
<1>2. ASSUME pendingOff = {}
      PROVE  Cardinality(active) <= 1 /\ (active = {} => rulesRaced)
  <2>1. PICK r \in Rules : active = {} \/ active = {r}
    BY <1>2 DEF KpiInv, RuleInv
  <2>2. Cardinality(active) <= 1
    BY <2>1, FS_EmptySet, FS_Singleton
  <2> QED
    BY <1>2, <2>2 DEF KpiInv, RuleInv
<1> QED
  BY <1>1, <1>2 DEF OneRuleInForce

LEMMA KpiKeeps ==
  ASSUME KpiInv, [KpiNext]_kpiVars
  PROVE  LockedStays
<1> USE DEF KpiInv
<1> SUFFICES ASSUME NEW c \in Codes, entries[c] # None, entries[c].status = "locked", entries'[c] # entries[c],
                    masters'[c] # None
             PROVE  \E u \in Users : request[u] # None /\ request'[u] = None /\ request[u].code = c
                                     /\ request[u].saw # entries[c]
  BY DEF LockedStays
<1>1. \A d \in Codes : ~RemoveMaster(d)
  BY DEF RemoveMaster, ValueInv
<1>2. \E u \in Users : SaveRow(u)
  BY <1>1 DEF KpiNext, kpiVars, PageRequest, OtherRequestOf, EncodeRead, UpdateRowRead, LockRead, SaveMaster,
              LoadMonitoring, RuleOthersOff, SaveRule
<1>3. PICK u \in Users : SaveRow(u)
  BY <1>2
<1>4. request[u] # None /\ request'[u] = None /\ KpiRequestFits(request[u])
  BY <1>3 DEF SaveRow, ValueInv
<1>5. entries' = [entries EXCEPT ![request[u].code] = request[u].row]
  BY <1>3 DEF SaveRow
<1>6. request[u].code = c /\ request[u].row # entries[c]
  BY <1>4, <1>5 DEF KpiRequestFits, ValueInv
<1>7. request[u].saw # entries[c]
  BY <1>4, <1>6 DEF KpiRequestFits
<1> QED
  BY <1>4, <1>6, <1>7

-----------------------------------------------------------------------------
(* The KPI page                                                            *)
Chain == [at : {"idle", "summary", "plans", "series", "detail", "open", "rows"}, rowsDue : BOOLEAN,
          period : KpiPeriods \cup {0}, filter : KpiUnits \cup {NoUnit}, unit : KpiUnits \cup {NoUnit}]

View == [period : KpiPeriods, filter : KpiUnits \cup {NoUnit}]

ChainsTyped ==
  /\ managing \in BOOLEAN /\ ownUnit \in KpiUnits /\ view \in View
  /\ chains \in [Chains -> Chain]
  /\ \A l \in Chains :
       /\ chains[l].at = "idle" <=> chains[l] = NoChain
       /\ chains[l].at = "rows" => chains[l].rowsDue
       /\ chains[l].at = "open" => ~chains[l].rowsDue
       /\ chains[l].at \in {"detail", "open"} => chains[l].unit \in KpiUnits
  /\ panes = [summary |-> panes.summary, rows |-> panes.rows, plans |-> panes.plans, series |-> panes.series]

(* A chain of the present selection; the detail it is about to show is of  *)
(* the unit remembered, unless that has been forgotten.                    *)
Current(l) ==
  /\ chains[l].period = view.period
  /\ chains[l].at # "open" => chains[l].filter = view.filter
  /\ chains[l].at = "detail" => /\ selectedUnit \in {NoUnit, chains[l].unit}
                                /\ view.filter # NoUnit => chains[l].unit = view.filter
  /\ chains[l].at = "open" => /\ selectedUnit \in {NoUnit, chains[l].unit}
                              /\ \A k \in Chains \ {l} : chains[k] = NoChain

(* What a pane does not show yet, a chain is still going to bring.         *)
Due(stages) == \E l \in Chains : chains[l].at \in stages

DetailDue ==
  \/ selectedUnit = NoUnit
  \/ detail = [unit |-> selectedUnit, period |-> view.period]
  \/ Due({"summary", "plans", "series"})
  \/ \E l \in Chains : chains[l].at \in {"detail", "open"} /\ chains[l].unit = selectedUnit

PanesDue ==
  /\ panes.summary = view.period \/ Due({"summary"})
  /\ panes.plans = view \/ Due({"summary", "plans"})
  /\ panes.series = view.period \/ Due({"summary", "plans", "series"})
  /\ panes.rows = view \/ \E l \in Chains : chains[l].rowsDue

Undisturbed ==
  /\ \A l \in Chains : chains[l] # NoChain => Current(l)
  /\ PanesDue /\ DetailDue

UnitInv ==
  /\ selectedUnit \in KpiUnits \cup {NoUnit}
  /\ ~managing => selectedUnit \in {NoUnit, ownUnit} /\ view.filter = ownUnit

KpiPageInv == ChainsTyped /\ UnitInv /\ (~overtaken => Undisturbed)

LEMMA KpiPageStarts == KpiPageInit => KpiPageInv
<1> SUFFICES ASSUME KpiPageInit PROVE KpiPageInv
  OBVIOUS
<1>1. PICK p \in KpiPeriods, l \in Chains :
        /\ view = [period |-> p, filter |-> IF managing THEN NoUnit ELSE ownUnit]
        /\ chains = [k \in Chains |-> IF k = l THEN started(view) ELSE NoChain]
  BY DEF KpiPageInit
<1>2. managing \in BOOLEAN /\ ownUnit \in KpiUnits
  BY KpiPageAssumption DEF KpiPageInit
<1>3. view \in View /\ NoChain \in Chain /\ started(view) \in Chain
  BY <1>1, <1>2 DEF View, Chain, NoChain, started
<1>4. /\ started(view).at = "summary" /\ started(view).rowsDue /\ NoChain.at = "idle" /\ ~NoChain.rowsDue
      /\ started(view).period = view.period /\ started(view).filter = view.filter /\ started(view) # NoChain
  BY DEF started, NoChain
<1>5. ChainsTyped
  BY <1>1, <1>2, <1>3, <1>4 DEF ChainsTyped, KpiPageInit
<1>6. UnitInv
  BY <1>1 DEF UnitInv, KpiPageInit
<1>7. Undisturbed
  BY <1>1, <1>4 DEF Undisturbed, Current, PanesDue, DetailDue, Due, KpiPageInit
<1> QED
  BY <1>5, <1>6, <1>7 DEF KpiPageInv

LEMMA KpiPageImplies ==
  KpiPageInv => PanesShowTheSelection /\ DetailFollowsItsUnit /\ ClosedMeansForgotten
<1> SUFFICES ASSUME KpiPageInv
             PROVE  PanesShowTheSelection /\ DetailFollowsItsUnit /\ ClosedMeansForgotten
  OBVIOUS
<1>1. ASSUME ~Busy, ~overtaken
      PROVE  /\ panes.summary = view.period /\ panes.series = view.period /\ panes.rows = view /\ panes.plans = view
             /\ selectedUnit = NoUnit \/ detail = [unit |-> selectedUnit, period |-> view.period]
  <2>1. \A l \in Chains : chains[l].at = "idle" /\ ~chains[l].rowsDue
    BY <1>1 DEF Busy, NoChain
  <2> QED
    BY <1>1, <2>1 DEF KpiPageInv, Undisturbed, PanesDue, DetailDue, Due
<1>2. PanesShowTheSelection
  BY <1>1 DEF PanesShowTheSelection
<1>3. DetailFollowsItsUnit
  BY <1>1 DEF DetailFollowsItsUnit
<1>4. ASSUME ~Busy, ~overtaken, selectedUnit # NoUnit
      PROVE  detail # NoPane
  <2>1. detail = [unit |-> selectedUnit, period |-> view.period]
    BY <1>1, <1>4
  <2>2. detail \in [unit : KpiUnits, period : KpiPeriods]
    BY <1>4, <2>1 DEF KpiPageInv, UnitInv, ChainsTyped, View
  <2> QED
    BY <2>2, KpiPageAssumption
<1> QED
  BY <1>2, <1>3, <1>4 DEF ClosedMeansForgotten, KpiPageInv, UnitInv

(* One chain replaced by another.                                          *)
LEMMA OneChain ==
  ASSUME ChainsTyped, NEW l \in Chains, NEW c \in Chain, chains' = [chains EXCEPT ![l] = c],
         UNCHANGED <<managing, ownUnit>>, view' \in View,
         panes' = [summary |-> panes'.summary, rows |-> panes'.rows, plans |-> panes'.plans, series |-> panes'.series],
         c.at = "idle" <=> c = NoChain, c.at = "rows" => c.rowsDue, c.at = "open" => ~c.rowsDue,
         c.at \in {"detail", "open"} => c.unit \in KpiUnits
  PROVE  ChainsTyped'
BY DEF ChainsTyped

LEMMA EndTyped ==
  ASSUME NEW c \in Chain
  PROVE  /\ NoChain \in Chain /\ endOf(c) \in Chain
         /\ NoChain.at = "idle" /\ ~NoChain.rowsDue
         /\ IF c.rowsDue THEN /\ endOf(c).at = "rows" /\ endOf(c).rowsDue
                               /\ endOf(c).period = c.period /\ endOf(c).filter = c.filter
                          ELSE endOf(c) = NoChain
BY DEF Chain, endOf, NoChain

LEMMA StartTyped ==
  ASSUME NEW v \in View
  PROVE  /\ started(v) \in Chain /\ started(v).at = "summary" /\ started(v).rowsDue
         /\ started(v).period = v.period /\ started(v).filter = v.filter /\ started(v) # NoChain
BY DEF View, Chain, started, NoChain

(* A chain started for the selection while no other is under way, or while *)
(* all others are of the same selection, brings every pane.                *)
LEMMA StartServes ==
  ASSUME ChainsTyped, NEW l \in Chains, chains[l] = NoChain, view' \in View,
         chains' = [chains EXCEPT ![l] = started(view')],
         \/ ~Busy
         \/ /\ Undisturbed /\ UNCHANGED <<view, selectedUnit>>
            /\ \A k \in Chains : chains[k].at # "open"
  PROVE  Undisturbed'
<1>1. /\ chains'[l].at = "summary" /\ chains'[l].rowsDue
      /\ chains'[l].period = view'.period /\ chains'[l].filter = view'.filter
  BY StartTyped DEF ChainsTyped
<1>2. PanesDue' /\ DetailDue'
  BY <1>1 DEF PanesDue, DetailDue, Due
<1>3. ASSUME NEW k \in Chains, chains'[k] # NoChain
      PROVE  Current(k)'
  <2>1. CASE k = l
    BY <1>1, <2>1 DEF Current
  <2>2. CASE k # l
    <3>1. chains'[k] = chains[k]
      BY <2>2 DEF ChainsTyped
    <3>2. Undisturbed /\ UNCHANGED <<view, selectedUnit>> /\ chains[k].at # "open"
      BY <1>3, <3>1 DEF Busy
    <3> QED
      BY <1>3, <3>1, <3>2 DEF Undisturbed, Current
  <2> QED
    BY <2>1, <2>2
<1> QED
  BY <1>2, <1>3 DEF Undisturbed

(* An answer that moves one chain on to another stage, its selection kept. *)
LEMMA StageTyped ==
  ASSUME NEW c \in Chain, NEW s \in {"plans", "series"}
  PROVE  /\ [c EXCEPT !.at = s] \in Chain /\ [c EXCEPT !.at = s] # NoChain
         /\ [c EXCEPT !.at = s].at = s /\ [c EXCEPT !.at = s].rowsDue = c.rowsDue
         /\ [c EXCEPT !.at = s].period = c.period /\ [c EXCEPT !.at = s].filter = c.filter
         /\ [c EXCEPT !.at = s].unit = c.unit
BY DEF Chain, NoChain

LEMMA DetailTyped ==
  ASSUME NEW c \in Chain, NEW u \in KpiUnits
  PROVE  /\ [c EXCEPT !.at = "detail", !.unit = u] \in Chain
         /\ [c EXCEPT !.at = "detail", !.unit = u] # NoChain
         /\ [c EXCEPT !.at = "detail", !.unit = u].at = "detail"
         /\ [c EXCEPT !.at = "detail", !.unit = u].rowsDue = c.rowsDue
         /\ [c EXCEPT !.at = "detail", !.unit = u].period = c.period
         /\ [c EXCEPT !.at = "detail", !.unit = u].filter = c.filter
         /\ [c EXCEPT !.at = "detail", !.unit = u].unit = u
BY DEF Chain, NoChain

LEMMA OpenTyped ==
  ASSUME NEW p \in KpiPeriods, NEW u \in KpiUnits
  PROVE  LET c == [NoChain EXCEPT !.at = "open", !.period = p, !.unit = u] IN
         /\ c \in Chain /\ c # NoChain /\ c.at = "open" /\ ~c.rowsDue /\ c.period = p /\ c.unit = u
BY DEF Chain, NoChain

LEMMA KpiPageStep ==
  ASSUME KpiPageInv, [KpiPageNext]_pageVars
  PROVE  KpiPageInv'
<1> USE DEF KpiPageInv
<1>1. ASSUME NEW p \in KpiPeriods, NEW f \in KpiUnits \cup {NoUnit}, ChangeView(p, f)
      PROVE  KpiPageInv'
  <2>1. view' = [period |-> p, filter |-> f] /\ view' # view /\ overtaken' = Busy
        /\ UNCHANGED <<managing, ownUnit, panes, detail, selectedUnit>> /\ (managing \/ f = ownUnit)
    BY <1>1 DEF ChangeView
  <2>2. view' \in View
    BY <2>1 DEF View
  <2>3. PICK l \in Chains : chains[l] = NoChain /\ chains' = [chains EXCEPT ![l] = started(view')]
    BY <1>1, <2>1 DEF ChangeView, reloads
  <2>4. ChainsTyped'
    BY <2>1, <2>2, <2>3, StartTyped, OneChain DEF ChainsTyped
  <2>5. UnitInv'
    BY <2>1 DEF UnitInv
  <2> QED
    BY <2>1, <2>2, <2>3, <2>4, <2>5, StartServes
<1>2. CASE Reload
  <2>1. UNCHANGED <<managing, ownUnit, view, panes, detail, selectedUnit>>
        /\ overtaken' = (Busy /\ (overtaken \/ \E l \in Chains : chains[l].at = "open"))
    BY <1>2 DEF Reload
  <2>2. PICK l \in Chains : chains[l] = NoChain /\ chains' = [chains EXCEPT ![l] = started(view)]
    BY <1>2 DEF Reload
  <2>3. view' \in View /\ chains' = [chains EXCEPT ![l] = started(view')]
    BY <2>1, <2>2 DEF ChainsTyped
  <2>4. ChainsTyped'
    BY <2>1, <2>2, <2>3, StartTyped, OneChain DEF ChainsTyped
  <2>5. UnitInv'
    BY <2>1 DEF UnitInv
  <2> QED
    BY <2>1, <2>2, <2>3, <2>4, <2>5, StartServes
<1>3. ASSUME NEW l \in Chains, RowsAnswer(l)
      PROVE  KpiPageInv'
  <2> DEFINE c == chains[l]
             d == IF c.at = "rows" THEN NoChain ELSE [c EXCEPT !.rowsDue = FALSE]
  <2>1. /\ c.rowsDue /\ panes' = [panes EXCEPT !.rows = [period |-> c.period, filter |-> c.filter]]
        /\ chains' = [chains EXCEPT ![l] = d]
        /\ UNCHANGED <<managing, ownUnit, view, detail, selectedUnit, overtaken>>
    BY <1>3 DEF RowsAnswer
  <2>2. c \in Chain /\ c.at # "open" /\ c.at # "idle"
    BY <2>1 DEF ChainsTyped, NoChain
  <2>3. /\ d \in Chain /\ ~d.rowsDue /\ d.unit \in {c.unit, NoUnit}
        /\ IF c.at = "rows" THEN d = NoChain /\ d.at = "idle"
           ELSE d # NoChain /\ d.at = c.at /\ d.period = c.period /\ d.filter = c.filter /\ d.unit = c.unit
    BY <2>2 DEF Chain, NoChain
  <2>4. panes' = [summary |-> panes.summary, rows |-> [period |-> c.period, filter |-> c.filter],
                  plans |-> panes.plans, series |-> panes.series]
    BY <2>1 DEF ChainsTyped
  <2> HIDE DEF d
  <2>5. ChainsTyped'
    <3>1. c.at \in {"detail", "open"} => c.unit \in KpiUnits
      BY DEF ChainsTyped
    <3> HIDE DEF c
    <3> QED
      BY <2>1, <2>2, <2>3, <2>4, <3>1, OneChain DEF ChainsTyped
  <2>6. UnitInv'
    BY <2>1 DEF UnitInv
  <2>7. ASSUME ~overtaken
        PROVE  Undisturbed'
    <3>1. c.period = view.period /\ c.filter = view.filter /\ Current(l)
      BY <2>2, <2>7 DEF Undisturbed, Current, NoChain
    <3>2. [period |-> c.period, filter |-> c.filter] = view
      BY <3>1 DEF ChainsTyped, View
    <3>3. \A k \in Chains : chains'[k] = IF k = l THEN d ELSE chains[k]
      BY <2>1 DEF ChainsTyped
    <3>4. PanesDue'
      BY <2>1, <2>3, <2>4, <2>7, <3>2, <3>3 DEF Undisturbed, PanesDue, Due
    <3>5. DetailDue'
      BY <2>1, <2>3, <2>7, <3>3 DEF Undisturbed, DetailDue, Due
    <3>6. ASSUME NEW k \in Chains, chains'[k] # NoChain
          PROVE  Current(k)'
      <4>1. CASE k = l
        <5>1. chains'[k] = d /\ d.at # "open" /\ d.at = c.at /\ d.period = c.period /\ d.filter = c.filter /\ d.unit = c.unit
          <6>1. chains'[k] = d /\ d # NoChain
            BY <3>3, <3>6, <4>1
          <6> QED
            BY <2>2, <2>3, <6>1
        <5> QED
          BY <2>1, <3>1, <4>1, <5>1 DEF Current
      <4>2. CASE k # l
        <5>1. chains'[k] = chains[k] /\ Current(k) /\ chains[l] # NoChain
          <6>1. chains[l] # NoChain
            BY <2>2 DEF NoChain
          <6>2. chains'[k] = chains[k] /\ chains[k] # NoChain
            BY <3>3, <3>6, <4>2
          <6> QED
            BY <2>7, <6>1, <6>2 DEF Undisturbed
        <5>2. chains[k].at # "open"
          BY <4>2, <5>1 DEF Current
        <5> QED
          BY <2>1, <5>1, <5>2 DEF Current
      <4> QED
        BY <4>1, <4>2
    <3> QED
      BY <3>4, <3>5, <3>6 DEF Undisturbed
  <2> QED
    BY <2>1, <2>5, <2>6, <2>7
<1>4. ASSUME NEW l \in Chains, SummaryAnswers(l)
      PROVE  KpiPageInv'
  <2> DEFINE c == chains[l]
             d == [c EXCEPT !.at = "plans"]
  <2>1. /\ c.at = "summary" /\ panes' = [panes EXCEPT !.summary = c.period]
        /\ chains' = [chains EXCEPT ![l] = d]
        /\ UNCHANGED <<managing, ownUnit, view, detail, selectedUnit, overtaken>>
    BY <1>4 DEF SummaryAnswers, ChainsTyped
  <2>2. c \in Chain /\ c # NoChain
    BY <2>1 DEF ChainsTyped, NoChain
  <2>3. /\ d \in Chain /\ d # NoChain /\ d.at = "plans" /\ d.rowsDue = c.rowsDue
        /\ d.period = c.period /\ d.filter = c.filter
    BY <2>2, StageTyped
  <2>4. panes' = [summary |-> c.period, rows |-> panes.rows, plans |-> panes.plans, series |-> panes.series]
    BY <2>1 DEF ChainsTyped
  <2> HIDE DEF d
  <2>5. ChainsTyped'
    BY <2>1, <2>3, <2>4, OneChain DEF ChainsTyped
  <2>6. UnitInv'
    BY <2>1 DEF UnitInv
  <2>7. ASSUME ~overtaken
        PROVE  Undisturbed'
    <3>1. c.period = view.period /\ c.filter = view.filter
      BY <2>1, <2>2, <2>7 DEF Undisturbed, Current
    <3>2. [period |-> c.period, filter |-> c.filter] = view
      BY <3>1 DEF ChainsTyped, View
    <3>3. \A k \in Chains : chains'[k] = IF k = l THEN d ELSE chains[k]
      BY <2>1 DEF ChainsTyped
    <3>4. PanesDue'
      BY <2>1, <2>3, <2>4, <2>7, <3>1, <3>2, <3>3 DEF Undisturbed, PanesDue, Due
    <3>5. DetailDue'
      BY <2>1, <2>3, <2>7, <3>3 DEF Undisturbed, DetailDue, Due
    <3>6. \A k \in Chains : chains'[k] # NoChain => Current(k)'
      BY <2>1, <2>2, <2>3, <2>7, <3>1, <3>3 DEF Undisturbed, Current
    <3> QED
      BY <3>4, <3>5, <3>6 DEF Undisturbed
  <2> QED
    BY <2>1, <2>5, <2>6, <2>7
<1>5. ASSUME NEW l \in Chains, PlansAnswer(l)
      PROVE  KpiPageInv'
  <2> DEFINE c == chains[l]
             d == [c EXCEPT !.at = "series"]
  <2>1. /\ c.at = "plans" /\ panes' = [panes EXCEPT !.plans = [period |-> c.period, filter |-> c.filter]]
        /\ chains' = [chains EXCEPT ![l] = d]
        /\ UNCHANGED <<managing, ownUnit, view, detail, selectedUnit, overtaken>>
    BY <1>5 DEF PlansAnswer, ChainsTyped
  <2>2. c \in Chain /\ c # NoChain
    BY <2>1 DEF ChainsTyped, NoChain
  <2>3. /\ d \in Chain /\ d # NoChain /\ d.at = "series" /\ d.rowsDue = c.rowsDue
        /\ d.period = c.period /\ d.filter = c.filter
    BY <2>2, StageTyped
  <2>4. panes' = [summary |-> panes.summary, rows |-> panes.rows, plans |-> [period |-> c.period, filter |-> c.filter],
                  series |-> panes.series]
    BY <2>1 DEF ChainsTyped
  <2> HIDE DEF d
  <2>5. ChainsTyped'
    BY <2>1, <2>3, <2>4, OneChain DEF ChainsTyped
  <2>6. UnitInv'
    BY <2>1 DEF UnitInv
  <2>7. ASSUME ~overtaken
        PROVE  Undisturbed'
    <3>1. c.period = view.period /\ c.filter = view.filter
      BY <2>1, <2>2, <2>7 DEF Undisturbed, Current
    <3>2. [period |-> c.period, filter |-> c.filter] = view
      BY <3>1 DEF ChainsTyped, View
    <3>3. \A k \in Chains : chains'[k] = IF k = l THEN d ELSE chains[k]
      BY <2>1 DEF ChainsTyped
    <3>4. PanesDue'
      BY <2>1, <2>3, <2>4, <2>7, <3>1, <3>2, <3>3 DEF Undisturbed, PanesDue, Due
    <3>5. DetailDue'
      BY <2>1, <2>3, <2>7, <3>3 DEF Undisturbed, DetailDue, Due
    <3>6. \A k \in Chains : chains'[k] # NoChain => Current(k)'
      BY <2>1, <2>2, <2>3, <2>7, <3>1, <3>3 DEF Undisturbed, Current
    <3> QED
      BY <3>4, <3>5, <3>6 DEF Undisturbed
  <2> QED
    BY <2>1, <2>5, <2>6, <2>7
<1>6. ASSUME NEW l \in Chains, SeriesAnswer(l)
      PROVE  KpiPageInv'
  <2> DEFINE c == chains[l]
             unit == detailUnit(c)
             closes == hasDataFor(panes.series) /\ ~hasDataFor(c.period)
             d == IF unit = NoUnit THEN endOf(c) ELSE [c EXCEPT !.at = "detail", !.unit = unit]
  <2>1. /\ c.at = "series" /\ panes' = [panes EXCEPT !.series = c.period]
        /\ chains' = [chains EXCEPT ![l] = d]
        /\ selectedUnit' = IF closes THEN NoUnit ELSE IF managing /\ c.filter # NoUnit THEN c.filter ELSE selectedUnit
        /\ detail' = IF closes THEN NoPane ELSE detail
        /\ UNCHANGED <<managing, ownUnit, view, overtaken>>
    BY <1>6 DEF SeriesAnswer
  <2>2. c \in Chain /\ c # NoChain
    BY <2>1 DEF ChainsTyped, NoChain
  <2>3. unit \in KpiUnits \cup {NoUnit} /\ c.filter \in KpiUnits \cup {NoUnit} /\ NoUnit \notin KpiUnits
    BY <2>2, KpiPageAssumption DEF detailUnit, ChainsTyped, Chain, UnitInv
  <2>4. panes' = [summary |-> panes.summary, rows |-> panes.rows, plans |-> panes.plans, series |-> c.period]
    BY <2>1 DEF ChainsTyped
  <2>5. /\ d \in Chain /\ (d.at = "idle" <=> d = NoChain)
        /\ IF unit = NoUnit
           THEN IF c.rowsDue THEN d.at = "rows" /\ d.rowsDue /\ d.period = c.period /\ d.filter = c.filter
                             ELSE d = NoChain
           ELSE /\ d.at = "detail" /\ d.rowsDue = c.rowsDue /\ d.period = c.period /\ d.filter = c.filter
                /\ d.unit = unit
    <3>1. CASE unit = NoUnit
      BY <2>2, <3>1, EndTyped
    <3>2. CASE unit # NoUnit
      <4>1. d = [c EXCEPT !.at = "detail", !.unit = unit] /\ unit \in KpiUnits
        BY <2>3, <3>2
      <4> HIDE DEF d, unit
      <4>2. /\ d \in Chain /\ d # NoChain /\ d.at = "detail" /\ d.rowsDue = c.rowsDue /\ d.period = c.period
            /\ d.filter = c.filter /\ d.unit = unit
        BY <2>2, <4>1, DetailTyped
      <4> QED
        BY <3>2, <4>2
    <3> QED
      BY <3>1, <3>2
  <2>6. NoChain.at = "idle" /\ ~NoChain.rowsDue
    BY DEF NoChain
  <2>7. /\ unit = NoUnit => managing /\ c.filter = NoUnit /\ selectedUnit = NoUnit
        /\ unit # NoUnit => /\ ~managing => unit = ownUnit
                            /\ managing /\ c.filter # NoUnit => unit = c.filter
                            /\ managing /\ c.filter = NoUnit => unit = selectedUnit
    BY KpiPageAssumption DEF detailUnit, ChainsTyped
  <2> HIDE DEF d, unit, closes
  <2>8. ChainsTyped'
    BY <2>1, <2>3, <2>4, <2>5, <2>6, OneChain DEF ChainsTyped
  <2>9. UnitInv'
    BY <2>1, <2>3 DEF UnitInv
  <2>10. ASSUME ~overtaken
        PROVE  Undisturbed'
    <3>1. c.period = view.period /\ c.filter = view.filter
      BY <2>1, <2>2, <2>10 DEF Undisturbed, Current
    <3>2. \A k \in Chains : chains'[k] = IF k = l THEN d ELSE chains[k]
      BY <2>1 DEF ChainsTyped
    <3>3. PanesDue'
      BY <2>1, <2>4, <2>5, <2>10, <3>1, <3>2 DEF Undisturbed, PanesDue, Due
    <3>4. selectedUnit' = NoUnit \/ (unit # NoUnit /\ selectedUnit' = unit)
      BY <2>1, <2>7 DEF UnitInv
    <3>5. DetailDue'
      BY <2>5, <3>2, <3>4 DEF DetailDue
    <3>6. ASSUME NEW k \in Chains, chains'[k] # NoChain
          PROVE  Current(k)'
      <4>1. CASE k = l
        <5>1. unit # NoUnit /\ view.filter # NoUnit => unit = view.filter
          BY <2>7, <3>1 DEF UnitInv
        <5> QED
          BY <1>6, <2>1, <2>5, <3>1, <3>2, <3>4, <3>6, <4>1, <5>1 DEF Current
      <4>2. CASE k # l
        <5>1. chains'[k] = chains[k] /\ Current(k) /\ chains[k].at # "open"
          BY <2>2, <2>10, <3>2, <3>6, <4>2 DEF Undisturbed, Current
        <5>2. selectedUnit' \in {NoUnit, selectedUnit} \/ (view.filter # NoUnit /\ selectedUnit' = view.filter)
          BY <2>1, <3>1
        <5> QED
          BY <2>1, <5>1, <5>2 DEF Current
      <4> QED
        BY <4>1, <4>2
    <3> QED
      BY <3>3, <3>5, <3>6 DEF Undisturbed
  <2> QED
    BY <2>1, <2>8, <2>9, <2>10
<1>7. ASSUME NEW l \in Chains, DetailAnswers(l)
      PROVE  KpiPageInv'
  <2> DEFINE c == chains[l]
             d == endOf(c)
  <2>1. /\ c.at = "detail" /\ detail' = [unit |-> c.unit, period |-> c.period]
        /\ selectedUnit' = IF managing THEN selectedUnit ELSE ownUnit
        /\ chains' = [chains EXCEPT ![l] = d]
        /\ UNCHANGED <<managing, ownUnit, view, panes, overtaken>>
    BY <1>7 DEF DetailAnswers
  <2>2. c \in Chain /\ c # NoChain
    BY <2>1 DEF ChainsTyped, NoChain
  <2>3. /\ d \in Chain /\ NoChain.at = "idle" /\ ~NoChain.rowsDue
        /\ IF c.rowsDue THEN d.at = "rows" /\ d.rowsDue /\ d.period = c.period /\ d.filter = c.filter ELSE d = NoChain
    BY <2>2, EndTyped
  <2> HIDE DEF d
  <2>4. ChainsTyped'
    BY <2>1, <2>3, OneChain DEF ChainsTyped
  <2>5. UnitInv'
    BY <2>1 DEF UnitInv, ChainsTyped
  <2>6. ASSUME ~overtaken
        PROVE  Undisturbed'
    <3>1. /\ c.period = view.period /\ c.filter = view.filter /\ selectedUnit \in {NoUnit, c.unit}
          /\ view.filter # NoUnit => c.unit = view.filter
      BY <2>1, <2>2, <2>6 DEF Undisturbed, Current
    <3>2. \A k \in Chains : chains'[k] = IF k = l THEN d ELSE chains[k]
      BY <2>1 DEF ChainsTyped
    <3>3. PanesDue'
      BY <2>1, <2>3, <2>6, <3>2 DEF Undisturbed, PanesDue, Due
    <3>4. ~managing => view.filter = ownUnit /\ ownUnit # NoUnit
      BY KpiPageAssumption DEF UnitInv, ChainsTyped
    <3>5. DetailDue'
      BY <2>1, <3>1, <3>4 DEF DetailDue
    <3>6. ASSUME NEW k \in Chains, chains'[k] # NoChain
          PROVE  Current(k)'
      <4>1. CASE k = l
        BY <2>1, <2>3, <3>1, <3>2, <3>6, <4>1 DEF Current
      <4>2. CASE k # l
        <5>1. chains'[k] = chains[k] /\ Current(k) /\ chains[k].at # "open"
          BY <2>2, <2>6, <3>2, <3>6, <4>2 DEF Undisturbed, Current
        <5> QED
          BY <2>1, <3>4, <5>1 DEF Current
      <4> QED
        BY <4>1, <4>2
    <3> QED
      BY <3>3, <3>5, <3>6 DEF Undisturbed
  <2> QED
    BY <2>1, <2>4, <2>5, <2>6
<1>8. ASSUME NEW l \in Chains, ChainFails(l)
      PROVE  KpiPageInv'
  <2> DEFINE d == endOf(chains[l])
  <2>1. /\ chains' = [chains EXCEPT ![l] = d] /\ overtaken'
        /\ UNCHANGED <<managing, ownUnit, view, panes, selectedUnit>>
    BY <1>8 DEF ChainFails
  <2>2. /\ d \in Chain /\ NoChain.at = "idle" /\ ~NoChain.rowsDue
        /\ (d.at = "rows" /\ d.rowsDue) \/ d = NoChain
    BY EndTyped DEF ChainsTyped
  <2> HIDE DEF d
  <2>3. ChainsTyped'
    BY <2>1, <2>2, OneChain DEF ChainsTyped
  <2>4. UnitInv'
    BY <2>1 DEF UnitInv
  <2> QED
    BY <2>1, <2>3, <2>4
<1>9. ASSUME NEW u \in KpiUnits, OpenUnit(u)
      PROVE  KpiPageInv'
  <2> DEFINE d == [NoChain EXCEPT !.at = "open", !.period = view.period, !.unit = u]
  <2>1. /\ u \in availableUnits /\ selectedUnit' = u /\ overtaken' = (overtaken \/ Busy)
        /\ UNCHANGED <<managing, ownUnit, view, panes, detail>>
    BY <1>9 DEF OpenUnit
  <2>2. PICK l \in Chains : chains[l] = NoChain /\ chains' = [chains EXCEPT ![l] = d]
    BY <1>9 DEF OpenUnit
  <2>3. view.period \in KpiPeriods
    BY DEF ChainsTyped, View
  <2>4. d \in Chain /\ d # NoChain /\ d.at = "open" /\ ~d.rowsDue /\ d.period = view.period /\ d.unit = u
    BY <2>3, OpenTyped
  <2> HIDE DEF d
  <2>5. ChainsTyped'
    BY <2>1, <2>2, <2>4, OneChain DEF ChainsTyped
  <2>6. UnitInv'
    BY <2>1 DEF UnitInv, availableUnits
  <2>7. ASSUME ~overtaken, ~Busy
        PROVE  Undisturbed'
    <3>1. \A k \in Chains : chains[k] = NoChain /\ chains[k].at = "idle" /\ ~chains[k].rowsDue
      <4>1. NoChain.at = "idle" /\ ~NoChain.rowsDue
        BY DEF NoChain
      <4>2. \A k \in Chains : chains[k] = NoChain
        BY <2>7 DEF Busy
      <4> QED
        BY <4>1, <4>2
    <3>2. \A k \in Chains : chains'[k] = IF k = l THEN d ELSE NoChain
      BY <2>2, <3>1 DEF ChainsTyped
    <3>3. PanesDue'
      BY <2>1, <2>7, <3>1 DEF Undisturbed, PanesDue, Due
    <3>4. DetailDue'
      BY <2>1, <2>4, <3>2 DEF DetailDue
    <3>5. \A k \in Chains : chains'[k] # NoChain => Current(k)'
      BY <2>1, <2>4, <3>2 DEF Current
    <3> QED
      BY <3>3, <3>4, <3>5 DEF Undisturbed
  <2> QED
    BY <2>1, <2>5, <2>6, <2>7
<1>10. ASSUME NEW l \in Chains, OpenAnswers(l)
      PROVE  KpiPageInv'
  <2> DEFINE c == chains[l]
  <2>1. /\ c.at = "open" /\ detail' = [unit |-> c.unit, period |-> c.period]
        /\ chains' = [chains EXCEPT ![l] = NoChain]
        /\ UNCHANGED <<managing, ownUnit, view, panes, selectedUnit, overtaken>>
    BY <1>10 DEF OpenAnswers
  <2>2. c \in Chain /\ c # NoChain /\ ~c.rowsDue
    BY <2>1 DEF ChainsTyped, NoChain
  <2>3. NoChain \in Chain /\ NoChain.at = "idle" /\ ~NoChain.rowsDue
    BY <2>2, EndTyped
  <2>4. ChainsTyped'
    BY <2>1, <2>3, OneChain DEF ChainsTyped
  <2>5. UnitInv'
    BY <2>1 DEF UnitInv
  <2>6. ASSUME ~overtaken
        PROVE  Undisturbed'
    <3>1. c.period = view.period /\ selectedUnit \in {NoUnit, c.unit} /\ \A k \in Chains \ {l} : chains[k] = NoChain
      BY <2>1, <2>2, <2>6 DEF Undisturbed, Current
    <3>2. \A k \in Chains : chains'[k] = NoChain
      BY <2>1, <3>1 DEF ChainsTyped
    <3>3. \A k \in Chains : chains[k].at \in {"open", "idle"} /\ ~chains[k].rowsDue
      BY <2>1, <2>2, <2>3, <3>1
    <3>4. PanesDue'
      BY <2>1, <2>6, <3>3 DEF Undisturbed, PanesDue, Due
    <3>5. DetailDue'
      BY <2>1, <3>1 DEF DetailDue
    <3> QED
      BY <3>2, <3>4, <3>5 DEF Undisturbed
  <2> QED
    BY <2>1, <2>4, <2>5, <2>6
<1>11. CASE CloseUnitDetail
  <2>1. /\ selectedUnit' = NoUnit /\ overtaken' = (overtaken \/ Busy)
        /\ UNCHANGED <<managing, ownUnit, view, chains, panes>>
    BY <1>11 DEF CloseUnitDetail, unitAfterClose
  <2>2. ChainsTyped' /\ UnitInv'
    BY <2>1 DEF ChainsTyped, UnitInv
  <2>3. ASSUME ~overtaken, ~Busy
        PROVE  Undisturbed'
    BY <2>1, <2>3 DEF Undisturbed, PanesDue, DetailDue, Due, Busy
  <2> QED
    BY <2>1, <2>2, <2>3
<1>12. CASE UNCHANGED pageVars
  BY <1>12 DEF pageVars, ChainsTyped, UnitInv, Undisturbed, Current, PanesDue, DetailDue, Due
<1> QED
  BY <1>1, <1>2, <1>3, <1>4, <1>5, <1>6, <1>7, <1>8, <1>9, <1>10, <1>11, <1>12 DEF KpiPageNext

-----------------------------------------------------------------------------
(* What the reports make of the assessments                                *)

(* The last of a set of positions.                                         *)
LEMMA LastPosition ==
  ASSUME NEW n \in Nat, NEW found, found \subseteq 1..n, found # {}
  PROVE  (CHOOSE k \in found : \A l \in found : l <= k) \in found
<1> DEFINE behind == {n - k : k \in found}
           nearest == CHOOSE k \in behind : \A l \in behind : k <= l
<1>1. behind \subseteq Nat /\ behind # {}
  <2>1. \A k \in found : k \in 1..n /\ n - k \in Nat
    OBVIOUS
  <2> QED
    BY <2>1
<1>2. nearest \in behind /\ \A l \in behind : nearest <= l
  BY <1>1, FirstPosition
<1> HIDE DEF nearest
<1>3. PICK k \in found : nearest = n - k
  BY <1>2
<1>4. ASSUME NEW l \in found
      PROVE  l <= k
  <2>1. n - l \in behind /\ l \in Nat /\ k \in Nat
    OBVIOUS
  <2>2. n - k <= n - l
    BY <1>2, <1>3, <2>1
  <2> QED
    BY <2>1, <2>2
<1> HIDE DEF behind
<1>5. \E m \in found : \A l \in found : l <= m
  BY <1>4
<1> QED
  BY <1>5

LEMMA RowsTyped ==
  ASSUME RowsInv
  PROVE  /\ Len(rows) \in Nat
         /\ \A i : \A k \in RowsOf(i) : k \in 1..Len(rows) /\ rows[k].quarter \in Nat
         /\ AssessedQuarters \subseteq Nat \ {0} /\ Annual \notin AssessedQuarters
<1>1. AssessedQuarters \subseteq Nat \ {0} /\ Annual \notin AssessedQuarters /\ Annual \in Nat
  BY AssessmentAssumption DEF Annual
<1>2. ASSUME NEW k \in 1..Len(rows)
      PROVE  rows[k].quarter \in Nat
  <2>1. rows[k] \in AssessRow
    BY DEF RowsInv
  <2> QED
    BY <1>1, <2>1 DEF AssessRow
<1> QED
  BY <1>1, <1>2 DEF RowsInv, RowsOf

(* The row the register shows: the first one of the quarter, else of the   *)
(* year.                                                                   *)
LEMMA RegisterShows ==
  ASSUME RowsInv, NEW i, NEW q \in AssessedQuarters, periodAssessments(i, q) # {}
  PROVE  /\ registerRow(i, q) \in periodAssessments(i, q)
         /\ \A l \in periodAssessments(i, q) \ {registerRow(i, q)} : comesBefore(registerRow(i, q), l)
<1> DEFINE found == periodAssessments(i, q)
           own == {k \in found : rows[k].quarter = q}
           pool == IF own # {} THEN own ELSE found
           first == CHOOSE k \in pool : \A l \in pool : k <= l
<1>1. /\ \A k \in found : k \in Nat /\ rows[k].quarter \in {q, Annual}
      /\ q \in Nat /\ Annual < q /\ Annual = 0
  BY RowsTyped DEF periodAssessments, Annual
<1>2. first \in pool /\ \A l \in pool : first <= l
  <2>1. pool \subseteq Nat /\ pool # {}
    BY <1>1
  <2> QED
    BY <2>1, FirstPosition
<1>3. first \in found /\ \A l \in found \ {first} : comesBefore(first, l)
  <2> HIDE DEF found, first
  <2>1. first \in found
    BY <1>2
  <2>2. ASSUME NEW l \in found, l # first
        PROVE  comesBefore(first, l)
    BY <1>1, <1>2, <2>1, <2>2 DEF comesBefore
  <2> QED
    BY <2>1, <2>2
<1> HIDE DEF first
<1>4. registerRow(i, q) = CHOOSE k \in found : \A l \in found \ {k} : comesBefore(k, l)
  BY DEF registerRow
<1> HIDE DEF found
<1> QED
  BY <1>3, <1>4 DEF found

LEMMA RegisterEmpty ==
  ASSUME NEW i, NEW q, periodAssessments(i, q) = {}
  PROVE  registerRow(i, q) = 0
BY DEF registerRow

(* A cell of the matrix shows a row of its quarter.                        *)
LEMMA MatrixShows ==
  ASSUME RowsInv, NEW i, NEW q, NEW c, matrixRow(i, q, c) # 0
  PROVE  ~(c > q) /\ matrixRow(i, q, c) \in RowsOf(i) /\ rows[matrixRow(i, q, c)].quarter = c
<1> DEFINE found == {k \in RowsOf(i) : rows[k].quarter = c}
           last == CHOOSE k \in found : \A l \in found : l <= k
<1>1. ~(c > q) /\ found # {} /\ matrixRow(i, q, c) = last
  BY DEF matrixRow
<1>2. Len(rows) \in Nat /\ found \subseteq 1..Len(rows)
  BY RowsTyped
<1>3. last \in found
  BY <1>1, <1>2, LastPosition
<1> QED
  BY <1>1, <1>3

LEMMA RegisterAgrees ==
  ASSUME RowsInv
  PROVE  RegisterAgreesWithMatrix
<1> SUFFICES ASSUME NEW i \in Issuances, NEW q \in AssessedQuarters
             PROVE  LET own == {k \in RowsOf(i) : rows[k].quarter = q} IN
    /\ Cardinality(own) = 1 => \A p \in AssessedQuarters : p >= q => matrixStatus(i, p, q) = registerStatus(i, q)
    /\ own = {} => matrixStatus(i, q, q) = "not_assessed" /\ registerRow(i, q) \in {k \in RowsOf(i) : rows[k].quarter = Annual} \cup {0}
  BY DEF RegisterAgreesWithMatrix
<1> DEFINE own == {k \in RowsOf(i) : rows[k].quarter = q}
<1>0. /\ q \in Nat /\ 0 < q /\ Len(rows) \in Nat /\ own \subseteq 1..Len(rows)
      /\ AssessedQuarters \subseteq Nat /\ Annual = 0
  BY RowsTyped DEF Annual
<1>1. ASSUME Cardinality(own) = 1, NEW p \in AssessedQuarters, p >= q
      PROVE  matrixStatus(i, p, q) = registerStatus(i, q)
  <2>1. IsFiniteSet(own)
    <3>1. IsFiniteSet(1..Len(rows))
      BY <1>0, FS_Interval
    <3> QED
      BY <1>0, <3>1, FS_Subset
  <2>2. PICK k : own = {k}
    BY <1>1, <2>1, FS_Singleton
  <2>3. k \in RowsOf(i) /\ rows[k].quarter = q /\ k # 0 /\ k \in periodAssessments(i, q)
    BY <1>0, <2>2 DEF periodAssessments
  <2>4. registerRow(i, q) = k
    <3>1. /\ registerRow(i, q) \in periodAssessments(i, q)
          /\ \A l \in periodAssessments(i, q) \ {registerRow(i, q)} : comesBefore(registerRow(i, q), l)
      BY <2>3, RegisterShows
    <3>2. ASSUME registerRow(i, q) # k
          PROVE  FALSE
      <4>1. rows[registerRow(i, q)].quarter = Annual
        BY <2>2, <3>1, <3>2 DEF periodAssessments
      <4>2. comesBefore(registerRow(i, q), k)
        BY <2>3, <3>1, <3>2
      <4> QED
        BY <1>0, <2>3, <4>1, <4>2 DEF comesBefore
    <3> QED
      BY <3>2
  <2>5. matrixRow(i, p, q) = k
    <3>1. ~(q > p) /\ own # {}
      BY <1>0, <1>1, <2>2
    <3>2. matrixRow(i, p, q) = CHOOSE m \in own : \A l \in own : l <= m
      BY <3>1 DEF matrixRow
    <3>3. (CHOOSE m \in own : \A l \in own : l <= m) \in own
      BY <1>0, <3>1, LastPosition
    <3> QED
      BY <2>2, <3>2, <3>3
  <2>6. ~(q > p)
    BY <1>0, <1>1
  <2> QED
    BY <2>3, <2>4, <2>5, <2>6 DEF matrixStatus, registerStatus
<1>2. ASSUME own = {}
      PROVE  /\ matrixStatus(i, q, q) = "not_assessed"
             /\ registerRow(i, q) \in {k \in RowsOf(i) : rows[k].quarter = Annual} \cup {0}
  <2>1. matrixRow(i, q, q) = 0
    BY <1>2 DEF matrixRow
  <2>2. ~(q > q)
    BY <1>0
  <2>3. matrixStatus(i, q, q) = "not_assessed"
    BY <2>1, <2>2 DEF matrixStatus
  <2>4. CASE periodAssessments(i, q) = {}
    BY <2>3, <2>4, RegisterEmpty
  <2>5. CASE periodAssessments(i, q) # {}
    <3>1. registerRow(i, q) \in periodAssessments(i, q)
      BY <2>5, RegisterShows
    <3> QED
      BY <1>2, <2>3, <3>1 DEF periodAssessments
  <2> QED
    BY <2>4, <2>5
<1> QED
  BY <1>1, <1>2

LEMMA SourcesCover ==
  ASSUME RowsInv
  PROVE  SourcesCoverWhatIsShown
<1> SUFFICES ASSUME NEW i \in Issuances, NEW q \in AssessedQuarters
             PROVE  /\ \A c \in AssessedQuarters : matrixRow(i, q, c) \in matrixSources(i, q) \cup {0}
                    /\ LET k == registerRow(i, q) IN
                         k # 0 => /\ k \in matrixSources(i, q)
                                  /\ {e \in EvidenceIds : evidence[e] = k} \subseteq reportedEvidence(i, q)
                                  /\ (openActions(i, q) = {} =>
                                        \A a \in ActionIds : actions[a] # Absent /\ actions[a].row = k => actions[a].dated)
  BY DEF SourcesCoverWhatIsShown
<1>0. q \in Nat /\ 0 < q /\ AssessedQuarters \subseteq Nat /\ Annual = 0
  BY RowsTyped DEF Annual
<1>1. ASSUME NEW c \in AssessedQuarters, matrixRow(i, q, c) # 0
      PROVE  matrixRow(i, q, c) \in matrixSources(i, q)
  <2>1. ~(c > q) /\ matrixRow(i, q, c) \in RowsOf(i) /\ rows[matrixRow(i, q, c)].quarter = c
    BY <1>1, MatrixShows
  <2>2. c <= q
    BY <1>0, <2>1
  <2> QED
    BY <2>1, <2>2 DEF matrixSources
<1> DEFINE k == registerRow(i, q)
<1>2. ASSUME k # 0
      PROVE  /\ k \in matrixSources(i, q)
             /\ {e \in EvidenceIds : evidence[e] = k} \subseteq reportedEvidence(i, q)
             /\ (openActions(i, q) = {} =>
                   \A a \in ActionIds : actions[a] # Absent /\ actions[a].row = k => actions[a].dated)
  <2>1. k \in periodAssessments(i, q)
    BY <1>2, RegisterEmpty, RegisterShows
  <2> HIDE DEF k
  <2>2. k \in matrixSources(i, q)
    BY <1>0, <2>1 DEF periodAssessments, matrixSources
  <2>3. {e \in EvidenceIds : evidence[e] = k} \subseteq reportedEvidence(i, q)
    BY <2>1 DEF reportedEvidence
  <2>4. ASSUME openActions(i, q) = {}, NEW a \in ActionIds, actions[a] # Absent, actions[a].row = k
        PROVE  actions[a].dated
    <3>1. actions[a].status # "open"
      BY <2>1, <2>4 DEF openActions
    <3>2. actions[a] \in ActionRow /\ (actions[a].dated <=> actions[a].status = "completed")
      BY <2>4 DEF RowsInv, ActionFits
    <3> QED
      BY <3>1, <3>2 DEF ActionRow, ActionStatuses
  <2> QED
    BY <2>2, <2>3, <2>4
<1> QED
  BY <1>1, <1>2

-----------------------------------------------------------------------------
(* What the dashboards make of the KPI values.  A score is a fraction; the *)
(* sums are folds over the rows, so the proof builds the functions the     *)
(* folds are defined by and follows both along the same picks.             *)

(* A score is a fraction.                                                  *)
Fractions == [n : Nat, d : Nat \ {0}]

(* The integer part of a quotient.                                         *)
LEMMA Quotient ==
  ASSUME NEW a \in Nat, NEW b \in Nat \ {0}
  PROVE  a \div b \in Nat /\ b * (a \div b) <= a /\ a < b * (a \div b) + b
OBVIOUS

LEMMA Rounding ==
  ASSUME NEW a \in Fractions
  PROVE  /\ hundredths(a) \in Nat
         /\ 2 * (a.d * hundredths(a)) <= 200 * a.n + a.d
         /\ 200 * a.n + a.d < 2 * (a.d * hundredths(a)) + 2 * a.d
<1>1. a.n \in Nat /\ a.d \in Nat \ {0}
  BY DEF Fractions
<1>2. 200 * a.n + a.d \in Nat /\ 2 * a.d \in Nat \ {0}
  BY <1>1
<1> DEFINE h == (200 * a.n + a.d) \div (2 * a.d)
<1>3. h \in Nat /\ (2 * a.d) * h <= 200 * a.n + a.d /\ 200 * a.n + a.d < (2 * a.d) * h + 2 * a.d
  BY <1>2, Quotient
<1> HIDE DEF h
<1>4. (2 * a.d) * h = 2 * (a.d * h)
  BY <1>1, <1>3
<1>5. hundredths(a) = h
  BY DEF hundredths, h
<1> QED
  BY <1>3, <1>4, <1>5

(* From where and up to where a score is shown as a number of hundredths.  *)
LEMMA AtLeast ==
  ASSUME NEW a \in Fractions, NEW m \in Nat, (2 * m) * a.d <= 200 * a.n + a.d
  PROVE  m <= hundredths(a)
<1>1. /\ hundredths(a) \in Nat
      /\ 200 * a.n + a.d < 2 * (a.d * hundredths(a)) + 2 * a.d
  BY Rounding
<1>2. a.n \in Nat /\ a.d \in Nat \ {0}
  BY DEF Fractions
<1> DEFINE h == hundredths(a)
<1> HIDE DEF h
<1>3. ASSUME h + 1 <= m
      PROVE  FALSE
  <2>1. a.d * (h + 1) <= a.d * m
    BY <1>1, <1>2, <1>3 DEF h
  <2>2. a.d * (h + 1) = a.d * h + a.d /\ (2 * m) * a.d = 2 * (a.d * m)
    BY <1>1, <1>2 DEF h
  <2>3. a.d * h \in Nat /\ a.d * m \in Nat /\ a.d * (h + 1) \in Nat
    BY <1>1, <1>2 DEF h
  <2> QED
    BY <1>1, <1>2, <2>1, <2>2, <2>3 DEF h
<1> QED
  BY <1>1, <1>3 DEF h

LEMMA AtMost ==
  ASSUME NEW a \in Fractions, NEW m \in Nat, 200 * a.n + a.d < (2 * m) * a.d + 2 * a.d
  PROVE  hundredths(a) <= m
<1>1. /\ hundredths(a) \in Nat
      /\ 2 * (a.d * hundredths(a)) <= 200 * a.n + a.d
  BY Rounding
<1>2. a.n \in Nat /\ a.d \in Nat \ {0}
  BY DEF Fractions
<1> DEFINE h == hundredths(a)
<1> HIDE DEF h
<1>3. ASSUME m + 1 <= h
      PROVE  FALSE
  <2>1. a.d * (m + 1) <= a.d * h
    BY <1>1, <1>2, <1>3 DEF h
  <2>2. a.d * (m + 1) = a.d * m + a.d /\ (2 * m) * a.d = 2 * (a.d * m)
    BY <1>1, <1>2 DEF h
  <2>3. a.d * h \in Nat /\ a.d * m \in Nat /\ a.d * (m + 1) \in Nat
    BY <1>1, <1>2 DEF h
  <2> QED
    BY <1>1, <1>2, <2>1, <2>2, <2>3 DEF h
<1> QED
  BY <1>1, <1>3 DEF h

LEMMA FullIsFull == clamp(Fraction(100, 1)) = Fraction(100, 1) /\ hundredths(Fraction(100, 1)) = 10000
                    /\ hundredths(Fraction(0, 1)) = 0 /\ clamp(Fraction(0, 1)) = Fraction(0, 1)
BY DEF clamp, atMost, Fraction, hundredths

(* Below a hundred a score is not clamped.                                 *)
LEMMA Clamped ==
  ASSUME NEW a \in Fractions
  PROVE  /\ clamp(a) \in Fractions /\ clamp(a).n <= 100 * clamp(a).d
         /\ 100 * a.d <= a.n => clamp(a) = Fraction(100, 1)
         /\ a.n < 100 * a.d => clamp(a) = a
BY DEF clamp, atMost, Fraction, Fractions

LEMMA RawTyped ==
  ASSUME ValueInv, NEW c \in Scored
  PROVE  /\ entries[c].value \in Nat /\ masters[c] \in MasterForms
         /\ masters[c].target \in Nat /\ masters[c].weight \in Nat
         /\ computeRaw(masters[c], entries[c].value) \in Fractions
<1>1. c \in Codes /\ entries[c] \in EntryRow /\ masters[c] \in MasterForms
  BY DEF Scored, ValueInv
<1>2. entries[c].value \in Nat /\ masters[c].target \in Nat /\ masters[c].weight \in Nat
  BY <1>1, KpiAssumption DEF EntryRow
<1> DEFINE v == entries[c].value
           kpi == masters[c]
<1> HIDE DEF v, kpi
<1>3. v \in Nat /\ kpi.target \in Nat
  BY <1>2 DEF v, kpi
<1>4. computeRaw(kpi, v) \in Fractions
  BY <1>3 DEF computeRaw, Fraction, Fractions
<1> QED
  BY <1>1, <1>2, <1>4 DEF v, kpi

LEMMA ScoreTyped ==
  ASSUME ValueInv, NEW c \in Scored
  PROVE  normalized(c) \in Fractions /\ normalized(c).n <= 100 * normalized(c).d
BY RawTyped, Clamped DEF normalized

LEMMA FullScore ==
  ASSUME ValueInv
  PROVE  FullScoreMeetsTarget
<1> SUFFICES ASSUME NEW c \in Scored, masters[c].type # "yes_no", masters[c].target # 0
             PROVE  LET kpi == masters[c]
                        score == normalized(c)
                        larger == IF kpi.higher THEN kpi.target ELSE entries[c].value
                        smaller == IF kpi.higher THEN entries[c].value ELSE kpi.target
                    IN  IF belowTarget(c)
                        THEN ~atMost(Fraction(100, 1), score)
                             /\ (hundredths(score) = 10000 => 20000 * (larger - smaller) <= larger)
                        ELSE hundredths(score) = (IF ~kpi.higher /\ entries[c].value = 0 THEN 0 ELSE 10000)
  BY DEF FullScoreMeetsTarget
<1> DEFINE v == entries[c].value
           t == masters[c].target
           raw == computeRaw(masters[c], v)
           larger == IF masters[c].higher THEN t ELSE v
           smaller == IF masters[c].higher THEN v ELSE t
<1>1. v \in Nat /\ t \in Nat /\ t # 0 /\ raw \in Fractions
  BY RawTyped
<1>2. normalized(c) = clamp(raw)
  BY DEF normalized
<1>3. raw = IF masters[c].higher THEN Fraction(v * 100, t) ELSE IF v = 0 THEN Fraction(0, 1) ELSE Fraction(t * 100, v)
  BY DEF computeRaw
<1>4. belowTarget(c) <=> IF masters[c].higher THEN v < t ELSE v > t
  BY DEF belowTarget
<1> HIDE DEF v, t, raw
<1>5. CASE belowTarget(c)
  <2>1. /\ larger \in Nat \ {0} /\ smaller \in Nat /\ smaller < larger
        /\ raw = Fraction(smaller * 100, larger)
    BY <1>1, <1>3, <1>4, <1>5
  <2> HIDE DEF larger, smaller
  <2>2. raw.n = smaller * 100 /\ raw.d = larger
    BY <2>1 DEF Fraction
  <2>3. raw.n < 100 * raw.d
    BY <2>1, <2>2
  <2>4. normalized(c) = raw
    BY <1>1, <1>2, <2>3, Clamped
  <2>5. ~atMost(Fraction(100, 1), raw)
    BY <2>1, <2>2, <2>3 DEF atMost, Fraction
  <2>6. ASSUME hundredths(raw) = 10000
        PROVE  20000 * (larger - smaller) <= larger
    <3>1. 2 * (raw.d * 10000) <= 200 * raw.n + raw.d
      BY <1>1, <2>6, Rounding
    <3> QED
      BY <2>1, <2>2, <3>1
  <2> QED
    BY <1>5, <2>4, <2>5, <2>6 DEF larger, smaller, v, t
<1>6. CASE ~belowTarget(c)
  <2>1. CASE ~masters[c].higher /\ v = 0
    <3>1. raw = Fraction(0, 1)
      BY <1>3, <2>1
    <3> QED
      BY <1>2, <1>6, <2>1, <3>1, FullIsFull DEF v
  <2>2. CASE ~(~masters[c].higher /\ v = 0)
    <3>1. /\ smaller \in Nat /\ larger \in Nat \ {0} /\ larger <= smaller
          /\ raw = Fraction(smaller * 100, larger)
      BY <1>1, <1>3, <1>4, <1>6, <2>2
    <3> HIDE DEF larger, smaller
    <3>2. 100 * raw.d <= raw.n
      BY <3>1 DEF Fraction
    <3>3. normalized(c) = Fraction(100, 1)
      BY <1>1, <1>2, <3>2, Clamped
    <3> QED
      BY <1>6, <2>2, <3>3, FullIsFull DEF v
  <2> QED
    BY <2>1, <2>2
<1> QED
  BY <1>5, <1>6

LEMMA Unbanded ==
  ASSUME ValueInv
  PROVE  UnbandedIsPlanned
<1> SUFFICES ASSUME NEW c \in Scored
             PROVE  /\ hundredths(normalized(c)) \in 0..10000
                    /\ classifyScore(normalized(c)) = "unclassified" =>
                         c \in actionPlans /\ priority(c) = "medium" /\ hundredths(normalized(c)) \in {7499, 7500, 8999, 9000}
  BY DEF UnbandedIsPlanned
<1> DEFINE a == normalized(c)
           h == hundredths(a)
<1>1. a \in Fractions /\ a.n \in Nat /\ a.d \in Nat \ {0} /\ a.n <= 100 * a.d
  BY ScoreTyped DEF Fractions
<1> HIDE DEF a
<1>2. h \in Nat
  BY <1>1, Rounding
<1>3. h <= 10000
  <2>1. 200 * a.n + a.d < (2 * 10000) * a.d + 2 * a.d
    BY <1>1
  <2> QED
    BY <1>1, <2>1, AtMost
<1>4. ASSUME classifyScore(a) = "unclassified"
      PROVE  h \in {7499, 7500, 8999, 9000}
  <2>1. DOMAIN Bands = {"green", "amber", "red"}
    BY DEF Bands
  <2>2. \A b \in {"green", "amber", "red"} : ~within(a, b)
    <3>1. ASSUME \E b \in DOMAIN Bands : within(a, b)
          PROVE  FALSE
      <4>1. classifyScore(a) \in DOMAIN Bands
        BY <3>1 DEF classifyScore
      <4> QED
        BY <1>4, <2>1, <4>1
    <3> QED
      BY <2>1, <3>1
  <2>3. /\ ~(a.n * 100 >= 9000 * a.d /\ a.n * 100 <= 10000 * a.d)
        /\ ~(a.n * 100 >= 7500 * a.d /\ a.n * 100 <= 8999 * a.d)
        /\ ~(a.n * 100 >= 0 * a.d /\ a.n * 100 <= 7499 * a.d)
    BY <2>2 DEF within, Bands
  <2>4. \/ 7499 * a.d < a.n * 100 /\ a.n * 100 < 7500 * a.d
        \/ 8999 * a.d < a.n * 100 /\ a.n * 100 < 9000 * a.d
    BY <1>1, <2>3
  <2>5. CASE 7499 * a.d < a.n * 100 /\ a.n * 100 < 7500 * a.d
    <3>1. 200 * a.n + a.d < (2 * 7500) * a.d + 2 * a.d /\ (2 * 7499) * a.d <= 200 * a.n + a.d
      BY <1>1, <2>5
    <3>2. h <= 7500 /\ 7499 <= h
      BY <1>1, <3>1, AtMost, AtLeast
    <3> QED
      BY <1>2, <3>2
  <2>6. CASE 8999 * a.d < a.n * 100 /\ a.n * 100 < 9000 * a.d
    <3>1. 200 * a.n + a.d < (2 * 9000) * a.d + 2 * a.d /\ (2 * 8999) * a.d <= 200 * a.n + a.d
      BY <1>1, <2>6
    <3>2. h <= 9000 /\ 8999 <= h
      BY <1>1, <3>1, AtMost, AtLeast
    <3> QED
      BY <1>2, <3>2
  <2> QED
    BY <2>4, <2>5, <2>6
<1>5. classifyScore(a) = "unclassified" => c \in actionPlans /\ priority(c) = "medium"
  BY DEF actionPlans, priority, a
<1> HIDE DEF h
<1>6. h \in 0..10000
  BY <1>2, <1>3
<1> QED
  BY <1>4, <1>5, <1>6 DEF a, h

(* Recursion over the subsets of a finite set, one picked element at a     *)
(* time: what a fold computes.                                             *)
Picks(S, pick) == \A s \in SUBSET S : s # {} => pick[s] \in s

Climbs(S, pick, good) == \A s \in SUBSET S : s # {} /\ s \ {pick[s]} \in good => s \in good

IsFold(S, pick, base, g, f) ==
  /\ f = [s \in SUBSET S |-> f[s]]
  /\ \A s \in SUBSET S : f[s] = IF s = {} THEN base ELSE g[<<pick[s], f[s \ {pick[s]}]>>]

(* Induction along it.                                                     *)
LEMMA SubsetsReached ==
  ASSUME NEW S, IsFiniteSet(S), NEW pick, Picks(S, pick), NEW good, {} \in good, Climbs(S, pick, good)
  PROVE  \A s \in SUBSET S : s \in good
<1> DEFINE bad == {s \in SUBSET S : s \notin good}
           sizes == {Cardinality(s) : s \in bad}
           least == CHOOSE k \in sizes : \A l \in sizes : k <= l
<1> SUFFICES ASSUME bad # {} PROVE FALSE
  OBVIOUS
<1>1. \A s \in SUBSET S : IsFiniteSet(s) /\ Cardinality(s) \in Nat
  BY FS_Subset, FS_CardinalityType
<1>2. least \in sizes /\ \A l \in sizes : least <= l
  <2>1. sizes \subseteq Nat /\ sizes # {}
    BY <1>1
  <2> QED
    BY <2>1, FirstPosition
<1> HIDE DEF least
<1>3. PICK s \in bad : least = Cardinality(s)
  BY <1>2
<1>4. s \in SUBSET S /\ s # {} /\ pick[s] \in s
  BY <1>3 DEF Picks
<1> DEFINE r == s \ {pick[s]}
<1>5. r \in SUBSET S /\ Cardinality(r) = Cardinality(s) - 1
  BY <1>1, <1>4, FS_RemoveElement
<1>6. r \notin bad
  <2>1. Cardinality(s) \in Nat /\ Cardinality(r) \in Nat /\ ~(Cardinality(s) <= Cardinality(r))
    BY <1>1, <1>4, <1>5
  <2>2. r \in bad => Cardinality(r) \in sizes
    OBVIOUS
  <2> HIDE DEF r, bad, sizes
  <2> QED
    BY <1>2, <1>3, <2>1, <2>2
<1> QED
  BY <1>3, <1>4, <1>5, <1>6 DEF Climbs

(* A function that satisfies the recursion exists.                         *)
LEMMA FoldExists ==
  ASSUME NEW S, IsFiniteSet(S), NEW pick, Picks(S, pick), NEW base, NEW g
  PROVE  \E f : IsFold(S, pick, base, g, f)
<1> DEFINE next(f) == [s \in SUBSET S |-> IF s = {} THEN base ELSE g[<<pick[s], f[s \ {pick[s]}]>>]]
           upTo(n) == {s \in SUBSET S : Cardinality(s) <= n}
           N == Cardinality(S)
           Holds(f, n) == \A s \in upTo(n) : f[s] = next(f)[s]
           fits == {n \in 0..N : \E f : Holds(f, n)}
<1>1. \A s \in SUBSET S : IsFiniteSet(s) /\ Cardinality(s) \in Nat
  BY FS_Subset, FS_CardinalityType
<1>2. N \in Nat /\ \A s \in SUBSET S : Cardinality(s) <= N
  BY <1>1, FS_Subset
<1>3. 0 \in fits
  <2> DEFINE f == [s \in SUBSET S |-> base]
  <2>1. \A s \in upTo(0) : s = {}
    BY <1>1, FS_EmptySet
  <2>2. Holds(f, 0)
    BY <2>1
  <2>3. 0 \in 0..N
    BY <1>2
  <2> HIDE DEF f
  <2> QED
    BY <2>2, <2>3
<1>4. ASSUME NEW n \in 0..N, n + 1 \in 0..N, n \in fits
      PROVE  n + 1 \in fits
  <2>1. PICK f : Holds(f, n)
    BY <1>4
  <2> DEFINE h == next(f)
  <2>2. ASSUME NEW s \in upTo(n + 1), s # {}
        PROVE  h[s] = next(h)[s]
    <3> DEFINE r == s \ {pick[s]}
    <3>1. r \in SUBSET S /\ Cardinality(r) = Cardinality(s) - 1
      BY <1>1, <2>2, FS_RemoveElement DEF Picks
    <3>2. r \in upTo(n)
      BY <1>1, <2>2, <3>1
    <3>3. f[r] = next(f)[r]
      BY <2>1, <3>2
    <3> QED
      BY <2>2, <3>1, <3>3
  <2>3. Holds(h, n + 1)
    <3>1. \A s \in upTo(n + 1) : s = {} => h[s] = next(h)[s]
      OBVIOUS
    <3> QED
      BY <2>2, <3>1
  <2> HIDE DEF h
  <2> QED
    BY <1>4, <2>3
<1>5. N \in fits
  <2> DEFINE left == {n \in 0..N : n \notin fits}
             first == CHOOSE k \in left : \A l \in left : k <= l
  <2> HIDE DEF fits
  <2> SUFFICES ASSUME left # {} PROVE FALSE
    BY <1>2
  <2>1. first \in left /\ \A l \in left : first <= l
    <3>1. left \subseteq Nat
      BY <1>2
    <3> QED
      BY <3>1, FirstPosition
  <2> HIDE DEF first
  <2>2. first \in Nat /\ first # 0 /\ first \in 0..N
    BY <1>2, <1>3, <2>1
  <2>3. first - 1 \in 0..N /\ first - 1 \notin left /\ (first - 1) + 1 = first
    BY <1>2, <2>1, <2>2
  <2> QED
    BY <1>4, <2>1, <2>2, <2>3
<1>6. PICK f : Holds(f, N)
  BY <1>5
<1> DEFINE e == next(f)
<1>7. /\ e = [s \in SUBSET S |-> e[s]]
      /\ \A s \in SUBSET S : e[s] = IF s = {} THEN base ELSE g[<<pick[s], f[s \ {pick[s]}]>>]
  OBVIOUS
<1>8. \A r \in SUBSET S : f[r] = e[r] /\ r \ {pick[r]} \in SUBSET S
  BY <1>2, <1>6
<1> HIDE DEF e
<1>9. \A s \in SUBSET S : e[s] = IF s = {} THEN base ELSE g[<<pick[s], e[s \ {pick[s]}]>>]
  BY <1>7, <1>8
<1>10. IsFold(S, pick, base, g, e)
  BY <1>7, <1>9 DEF IsFold
<1> QED
  BY <1>10

(* What the two dashboards sum: the exact scores, the rounded ones and the *)
(* weights, by recursion over the sets of rows.                            *)
picked(s) == CHOOSE c \in s : TRUE

NormalizedWalk(S, f) ==
  f = [s \in SUBSET S |-> IF s = {} THEN Fraction(0, 1)
         ELSE plus(Fraction(normalized(picked(s)).n * masters[picked(s)].weight, normalized(picked(s)).d),
                   f[s \ {picked(s)}])]
RoundedWalk(S, f) ==
  f = [s \in SUBSET S |-> IF s = {} THEN Fraction(0, 1)
         ELSE plus(Fraction(rounded(picked(s)).n * masters[picked(s)].weight, rounded(picked(s)).d),
                   f[s \ {picked(s)}])]
WeightWalk(S, f) ==
  f = [s \in SUBSET S |-> IF s = {} THEN 0 ELSE masters[picked(s)].weight + f[s \ {picked(s)}]]

LEMMA WalksSum ==
  ASSUME NEW S
  PROVE  /\ weighted(S, normalized) = (CHOOSE f : NormalizedWalk(S, f))[S]
         /\ weighted(S, rounded) = (CHOOSE f : RoundedWalk(S, f))[S]
         /\ totalWeight(S) = (CHOOSE f : WeightWalk(S, f))[S]
<1>1. weighted(S, normalized) = (CHOOSE f : NormalizedWalk(S, f))[S]
  BY DEF weighted, FoldSet, MapThenFoldSet, NormalizedWalk, picked
<1>2. weighted(S, rounded) = (CHOOSE f : RoundedWalk(S, f))[S]
  BY DEF weighted, FoldSet, MapThenFoldSet, RoundedWalk, picked
<1>3. totalWeight(S) = (CHOOSE f : WeightWalk(S, f))[S]
  BY DEF totalWeight, MapThenSumSet, MapThenFoldSet, WeightWalk, picked
<1> QED
  BY <1>1, <1>2, <1>3

(* And its values are of the type of the base and of what is added.        *)
LEMMA TypedFold ==
  ASSUME NEW S, IsFiniteSet(S), NEW pick, Picks(S, pick), NEW T, NEW base \in T, NEW g \in [S \X T -> T]
  PROVE  \E f \in [SUBSET S -> T] : IsFold(S, pick, base, g, f)
<1>1. PICK f : IsFold(S, pick, base, g, f)
  BY FoldExists
<1> DEFINE good == {s \in SUBSET S : f[s] \in T}
<1>2. {} \in good
  BY <1>1 DEF IsFold
<1>3. Climbs(S, pick, good)
  <2> SUFFICES ASSUME NEW s \in SUBSET S, s # {}, s \ {pick[s]} \in good
               PROVE  f[s] \in T
    BY DEF Climbs
  <2>1. pick[s] \in S /\ f[s \ {pick[s]}] \in T
    BY DEF Picks
  <2>2. f[s] = g[<<pick[s], f[s \ {pick[s]}]>>]
    BY <1>1 DEF IsFold
  <2> QED
    BY <2>1, <2>2
<1>4. \A s \in SUBSET S : s \in good
  <2> HIDE DEF good
  <2> QED
    BY <1>2, <1>3, SubsetsReached
<1>5. f = [s \in SUBSET S |-> f[s]]
  BY <1>1 DEF IsFold
<1>6. f \in [SUBSET S -> T]
  BY <1>4, <1>5
<1> QED
  BY <1>1, <1>6

LEMMA PickedIn ==
  ASSUME NEW S
  PROVE  \A s \in SUBSET S : s # {} => picked(s) \in s /\ picked(s) \in S
BY DEF picked

(* The three walks exist, so that what is chosen is one.                   *)
LEMMA WalksExist ==
  ASSUME NEW S, IsFiniteSet(S),
         \A c \in S : /\ normalized(c) \in Fractions /\ rounded(c) \in Fractions
                      /\ masters[c].weight \in Nat
  PROVE  /\ \E f \in [SUBSET S -> Fractions] : NormalizedWalk(S, f)
         /\ \E f \in [SUBSET S -> Fractions] : RoundedWalk(S, f)
         /\ \E f \in [SUBSET S -> Nat] : WeightWalk(S, f)
<1> DEFINE pick == [s \in SUBSET S |-> picked(s)]
<1>1. \A s \in SUBSET S : s # {} => pick[s] \in s /\ pick[s] = picked(s) /\ pick[s] \in S
  BY PickedIn
<1>2. Picks(S, pick) /\ \A s \in SUBSET S : s \ {picked(s)} \in SUBSET S
  BY <1>1 DEF Picks
<1> HIDE DEF pick
<1>3. Fraction(0, 1) \in Fractions
  BY DEF Fraction, Fractions
<1>4. ASSUME NEW a \in Fractions, NEW b \in Fractions, NEW w \in Nat
      PROVE  plus(Fraction(a.n * w, a.d), b) \in Fractions
  BY DEF plus, Fraction, Fractions
<1>5. \E f \in [SUBSET S -> Fractions] : NormalizedWalk(S, f)
  <2> DEFINE add(c, v) == plus(Fraction(normalized(c).n * masters[c].weight, normalized(c).d), v)
             g == [p \in S \X Fractions |-> add(p[1], p[2])]
  <2>1. \A c \in S, v \in Fractions : add(c, v) \in Fractions
    BY <1>4
  <2> HIDE DEF add
  <2>2. g \in [S \X Fractions -> Fractions] /\ \A c \in S, v \in Fractions : g[<<c, v>>] = add(c, v)
    BY <2>1
  <2> HIDE DEF g
  <2>3. PICK f \in [SUBSET S -> Fractions] : IsFold(S, pick, Fraction(0, 1), g, f)
    BY <1>2, <1>3, <2>2, TypedFold
  <2>4. \A s \in SUBSET S : s # {} => g[<<pick[s], f[s \ {pick[s]}]>>] = add(picked(s), f[s \ {picked(s)}])
    BY <1>1, <1>2, <2>2
  <2>5. f = [s \in SUBSET S |-> IF s = {} THEN Fraction(0, 1) ELSE add(picked(s), f[s \ {picked(s)}])]
    BY <2>3, <2>4 DEF IsFold
  <2> QED
    BY <2>5 DEF NormalizedWalk, add
<1>6. \E f \in [SUBSET S -> Fractions] : RoundedWalk(S, f)
  <2> DEFINE add(c, v) == plus(Fraction(rounded(c).n * masters[c].weight, rounded(c).d), v)
             g == [p \in S \X Fractions |-> add(p[1], p[2])]
  <2>1. \A c \in S, v \in Fractions : add(c, v) \in Fractions
    BY <1>4
  <2> HIDE DEF add
  <2>2. g \in [S \X Fractions -> Fractions] /\ \A c \in S, v \in Fractions : g[<<c, v>>] = add(c, v)
    BY <2>1
  <2> HIDE DEF g
  <2>3. PICK f \in [SUBSET S -> Fractions] : IsFold(S, pick, Fraction(0, 1), g, f)
    BY <1>2, <1>3, <2>2, TypedFold
  <2>4. \A s \in SUBSET S : s # {} => g[<<pick[s], f[s \ {pick[s]}]>>] = add(picked(s), f[s \ {picked(s)}])
    BY <1>1, <1>2, <2>2
  <2>5. f = [s \in SUBSET S |-> IF s = {} THEN Fraction(0, 1) ELSE add(picked(s), f[s \ {picked(s)}])]
    BY <2>3, <2>4 DEF IsFold
  <2> QED
    BY <2>5 DEF RoundedWalk, add
<1>7. \E f \in [SUBSET S -> Nat] : WeightWalk(S, f)
  <2> DEFINE add(c, v) == masters[c].weight + v
             g == [p \in S \X Nat |-> add(p[1], p[2])]
  <2>1. \A c \in S, v \in Nat : add(c, v) \in Nat
    OBVIOUS
  <2> HIDE DEF add
  <2>2. g \in [S \X Nat -> Nat] /\ \A c \in S, v \in Nat : g[<<c, v>>] = add(c, v)
    BY <2>1
  <2> HIDE DEF g
  <2>3. PICK f \in [SUBSET S -> Nat] : IsFold(S, pick, 0, g, f)
    BY <1>2, <2>2, TypedFold
  <2>4. \A s \in SUBSET S : s # {} => g[<<pick[s], f[s \ {pick[s]}]>>] = add(picked(s), f[s \ {picked(s)}])
    BY <1>1, <1>2, <2>2
  <2>5. f = [s \in SUBSET S |-> IF s = {} THEN 0 ELSE add(picked(s), f[s \ {picked(s)}])]
    BY <2>3, <2>4 DEF IsFold
  <2> QED
    BY <2>5 DEF WeightWalk, add
<1> QED
  BY <1>5, <1>6, <1>7

(* Two weighted sums are no further apart than half a hundredth for each   *)
(* unit of weight.                                                         *)
Near(a, b, w) ==
  /\ 200 * (a.n * b.d - b.n * a.d) <= w * (a.d * b.d)
  /\ 200 * (b.n * a.d - a.n * b.d) <= w * (a.d * b.d)

(* Products are monotone and distribute; the prover is told where.         *)
LEMMA ScaledUp ==
  ASSUME NEW k \in Nat, NEW x \in Int, NEW y \in Int, x <= y
  PROVE  k * x <= k * y
OBVIOUS

LEMMA NearStep ==
  ASSUME NEW n \in Nat, NEW d \in Nat \ {0}, NEW h \in Nat, NEW w \in Nat,
         2 * (d * h) <= 200 * n + d, 200 * n + d < 2 * (d * h) + 2 * d,
         NEW an \in Nat, NEW ad \in Nat \ {0}, NEW bn \in Nat, NEW bd \in Nat \ {0}, NEW v \in Nat,
         200 * (an * bd - bn * ad) <= v * (ad * bd), 200 * (bn * ad - an * bd) <= v * (ad * bd)
  PROVE  LET an2 == (n * w) * ad + an * d
             ad2 == d * ad
             bn2 == (h * w) * bd + bn * 100
             bd2 == 100 * bd
         IN  /\ 200 * (an2 * bd2 - bn2 * ad2) <= (w + v) * (ad2 * bd2)
             /\ 200 * (bn2 * ad2 - an2 * bd2) <= (w + v) * (ad2 * bd2)
<1> DEFINE p == ad * bd
           x == an * bd - bn * ad
           y == 100 * n - d * h
           an2 == (n * w) * ad + an * d
           ad2 == d * ad
           bn2 == (h * w) * bd + bn * 100
           bd2 == 100 * bd
           u == w * p
<1>1. p \in Nat /\ x \in Int /\ y \in Int /\ u \in Nat /\ v * p \in Nat /\ d * u \in Nat /\ u * y \in Int /\ d * x \in Int
  OBVIOUS
<1>2. 2 * y <= d /\ -d <= 2 * y
  OBVIOUS
<1>3. an2 * bd2 - bn2 * ad2 = u * y + 100 * (d * x)
  <2>1. an2 * bd2 = 100 * ((n * w) * (ad * bd)) + 100 * (d * (an * bd))
    OBVIOUS
  <2>2. bn2 * ad2 = (d * h) * (w * (ad * bd)) + 100 * (d * (bn * ad))
    OBVIOUS
  <2>3. u * y = 100 * ((n * w) * (ad * bd)) - (d * h) * (w * (ad * bd))
    OBVIOUS
  <2>4. d * x = d * (an * bd) - d * (bn * ad)
    OBVIOUS
  <2> HIDE DEF an2, ad2, bn2, bd2, p, x, y, u
  <2> QED
    BY <2>1, <2>2, <2>3, <2>4
<1>4. (w + v) * (ad2 * bd2) = 100 * (d * u) + 100 * (d * (v * p))
  OBVIOUS
<1>5. 200 * x <= v * p /\ 200 * (-x) <= v * p
  OBVIOUS
<1>6. an2 * bd2 \in Int /\ bn2 * ad2 \in Int
  OBVIOUS
<1> HIDE DEF an2, ad2, bn2, bd2, p, x, y, u
<1>7. u * (2 * y) <= u * d /\ u * (-(2 * y)) <= u * d
  BY <1>1, <1>2, ScaledUp
<1>8. d * (200 * x) <= d * (v * p) /\ d * (200 * (-x)) <= d * (v * p)
  BY <1>1, <1>5, ScaledUp
<1>9. /\ u * (2 * y) = 2 * (u * y) /\ u * (-(2 * y)) = -(2 * (u * y)) /\ u * d = d * u
      /\ d * (200 * x) = 200 * (d * x) /\ d * (200 * (-x)) = -(200 * (d * x))
  BY <1>1
<1>10. d * (v * p) \in Nat
  BY <1>1
<1>11. /\ 200 * (u * y + 100 * (d * x)) <= 100 * (d * u) + 100 * (d * (v * p))
       /\ -(200 * (u * y + 100 * (d * x))) <= 100 * (d * u) + 100 * (d * (v * p))
  BY <1>1, <1>7, <1>8, <1>9, <1>10
<1>12. 200 * (bn2 * ad2 - an2 * bd2) = -(200 * (an2 * bd2 - bn2 * ad2))
  BY <1>6
<1> QED
  BY <1>3, <1>4, <1>11, <1>12 DEF an2, ad2, bn2, bd2

(* Near sums, divided by their weight, are shown at most a hundredth apart.*)
LEMMA NearShown ==
  ASSUME NEW a \in Fractions, NEW b \in Fractions, NEW w \in Nat, Near(a, b, w)
  PROVE  hundredths(ratio(a, w)) - hundredths(ratio(b, w)) \in {-1, 0, 1}
<1>1. CASE w = 0
  BY <1>1, FullIsFull DEF ratio
<1>2. CASE w # 0
  <2> DEFINE x == hundredths(ratio(a, w))
             y == hundredths(ratio(b, w))
             q == (a.d * w) * b.d
  <2>1. /\ a.n \in Nat /\ a.d \in Nat \ {0} /\ b.n \in Nat /\ b.d \in Nat \ {0} /\ w \in Nat \ {0}
        /\ ratio(a, w) = Fraction(a.n, a.d * w) /\ ratio(b, w) = Fraction(b.n, b.d * w)
    BY <1>2 DEF ratio, Fractions
  <2>2. a.d * w \in Nat \ {0} /\ b.d * w \in Nat \ {0} /\ q \in Nat \ {0}
    BY <2>1
  <2>3. /\ ratio(a, w) \in Fractions /\ ratio(a, w).n = a.n /\ ratio(a, w).d = a.d * w
        /\ ratio(b, w) \in Fractions /\ ratio(b, w).n = b.n /\ ratio(b, w).d = b.d * w
    BY <2>1, <2>2 DEF Fraction, Fractions
  <2>4. /\ x \in Nat /\ 2 * ((a.d * w) * x) <= 200 * a.n + a.d * w
        /\ 200 * a.n + a.d * w < 2 * ((a.d * w) * x) + 2 * (a.d * w)
    BY <2>3, Rounding
  <2>5. /\ y \in Nat /\ 2 * ((b.d * w) * y) <= 200 * b.n + b.d * w
        /\ 200 * b.n + b.d * w < 2 * ((b.d * w) * y) + 2 * (b.d * w)
    BY <2>3, Rounding
  <2> DEFINE e == a.d * w
             f == b.d * w
             s == a.n * b.d
             t == b.n * a.d
  <2>6. s \in Nat /\ t \in Nat /\ 200 * (s - t) <= q /\ 200 * (t - s) <= q
    <3>1. w * (a.d * b.d) = q
      BY <2>1
    <3> QED
      BY <2>1, <3>1 DEF Near
  <2> HIDE DEF x, y, q, e, f, s, t
  <2>7. 2 * (q * x) <= 200 * s + q /\ 200 * s + q <= 2 * (q * x) + 2 * q
    <3>0. /\ 2 * (e * x) <= 200 * a.n + e /\ 200 * a.n + e < 2 * (e * x) + 2 * e
          /\ e \in Nat /\ x \in Nat
      BY <2>2, <2>4 DEF e
    <3>1. /\ 2 * (e * x) <= 200 * a.n + e /\ 200 * a.n + e <= 2 * (e * x) + 2 * e
          /\ e \in Nat /\ e * x \in Nat
      BY <2>1, <3>0
    <3>2. /\ b.d * (2 * (e * x)) <= b.d * (200 * a.n + e)
          /\ b.d * (200 * a.n + e) <= b.d * (2 * (e * x) + 2 * e)
      BY <2>1, <3>1, ScaledUp
    <3>3. /\ b.d * (2 * (e * x)) = 2 * ((e * b.d) * x)
          /\ b.d * (200 * a.n + e) = 200 * (a.n * b.d) + e * b.d
          /\ b.d * (2 * (e * x) + 2 * e) = 2 * ((e * b.d) * x) + 2 * (e * b.d)
      BY <2>1, <2>4, <3>1
    <3>4. e * b.d = q /\ a.n * b.d = s
      BY DEF e, q, s
    <3> QED
      BY <3>2, <3>3, <3>4
  <2>8. 2 * (q * y) <= 200 * t + q /\ 200 * t + q <= 2 * (q * y) + 2 * q
    <3>0. /\ 2 * (f * y) <= 200 * b.n + f /\ 200 * b.n + f < 2 * (f * y) + 2 * f
          /\ f \in Nat /\ y \in Nat
      BY <2>2, <2>5 DEF f
    <3>1. /\ 2 * (f * y) <= 200 * b.n + f /\ 200 * b.n + f <= 2 * (f * y) + 2 * f
          /\ f \in Nat /\ f * y \in Nat
      BY <2>1, <3>0
    <3>2. /\ a.d * (2 * (f * y)) <= a.d * (200 * b.n + f)
          /\ a.d * (200 * b.n + f) <= a.d * (2 * (f * y) + 2 * f)
      BY <2>1, <3>1, ScaledUp
    <3>3. /\ a.d * (2 * (f * y)) = 2 * ((f * a.d) * y)
          /\ a.d * (200 * b.n + f) = 200 * (b.n * a.d) + f * a.d
          /\ a.d * (2 * (f * y) + 2 * f) = 2 * ((f * a.d) * y) + 2 * (f * a.d)
      BY <2>1, <2>5, <3>1
    <3>4. f * a.d = q /\ b.n * a.d = t
      BY <2>1 DEF f, q, t
    <3> QED
      BY <3>2, <3>3, <3>4
  <2>9. ASSUME NEW i \in Nat, NEW j \in Nat, j + 2 <= i
        PROVE  q * j + 2 * q <= q * i
    <3>1. q * (j + 2) <= q * i
      BY <2>2, <2>9, ScaledUp
    <3>2. q * (j + 2) = q * j + 2 * q
      BY <2>2
    <3> QED
      BY <3>1, <3>2
  <2>10. q * x \in Nat /\ q * y \in Nat /\ q \in Nat \ {0} /\ x \in Nat /\ y \in Nat
    BY <2>2, <2>4, <2>5
  <2>11. x <= y + 1
    <3>1. ASSUME y + 2 <= x PROVE FALSE
      BY <2>6, <2>7, <2>8, <2>9, <2>10, <3>1
    <3> QED
      BY <2>10, <3>1
  <2>12. y <= x + 1
    <3>1. ASSUME x + 2 <= y PROVE FALSE
      BY <2>6, <2>7, <2>8, <2>9, <2>10, <3>1
    <3> QED
      BY <2>10, <3>1
  <2>13. x - y \in {-1, 0, 1}
    BY <2>10, <2>11, <2>12
  <2> QED
    BY <2>13 DEF x, y
<1> QED
  BY <1>1, <1>2

LEMMA RoundedTyped ==
  ASSUME ValueInv, NEW c \in Scored
  PROVE  /\ normalized(c) \in Fractions /\ rounded(c) \in Fractions
         /\ rounded(c).n = hundredths(normalized(c)) /\ rounded(c).d = 100
         /\ masters[c].weight \in Nat
<1>1. normalized(c) \in Fractions /\ masters[c].weight \in Nat
  BY ScoreTyped, RawTyped
<1>2. hundredths(normalized(c)) \in Nat
  BY <1>1, Rounding
<1> QED
  BY <1>1, <1>2 DEF rounded, Fraction, Fractions

(* The sums of the two dashboards stay near along the walk.                *)
LEMMA SumsNear ==
  ASSUME ValueInv
  PROVE  /\ weighted(Scored, normalized) \in Fractions /\ weighted(Scored, rounded) \in Fractions
         /\ totalWeight(Scored) \in Nat
         /\ Near(weighted(Scored, normalized), weighted(Scored, rounded), totalWeight(Scored))
<1> DEFINE S == Scored
           A == CHOOSE f : NormalizedWalk(S, f)
           B == CHOOSE f : RoundedWalk(S, f)
           W == CHOOSE f : WeightWalk(S, f)
           pick == [s \in SUBSET S |-> picked(s)]
           Fits(s) == /\ A[s] \in Fractions /\ B[s] \in Fractions /\ W[s] \in Nat
                      /\ Near(A[s], B[s], W[s])
           good == {s \in SUBSET S : Fits(s)}
<1>1. IsFiniteSet(S)
  <2>1. S \subseteq Codes
    BY DEF Scored
  <2> QED
    BY <2>1, KpiAssumption, FS_Subset
<1>2. \A c \in S : /\ normalized(c) \in Fractions /\ rounded(c) \in Fractions
                   /\ masters[c].weight \in Nat
  BY RoundedTyped
<1>3. /\ \E f \in [SUBSET S -> Fractions] : NormalizedWalk(S, f)
      /\ \E f \in [SUBSET S -> Fractions] : RoundedWalk(S, f)
      /\ \E f \in [SUBSET S -> Nat] : WeightWalk(S, f)
  <2> HIDE DEF S
  <2> QED
    BY <1>1, <1>2, WalksExist
<1>4. NormalizedWalk(S, A) /\ RoundedWalk(S, B) /\ WeightWalk(S, W)
  BY <1>3
<1>5. /\ weighted(S, normalized) = A[S] /\ weighted(S, rounded) = B[S] /\ totalWeight(S) = W[S]
  BY WalksSum
<1>6. \A s \in SUBSET S : s # {} => picked(s) \in s /\ picked(s) \in S /\ s \ {picked(s)} \in SUBSET S
  BY PickedIn
<1>7. /\ A[{}] = Fraction(0, 1) /\ B[{}] = Fraction(0, 1) /\ W[{}] = 0
  <2> HIDE DEF A, B, W, S
  <2>1. {} \in SUBSET S
    OBVIOUS
  <2>2. A[{}] = Fraction(0, 1)
    BY <1>4, <2>1 DEF NormalizedWalk
  <2>3. B[{}] = Fraction(0, 1)
    BY <1>4, <2>1 DEF RoundedWalk
  <2>4. W[{}] = 0
    BY <1>4, <2>1 DEF WeightWalk
  <2> QED
    BY <2>2, <2>3, <2>4
<1> HIDE DEF A, B, W, S
<1>8. ASSUME NEW s \in SUBSET S, s # {}
      PROVE  LET c == picked(s)
                 r == s \ {picked(s)}
             IN  /\ A[s] = plus(Fraction(normalized(c).n * masters[c].weight, normalized(c).d), A[r])
                 /\ B[s] = plus(Fraction(rounded(c).n * masters[c].weight, rounded(c).d), B[r])
                 /\ W[s] = masters[c].weight + W[r]
  <2>1. A[s] = plus(Fraction(normalized(picked(s)).n * masters[picked(s)].weight, normalized(picked(s)).d),
                    A[s \ {picked(s)}])
    BY <1>4, <1>8 DEF NormalizedWalk
  <2>2. B[s] = plus(Fraction(rounded(picked(s)).n * masters[picked(s)].weight, rounded(picked(s)).d),
                    B[s \ {picked(s)}])
    BY <1>4, <1>8 DEF RoundedWalk
  <2>3. W[s] = masters[picked(s)].weight + W[s \ {picked(s)}]
    BY <1>4, <1>8 DEF WeightWalk
  <2> QED
    BY <2>1, <2>2, <2>3
<1>9. {} \in good
  <2>1. Fraction(0, 1) \in Fractions /\ Near(Fraction(0, 1), Fraction(0, 1), 0)
    BY DEF Fraction, Fractions, Near
  <2> QED
    BY <1>7, <2>1
<1>10. ASSUME NEW s \in SUBSET S, s # {}, Fits(s \ {picked(s)})
       PROVE  Fits(s)
  <2> DEFINE c == picked(s)
             a == A[s \ {c}]
             b == B[s \ {c}]
             v == W[s \ {c}]
             n == normalized(c).n
             d == normalized(c).d
             h == hundredths(normalized(c))
             w == masters[c].weight
  <2>1. c \in S
    BY <1>6, <1>10
  <2>2. /\ normalized(c) \in Fractions /\ w \in Nat
        /\ rounded(c).n = h /\ rounded(c).d = 100
    BY <2>1, RoundedTyped DEF S
  <2>3. /\ n \in Nat /\ d \in Nat \ {0} /\ h \in Nat
        /\ 2 * (d * h) <= 200 * n + d /\ 200 * n + d < 2 * (d * h) + 2 * d
    BY <2>2, Rounding DEF Fractions
  <2>4. a \in Fractions /\ b \in Fractions /\ v \in Nat /\ Near(a, b, v)
    BY <1>10
  <2>5. /\ a.n \in Nat /\ a.d \in Nat \ {0} /\ b.n \in Nat /\ b.d \in Nat \ {0}
        /\ 200 * (a.n * b.d - b.n * a.d) <= v * (a.d * b.d)
        /\ 200 * (b.n * a.d - a.n * b.d) <= v * (a.d * b.d)
    BY <2>4 DEF Fractions, Near
  <2>6. /\ A[s] = plus(Fraction(n * w, d), a) /\ B[s] = plus(Fraction(h * w, 100), b)
        /\ W[s] = w + v
    BY <1>8, <1>10, <2>2
  <2> HIDE DEF a, b, v, n, d, h, w, c
  <2>7. /\ A[s].n = (n * w) * a.d + a.n * d /\ A[s].d = d * a.d
        /\ B[s].n = (h * w) * b.d + b.n * 100 /\ B[s].d = 100 * b.d
    BY <2>6 DEF plus, Fraction
  <2>8. A[s] \in Fractions /\ B[s] \in Fractions /\ W[s] \in Nat
    <3>1. /\ (n * w) * a.d + a.n * d \in Nat /\ d * a.d \in Nat \ {0}
          /\ (h * w) * b.d + b.n * 100 \in Nat /\ 100 * b.d \in Nat \ {0}
      BY <2>2, <2>3, <2>5
    <3>2. /\ A[s] = Fraction((n * w) * a.d + a.n * d, d * a.d)
          /\ B[s] = Fraction((h * w) * b.d + b.n * 100, 100 * b.d)
      BY <2>6 DEF plus, Fraction
    <3> QED
      BY <2>2, <2>4, <2>6, <3>1, <3>2 DEF Fraction, Fractions
  <2>9. Near(A[s], B[s], W[s])
    <3> DEFINE an == a.n
               ad == a.d
               bn == b.n
               bd == b.d
               an2 == (n * w) * ad + an * d
               ad2 == d * ad
               bn2 == (h * w) * bd + bn * 100
               bd2 == 100 * bd
    <3>1. /\ an \in Nat /\ ad \in Nat \ {0} /\ bn \in Nat /\ bd \in Nat \ {0}
          /\ 200 * (an * bd - bn * ad) <= v * (ad * bd)
          /\ 200 * (bn * ad - an * bd) <= v * (ad * bd)
      BY <2>5
    <3> HIDE DEF an, ad, bn, bd
    <3>2. /\ 200 * (an2 * bd2 - bn2 * ad2) <= (w + v) * (ad2 * bd2)
          /\ 200 * (bn2 * ad2 - an2 * bd2) <= (w + v) * (ad2 * bd2)
      <4>1. w \in Nat /\ v \in Nat
        BY <2>2, <2>4
      <4> QED
        BY ONLY <2>3, <3>1, <4>1, NearStep
    <3> QED
      BY <2>6, <2>7, <3>2 DEF Near, an, ad, bn, bd
  <2> QED
    BY <2>8, <2>9
<1>11. \A s \in SUBSET S : s \in good
  <2>1. \A s \in SUBSET S : pick[s] = picked(s)
    OBVIOUS
  <2> HIDE DEF pick
  <2>2. Picks(S, pick)
    BY <1>6, <2>1 DEF Picks
  <2>3. Climbs(S, pick, good)
    BY <1>10, <2>1 DEF Climbs
  <2> HIDE DEF good
  <2> QED
    BY <1>1, <1>9, <2>2, <2>3, SubsetsReached
<1>12. Fits(S)
  BY <1>11
<1> QED
  BY <1>5, <1>12 DEF S

LEMMA Dashboards ==
  ASSUME ValueInv
  PROVE  DashboardsAgree
<1> SUFFICES ASSUME \A c \in Scored : masters[c].active
             PROVE  /\ hundredths(summaryScore) - hundredths(unitScore) \in {-1, 0, 1}
                    /\ Scored # {} => seriesBand = classifyScore(unitScore)
  BY DEF DashboardsAgree
<1>1. {c \in Scored : counted(c)} = Scored
  BY DEF counted
<1>2. /\ summaryScore = ratio(weighted(Scored, normalized), totalWeight(Scored))
      /\ unitScore = ratio(weighted(Scored, rounded), totalWeight(Scored))
  BY <1>1 DEF summaryScore, unitScore
<1>3. hundredths(summaryScore) - hundredths(unitScore) \in {-1, 0, 1}
  BY <1>2, SumsNear, NearShown
<1> QED
  BY <1>3 DEF seriesBand

-----------------------------------------------------------------------------
(* The records together                                                    *)
RecordsInv == SignInInv /\ SnapshotInv /\ AssessInv /\ KpiInv /\ KpiPageInv

(* A step of the records is one of each component, or leaves it alone.     *)
LEMMA StepOfEach ==
  ASSUME [RecordsNext]_recordVars
  PROVE  /\ [SignInNext]_signInVars /\ [SnapshotNext]_snapshotVars /\ [AssessNext]_assessVars
         /\ [KpiNext]_kpiVars /\ [KpiPageNext]_pageVars /\ part' = part
BY DEF RecordsNext, recordVars

LEMMA RecordsStart == RecordsInit => RecordsInv
BY SignInStarts, SnapshotStarts, AssessStarts, KpiStarts, KpiPageStarts DEF RecordsInit, RecordsInv

LEMMA RecordsStep == RecordsInv /\ [RecordsNext]_recordVars => RecordsInv'
<1> SUFFICES ASSUME RecordsInv, [RecordsNext]_recordVars PROVE RecordsInv'
  OBVIOUS
<1> USE DEF RecordsInv
<1>1. /\ [SignInNext]_signInVars /\ [SnapshotNext]_snapshotVars /\ [AssessNext]_assessVars
      /\ [KpiNext]_kpiVars /\ [KpiPageNext]_pageVars
  BY StepOfEach
<1>2. SignInInv'
  BY <1>1, AccountStep, TrustStep, SessionStep DEF SignInInv
<1>3. SnapshotInv'
  BY <1>1, SnapshotStoreStep, SnapshotPageStep DEF SnapshotInv
<1>4. AssessInv'
  BY <1>1, AssessStep
<1>5. KpiInv'
  BY <1>1, KpiValueStep, KpiRuleStep DEF KpiInv
<1>6. KpiPageInv'
  BY <1>1, KpiPageStep
<1> QED
  BY <1>2, <1>3, <1>4, <1>5, <1>6

(* However many clients try, guess, restart and recover at once, a lockout *)
(* and a challenge count every wrong guess, a trusted device does not      *)
(* outlive a recovery, and a refresh token continues a session once.       *)
THEOREM SignInIsSafe == RecordsSpec => []SignInHolds
<1>1. RecordsInv => SignInHolds
  BY SignInImplies DEF RecordsInv
<1> QED
  BY <1>1, RecordsStart, RecordsStep, PTL DEF RecordsSpec

(* Sealed reports carry the text they were sealed with, forms belong to    *)
(* the issuance shown, one scoring rule is in force and the panes of the   *)
(* KPI page show its selection, but for the races the properties name.     *)
THEOREM RecordsFit == RecordsSpec => []RecordsHold
<1>1. RecordsInv => RecordsHold
  BY SnapshotImplies, AssessImplies, KpiImplies, KpiPageImplies DEF RecordsInv, RecordsHold
<1> QED
  BY <1>1, RecordsStart, RecordsStep, PTL DEF RecordsSpec

(* What was approved, assessed or locked changes only through a request    *)
(* that had read it before.                                                *)
THEOREM KeptUnlessReadBefore == RecordsSpec => RecordsKept
<1> DEFINE Kept == ApprovedIsKept /\ SecondRowOnlyFromRace /\ LockedStays
<1>1. RecordsInv /\ [RecordsNext]_recordVars => Kept
  BY StepOfEach, SnapshotKeeps, AssessKeeps, KpiKeeps DEF RecordsInv
<1>2. RecordsInv /\ [RecordsNext]_recordVars => [Kept]_recordVars
  BY <1>1
<1> QED
  BY <1>2, RecordsStart, RecordsStep, PTL DEF RecordsSpec, RecordsKept

(* However rows are saved over one another, what the reports and the       *)
(* dashboards say of the same records agrees.                              *)
THEOREM ReportsSayTheSame == RecordsSpec => []ReportsAgree
<1>1. RecordsInv => ReportsAgree
  BY RegisterAgrees, SourcesCover, Dashboards, FullScore, Unbanded
  DEF RecordsInv, AssessInv, KpiInv, ReportsAgree
<1> QED
  BY <1>1, RecordsStart, RecordsStep, PTL DEF RecordsSpec
=============================================================================
