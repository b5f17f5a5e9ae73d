------------------------------- MODULE SignIn -------------------------------
(***************************************************************************)
(* Signing in to one account: challenges by e-mailed code with their       *)
(* failure counters, the lock after repeated failures, recovery by an      *)
(* administrator, trusted devices, and the sessions whose refresh tokens   *)
(* are exchanged for new ones.                                             *)
(*                                                                         *)
(* Code issue, code check, recovery and the storing of a trusted device    *)
(* are transactions that lock the user row; between them, and in a token   *)
(* refresh, the requests of several clients interleave.  An edit of the    *)
(* account (profile, password reset, deactivation) reads the whole row and *)
(* saves it later without the lock.  scope bounds what a behaviour holds:  *)
(* the challenges without such edits, with them, or the life of the        *)
(* sessions once given out.                                                *)
(***************************************************************************)
EXTENDS Integers, FiniteSets, Sequences

CONSTANTS Clients,      \* browsers signing in to the account
          MaxAttempts,  \* failures that lock the account (9)
          MaxChallenge, \* failures that end a challenge (3)
          MaxCodes, MaxVerified, MaxSessions, MaxUnlocks, MaxEdits  \* bounds

ASSUME SignInAssumption ==
  /\ MaxAttempts \in Nat \ {0} /\ MaxChallenge \in Nat \ {0}
  /\ MaxCodes \in Nat /\ MaxVerified \in Nat /\ MaxUnlocks \in Nat

VARIABLES
  acct,     \* columns of the user row: active and the mfa* columns
  inbox,    \* codes that reached the owner by e-mail
  devs,     \* trusted devices: [client, epoch]
  call,     \* request in progress of each client
  edit,     \* edit in progress, with the row it read
  recovery, \* the recovery version an administrator looks at
  sessions, \* sessions given out: the session each continues, 0 for a sign-in
  spent,    \* token_blacklist
  ended,    \* sessions whose entry in token_blacklist was made by logout
  codes, verifications, unlocks, edits,   \* counters
  wrong,    \* failures since the last success, recovery or end of a lock
  wrongHere,\* failures since the last code that was not a resent one
  scope
signInVars == <<acct, inbox, devs, call, edit, recovery, sessions, spent, ended, codes, verifications,
                unlocks, edits, wrong, wrongHere, scope>>
mfaGhosts == <<wrong, wrongHere>>

Nobody == [at |-> "none"]
NoCode == 0

\* The user row: mfaCode, the age of the code (in the resend cooldown, usable,
\* expired), mfaAttempts, mfaChallengeAttempts, mfaLockedUntil (null, in the
\* future, in the past) and mfaLastVerifiedAt as the number of a verification.
Account == [active : BOOLEAN, code : 0..MaxCodes, age : {"new", "live", "old"},
            att : 0..MaxAttempts, ch : 0..MaxChallenge, lock : {"null", "held", "past"},
            ver : 0..MaxVerified]

----------------------------------------------------------------------------
\* A code issued after a lock has run out starts from zero.
forgive(a) == IF a.lock = "past" THEN [a EXCEPT !.att = 0, !.lock = "null"] ELSE a

\* updateMfaCode for a sign-in
newChallenge(a) == [forgive(a) EXCEPT !.code = codes + 1, !.age = "new", !.ch = 0]

\* Mutant: a resent code starts a new count
resentAfresh(a) == [forgive(a) EXCEPT !.code = codes + 1, !.age = "new", !.ch = 0]

\* updateMfaCode for a resend
resent(a) == [forgive(a) EXCEPT !.code = codes + 1, !.age = "new"]

Issue(a) ==
  /\ codes < MaxCodes /\ acct' = a /\ codes' = codes + 1
  /\ inbox' \in {inbox, inbox \cup {codes + 1}}  \* the e-mail may fail: the code stays valid

\* login with the right password and no active trusted device, googleLogin, and
\* sendMfaCode for someone signed in already.
Login(c) ==
  /\ call[c] = Nobody /\ acct.active /\ acct.lock # "held"
  /\ Issue(newChallenge(acct))
  /\ wrongHere' = 0 /\ wrong' = IF acct.lock = "past" THEN 0 ELSE wrong
  /\ UNCHANGED <<devs, call, edit, recovery, sessions, spent, ended, verifications, unlocks, edits, scope>>

\* A sign-in from a trusted device needs no code.
LoginTrusted(c) ==
  /\ call[c] = Nobody /\ acct.active /\ acct.lock # "held" /\ \E d \in devs : d.client = c
  /\ Len(sessions) < MaxSessions /\ sessions' = Append(sessions, 0)
  /\ UNCHANGED <<acct, inbox, devs, call, edit, recovery, spent, ended, codes, verifications, unlocks,
                 edits, mfaGhosts, scope>>

\* resendMfaCode: only for a usable code whose cooldown is over.
Resend(c) ==
  /\ call[c] = Nobody /\ acct.active /\ acct.lock # "held" /\ acct.code # NoCode /\ acct.age = "live"
  /\ Issue(resent(acct))
  /\ UNCHANGED <<devs, call, edit, recovery, sessions, spent, ended, verifications, unlocks, edits,
                 mfaGhosts, scope>>

Checkable == acct.active /\ acct.lock # "held" /\ acct.code # NoCode /\ acct.age # "old"

\* The row after a wrong code.
failure(a) ==
  LET att == (IF a.lock = "null" THEN a.att ELSE 0) + 1
      ch == (IF a.lock = "null" THEN a.ch ELSE 0) + 1
      locked == att >= MaxAttempts
  IN  [a EXCEPT !.att = att, !.ch = ch, !.lock = IF locked THEN "held" ELSE "null",
                !.code = IF locked \/ ch >= MaxChallenge THEN NoCode ELSE a.code]

\* consumeMfaChallenge with a wrong code
VerifyWrong(c) ==
  /\ call[c] = Nobody /\ Checkable
  /\ acct' = failure(acct) /\ wrong' = wrong + 1 /\ wrongHere' = wrongHere + 1
  /\ UNCHANGED <<inbox, devs, call, edit, recovery, sessions, spent, ended, codes, verifications, unlocks,
                 edits, scope>>

\* consumeMfaChallenge with the code last sent
VerifyRight(c) ==
  /\ call[c] = Nobody /\ Checkable /\ acct.code \in inbox /\ verifications < MaxVerified
  /\ acct' = [acct EXCEPT !.code = NoCode, !.ver = verifications + 1, !.att = 0, !.ch = 0, !.lock = "null"]
  /\ verifications' = verifications + 1
  /\ wrong' = 0 /\ wrongHere' = 0
  /\ \E remember \in BOOLEAN : call' = [call EXCEPT ![c] = [at |-> "signed", remember |-> remember]]
  /\ UNCHANGED <<inbox, devs, edit, recovery, sessions, spent, ended, codes, unlocks, edits, scope>>

\* verifyMfaCode reads the user again and gives out the session.
SignedIn(c) ==
  /\ call[c].at = "signed"
  /\ IF acct.active /\ Len(sessions) < MaxSessions
     THEN /\ sessions' = Append(sessions, 0)
          /\ call' = [call EXCEPT ![c] = IF @.remember THEN [at |-> "device", epoch |-> unlocks, ver |-> acct.ver]
                                         ELSE Nobody]
     ELSE sessions' = sessions /\ call' = [call EXCEPT ![c] = Nobody]
  /\ UNCHANGED <<acct, inbox, devs, edit, recovery, spent, ended, codes, verifications, unlocks, edits,
                 mfaGhosts, scope>>

\* The columns behind the recovery version; updatedAt, which refuses more, is left out.
recoveryVersion(a) == <<a.code, a.att, a.ch, a.lock = "null">>

recoveryRequired(a) == a.att > 0 \/ a.ch > 0 \/ a.lock = "held"

\* What addTrustedDevice asks of the row under its lock.
stillVerified(a, ver) ==
  a.active /\ ver # 0 /\ a.ver = ver /\ ~recoveryRequired(a) /\ a.code = NoCode

\* addTrustedDevice
TrustDevice(c) ==
  /\ call[c].at = "device"
  /\ devs' = IF stillVerified(acct, call[c].ver)
             THEN {d \in devs : d.client # c} \cup {[client |-> c, epoch |-> call[c].epoch]} ELSE devs
  /\ call' = [call EXCEPT ![c] = Nobody]
  /\ UNCHANGED <<acct, inbox, edit, recovery, sessions, spent, ended, codes, verifications, unlocks, edits,
                 mfaGhosts, scope>>

----------------------------------------------------------------------------
(* Recovery and time *)
\* The administrator sees the account in the user list.
ReviewAccount ==
  /\ recovery = Nobody /\ recoveryRequired(acct)
  /\ recovery' = [at |-> "seen", version |-> recoveryVersion(acct)]
  /\ UNCHANGED <<acct, inbox, devs, call, edit, sessions, spent, ended, codes, verifications, unlocks, edits,
                 mfaGhosts, scope>>

\* unlockMfa: refused when the row changed since it was reviewed.
UnlockMfa ==
  /\ recovery.at = "seen" /\ recovery' = Nobody
  /\ IF acct.active /\ recoveryRequired(acct) /\ recovery.version = recoveryVersion(acct) /\ unlocks < MaxUnlocks
     THEN /\ acct' = [acct EXCEPT !.code = NoCode, !.ver = 0, !.att = 0, !.ch = 0, !.lock = "null"]
          /\ devs' = {} /\ unlocks' = unlocks + 1 /\ wrong' = 0 /\ wrongHere' = 0
     ELSE UNCHANGED <<acct, devs, unlocks, mfaGhosts>>
  /\ UNCHANGED <<inbox, call, edit, sessions, spent, ended, codes, verifications, edits, scope>>

\* The resend cooldown, the code's 15 minutes and the lock run out.
Tick ==
  /\ \/ acct.code # NoCode /\ acct.age # "old"
        /\ acct' = [acct EXCEPT !.age = IF acct.age = "new" THEN "live" ELSE "old"]
     \/ acct.lock = "held" /\ acct' = [acct EXCEPT !.lock = "past"]
  /\ UNCHANGED <<inbox, devs, call, edit, recovery, sessions, spent, ended, codes, verifications, unlocks,
                 edits, mfaGhosts, scope>>

DeviceExpires ==
  /\ \E d \in devs : devs' = devs \ {d}
  /\ UNCHANGED <<acct, inbox, call, edit, recovery, sessions, spent, ended, codes, verifications, unlocks,
                 edits, mfaGhosts, scope>>

\* update, remove and resetPassword read the row ...
EditRead ==
  /\ scope = "edits" /\ edit = Nobody /\ edits < MaxEdits /\ edits' = edits + 1
  /\ \E a \in BOOLEAN : edit' = [at |-> "read", row |-> [acct EXCEPT !.active = a]]
  /\ UNCHANGED <<acct, inbox, devs, call, recovery, sessions, spent, ended, codes, verifications, unlocks,
                 mfaGhosts, scope>>

\* ... and save every column of it.
EditSave ==
  /\ edit.at = "read" /\ acct' = edit.row /\ edit' = Nobody
  /\ UNCHANGED <<inbox, devs, call, recovery, sessions, spent, ended, codes, verifications, unlocks, edits,
                 mfaGhosts, scope>>

\* Deactivation or reactivation by itself.
SetActive ==
  /\ scope # "edits" /\ edits < MaxEdits /\ edits' = edits + 1
  /\ acct' = [acct EXCEPT !.active = ~acct.active]
  /\ UNCHANGED <<inbox, devs, call, edit, recovery, sessions, spent, ended, codes, verifications, unlocks,
                 mfaGhosts, scope>>

----------------------------------------------------------------------------
(* Sessions *)
\* refresh: the token is not revoked and the account is active ...
RefreshCheck(c) ==
  /\ call[c] = Nobody /\ acct.active
  /\ \E s \in DOMAIN sessions \ spent : call' = [call EXCEPT ![c] = [at |-> "refresh", s |-> s]]
  /\ UNCHANGED <<acct, inbox, devs, edit, recovery, sessions, spent, ended, codes, verifications, unlocks,
                 edits, mfaGhosts, scope>>

\* The unique index on token_jti.
storeToken(s) == s \notin spent

\* ... new tokens are signed, and given out if the old one could be revoked.
RefreshStore(c) ==
  /\ call[c].at = "refresh" /\ call' = [call EXCEPT ![c] = Nobody]
  /\ IF storeToken(call[c].s) /\ Len(sessions) < MaxSessions
     THEN spent' = spent \cup {call[c].s} /\ sessions' = Append(sessions, call[c].s)
     ELSE UNCHANGED <<spent, sessions>>
  /\ UNCHANGED <<acct, inbox, devs, edit, recovery, ended, codes, verifications, unlocks, edits, mfaGhosts, scope>>

\* logout: a failure to store the token is ignored.
Logout(c) ==
  /\ call[c] = Nobody
  /\ \E s \in DOMAIN sessions :
       /\ spent' = spent \cup {s}
       /\ ended' = IF s \in spent THEN ended ELSE ended \cup {s}
  /\ UNCHANGED <<acct, inbox, devs, call, edit, recovery, sessions, codes, verifications, unlocks, edits,
                 mfaGhosts, scope>>

----------------------------------------------------------------------------
SignInInit ==
  /\ scope \in {"challenges", "edits", "sessions"}
  /\ acct = [active |-> TRUE, code |-> NoCode, age |-> "new", att |-> 0, ch |-> 0, lock |-> "null", ver |-> 0]
  /\ inbox = {} /\ devs = {} /\ call = [c \in Clients |-> Nobody] /\ edit = Nobody /\ recovery = Nobody
  /\ sessions = (IF scope = "sessions" THEN <<0, 0>> ELSE <<>>) /\ spent = {} /\ ended = {}
  /\ codes = 0 /\ verifications = 0 /\ unlocks = 0 /\ edits = 0 /\ wrong = 0 /\ wrongHere = 0

SignInNext ==
  \/ scope # "sessions" /\ \E c \in Clients :
       \/ Login(c) \/ LoginTrusted(c) \/ Resend(c) \/ VerifyWrong(c) \/ VerifyRight(c) \/ SignedIn(c)
       \/ TrustDevice(c)
  \/ scope = "sessions" /\ \E c \in Clients : RefreshCheck(c) \/ RefreshStore(c) \/ Logout(c)
  \/ ReviewAccount \/ UnlockMfa \/ Tick \/ DeviceExpires \/ EditRead \/ EditSave \/ SetActive

----------------------------------------------------------------------------
(* Properties *)
\* The counters stay within their limits, and a code that can still be used has
\* failures left in its challenge and in the account.
SignInTypeOK ==
  /\ acct \in Account
  /\ (scope # "edits" /\ acct.code # NoCode) => acct.ch < MaxChallenge /\ acct.lock # "held"

\* While no edit of the account overlaps, however sign-ins, resends, checks and
\* recoveries of several clients interleave: MaxChallenge failures end what one
\* sign-in started, and MaxAttempts in all lock the account.
GuessesLimited == scope # "edits" => wrong <= MaxAttempts /\ wrongHere <= MaxChallenge

\* While no edit overlaps, recovery leaves no trusted device behind: the
\* verification a stored device rests on came after the last recovery, also
\* when the device is stored later than the recovery.
NoTrustAcrossRecovery == scope # "edits" => \A d \in devs : d.epoch = unlocks

\* A session is continued at most once, and never once logout ended it, even
\* when a refresh checked the token before and stores it after.
ContinuedOnce ==
  /\ \A s, t \in DOMAIN sessions : sessions[s] = sessions[t] /\ sessions[s] # 0 => s = t
  /\ \A s \in DOMAIN sessions : sessions[s] \notin ended

\* Codes, devices and tokens give no more than one sign-in earned.
SignInHolds == SignInTypeOK /\ GuessesLimited /\ NoTrustAcrossRecovery /\ ContinuedOnce
=============================================================================
