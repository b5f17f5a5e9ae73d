--------------------------- MODULE BrowserSession ---------------------------
(***************************************************************************)
(* The session of one browser: several tabs that share a cookie jar, the   *)
(* signed-out flag in local storage and the lock around token renewal.     *)
(* Each tab verifies its session when it enters the application, on a      *)
(* heartbeat, on focus and after a failure; a request refused with 401     *)
(* renews the tokens once, together with whoever else waits, and is sent   *)
(* again.  Signing out in one tab reaches the others by a storage event.   *)
(*                                                                         *)
(* A session's tokens are numbered; the server keeps the set of numbers    *)
(* that are not revoked.  A change of recoveryGeneration makes a tab's     *)
(* verification effect and its renewal void, which is how it appears here. *)
(* The network fails at most MaxNetFaults times, and users, administrators    *)
(* and clocks act at most MaxUserMoves times.                                  *)
(***************************************************************************)
EXTENDS Integers, FiniteSets

CONSTANTS Tabs, MaxNetFaults, MaxUserMoves

VARIABLES
  tab,        \* see TabState
  flight,     \* refreshFlight of each tab
  leaving,    \* the logout request of each tab: the token it carries, 0 for none
  flag,       \* SIGNED_OUT_KEY is in local storage
  told,       \* tabs with a storage event under way
  cookie,     \* the token in the cookie jar, 0 for none
  expired,    \* the access token in the jar is past its time
  valid,      \* tokens the server accepts
  issued,     \* number of tokens given out
  orphans,    \* renewals the server has and nobody waits for
  roleChanged,\* the account has another role than the tabs know
  disturbed,  \* the session was revoked, or an accident could end it
  rejected,   \* a tab gave its session up as rejected
  netFaults, userMoves
serverVars == <<valid, issued>>
eventVars == <<disturbed, rejected, roleChanged>>
countVars == <<netFaults, userMoves>>
sessionVars == <<tab, flight, leaving, flag, told, cookie, expired, serverVars, orphans, eventVars, countVars>>

Tokens == Nat

\* place: inside the application or on the sign-in page; out: signedOut;
\* user: whose answer put a user on the screen; effect: the verification effect
\* is installed for this generation; wait: what loading and reconnecting show;
\* step: the request of verifySession or of login that is under way, sent with
\* token tok; retry: retryTimer is set.
TabState == [place : {"login", "app"}, out : BOOLEAN, user : {"none", "session", "login"}, effect : BOOLEAN,
             wait : {"no", "loading", "reconnecting"}, retry : BOOLEAN, tok : Tokens,
             step : {"none", "profile", "again", "renew", "caps", "signing", "entering"}]
NoFlight == [st |-> "none", tok |-> 0]

\* Mutant: tabs do not wait for each other
noLock == TRUE

\* navigator.locks: one renewal at a time in the browser.
lockFree == \A t \in Tabs : flight[t].st \notin {"sent", "back"}

canRecover(t) == tab[t].place = "app" /\ ~tab[t].out /\ ~flag

Verifying == {"profile", "again", "renew", "caps"}

----------------------------------------------------------------------------

\* clearLocalSession: the tab shows the sign-in page; a request of verifySession
\* that is under way is answered in vain.
cleared(s) ==
  [s EXCEPT !.place = "login", !.user = "none", !.effect = FALSE, !.wait = "no", !.retry = FALSE,
            !.step = IF s.step = "renew" THEN "none" ELSE s.step]

\* The renewal is aborted; the server may still see it.
Abort(t) ==
  /\ flight' = [flight EXCEPT ![t] = NoFlight]
  /\ orphans' = IF flight[t].st = "sent" THEN orphans \cup {flight[t].tok} ELSE orphans
  /\ disturbed' = (disturbed \/ flight[t].st = "back")

\* logout: flag, other tabs told, request sent, local state cleared.
SignOutOf(t) ==
  /\ flag' = TRUE /\ told' = told \cup (Tabs \ {t})
  /\ tab' = [tab EXCEPT ![t] = cleared([tab[t] EXCEPT !.out = TRUE])]
  /\ leaving' = [leaving EXCEPT ![t] = cookie]
  /\ Abort(t)

\* rejectSession: the same without a request, and the page is loaded anew.
RejectSession(t) ==
  /\ rejected' = (rejected \/ t \notin told) /\ flag' = TRUE /\ told' = told \cup (Tabs \ {t})
  /\ tab' = [tab EXCEPT ![t] = cleared([tab[t] EXCEPT !.out = FALSE])]

Logout(t) ==
  /\ userMoves < MaxUserMoves /\ userMoves' = userMoves + 1
  /\ tab[t].place = "app" /\ tab[t].user # "none" /\ leaving[t] = 0
  /\ SignOutOf(t)
  /\ UNCHANGED <<cookie, expired, serverVars, rejected, roleChanged, netFaults>>

\* The guard refuses an expired token; otherwise it is revoked and the answer
\* clears the cookies, whichever they are by now.
LogoutAnswer(t) ==
  /\ leaving[t] # 0 /\ leaving' = [leaving EXCEPT ![t] = 0]
  /\ IF leaving[t] \in valid /\ ~expired
     THEN /\ valid' = valid \ {leaving[t]} /\ cookie' = 0
          /\ disturbed' = (disturbed \/ cookie \notin {0, leaving[t]})
     ELSE UNCHANGED <<valid, cookie, disturbed>>
  /\ UNCHANGED <<tab, flight, flag, told, expired, issued, orphans, rejected, roleChanged, countVars>>

\* onSignOut
Observe(t) ==
  /\ t \in told /\ told' = told \ {t}
  /\ tab' = [tab EXCEPT ![t] = cleared([tab[t] EXCEPT !.out = TRUE])]
  /\ Abort(t)
  /\ UNCHANGED <<leaving, flag, cookie, expired, serverVars, rejected, roleChanged, countVars>>

----------------------------------------------------------------------------
(* Signing in *)
\* login, loginWithGoogle, verifyMfaCode: wait for the own logout, then send.
SendLogin(t) ==
  /\ tab[t].place = "login" /\ tab[t].step = "none" /\ leaving[t] = 0
  /\ userMoves < MaxUserMoves /\ userMoves' = userMoves + 1
  /\ tab' = [tab EXCEPT ![t].step = "signing"] /\ Abort(t)
  /\ UNCHANGED <<leaving, flag, told, cookie, expired, serverVars, rejected, roleChanged, netFaults>>

\* completeInteractiveSignIn
LoginAnswer(t) ==
  /\ tab[t].step = "signing"
  /\ issued' = issued + 1 /\ valid' = valid \cup {issued + 1} /\ cookie' = issued + 1 /\ expired' = FALSE
  /\ flag' = FALSE /\ roleChanged' = FALSE
  /\ tab' = [tab EXCEPT ![t] = [@ EXCEPT !.out = FALSE, !.user = "login", !.step = "entering"]]
  /\ UNCHANGED <<flight, leaving, told, orphans, rejected, countVars, disturbed>>

\* The profile and the capabilities came, or failed: the dashboard opens, and its
\* verification effect with it.
Enter(t) ==
  /\ tab[t].step = "entering"
  /\ LET ok == ~tab[t].out /\ ~flag
     IN  tab' = [tab EXCEPT ![t] = [@ EXCEPT !.place = "app", !.user = "login", !.effect = ok, !.tok = cookie,
                                             !.wait = "no", !.step = IF ok THEN "profile" ELSE "none"]]
  /\ UNCHANGED <<flight, leaving, flag, told, cookie, expired, serverVars, orphans, eventVars, countVars>>

\* A tab is opened, or reloaded, on a page of the application.
OpenApp(t) ==
  /\ tab[t].place = "login" /\ tab[t].step = "none" /\ tab[t].out = FALSE /\ leaving[t] = 0
  /\ tab' = [tab EXCEPT ![t] = [@ EXCEPT !.place = "app", !.effect = ~flag, !.tok = cookie,
                                         !.wait = IF flag THEN "no" ELSE "loading",
                                         !.step = IF flag THEN "none" ELSE "profile"]]
  /\ UNCHANGED <<flight, leaving, flag, told, cookie, expired, serverVars, orphans, eventVars, countVars>>

----------------------------------------------------------------------------

\* verifySession is void once the effect is gone or recovery not allowed.
current(t) == tab[t].effect /\ canRecover(t)

Reverify(t) == tab' = [tab EXCEPT ![t] = [@ EXCEPT !.step = "profile", !.tok = cookie, !.retry = FALSE]]

\* The effect is cleaned up: what it had under way is aborted.
CleanUp(t) ==
  /\ ~tab[t].effect /\ tab[t].step \in {"profile", "again", "caps"}
  /\ tab' = [tab EXCEPT ![t].step = "none"]
  /\ UNCHANGED <<flight, leaving, flag, told, cookie, expired, serverVars, orphans, eventVars, countVars>>

\* The heartbeat finds nothing pending.
Heartbeat(t) ==
  /\ current(t) /\ tab[t].step = "none" /\ userMoves < MaxUserMoves /\ userMoves' = userMoves + 1 /\ Reverify(t)
  /\ UNCHANGED <<flight, leaving, flag, told, cookie, expired, serverVars, orphans, eventVars, netFaults>>

\* focus and online replace the attempt that is pending.
Focus(t) ==
  /\ current(t) /\ tab[t].step \in Verifying /\ userMoves < MaxUserMoves /\ userMoves' = userMoves + 1 /\ Reverify(t)
  /\ UNCHANGED <<flight, leaving, flag, told, cookie, expired, serverVars, orphans, eventVars, netFaults>>

RetryTimer(t) ==
  /\ tab[t].retry
  /\ IF current(t) /\ tab[t].step = "none" THEN Reverify(t) ELSE tab' = [tab EXCEPT ![t].retry = FALSE]
  /\ UNCHANGED <<flight, leaving, flag, told, cookie, expired, serverVars, orphans, eventVars, countVars>>

\* The catch of verifySession, for anything but a rejected session.
outage(s) == [s EXCEPT !.step = "none", !.wait = "reconnecting", !.retry = TRUE]

\* The request fails without an answer of the server.
RequestFails(t) ==
  /\ tab[t].step \in {"profile", "again", "caps"} /\ netFaults < MaxNetFaults /\ netFaults' = netFaults + 1
  /\ tab' = [tab EXCEPT ![t] = IF current(t) THEN outage(@) ELSE [@ EXCEPT !.step = "none"]]
  /\ UNCHANGED <<flight, leaving, flag, told, cookie, expired, serverVars, orphans, eventVars, userMoves>>

accepted(t) == tab[t].tok \in valid /\ ~expired

\* getProfile is answered.
ProfileAnswer(t) ==
  /\ tab[t].step \in {"profile", "again"} /\ accepted(t)
  /\ tab' = [tab EXCEPT ![t].step = IF current(t) THEN "caps" ELSE "none"]
  /\ UNCHANGED <<flight, leaving, flag, told, cookie, expired, serverVars, orphans, eventVars, countVars>>

\* 401 for the first time: refreshAuthentication, or the renewal under way.
Unauthorized(t) ==
  /\ tab[t].step = "profile" /\ ~accepted(t)
  /\ IF canRecover(t)
     THEN /\ tab' = [tab EXCEPT ![t].step = "renew"]
          /\ flight' = IF flight[t].st = "none" THEN [flight EXCEPT ![t] = [st |-> "lock", tok |-> 0]] ELSE flight
     ELSE tab' = [tab EXCEPT ![t].step = "none"] /\ UNCHANGED flight
  /\ UNCHANGED <<leaving, flag, told, cookie, expired, serverVars, orphans, eventVars, countVars>>

\* 401 after a renewal: the session is given up.
UnauthorizedAgain(t) ==
  /\ tab[t].step = "again" /\ ~accepted(t)
  /\ IF canRecover(t) THEN RejectSession(t) /\ disturbed' = (disturbed \/ tab[t].tok # cookie \/ ~lockFree)
     ELSE tab' = [tab EXCEPT ![t].step = "none"] /\ UNCHANGED <<rejected, flag, told, disturbed>>
  /\ UNCHANGED <<flight, leaving, cookie, expired, serverVars, orphans, roleChanged, countVars>>

\* getMyCapabilities is answered: the user is shown, or signed out when the role
\* is another one.
CapsAnswer(t) ==
  /\ tab[t].step = "caps"
  /\ IF ~current(t) THEN tab' = [tab EXCEPT ![t].step = "none"] /\ UNCHANGED <<flag, told, leaving, flight, orphans, disturbed>>
     ELSE IF roleChanged /\ tab[t].user # "none" THEN SignOutOf(t)
     ELSE /\ tab' = [tab EXCEPT ![t] = [@ EXCEPT !.step = "none", !.user = "session", !.wait = "no", !.retry = FALSE]]
          /\ UNCHANGED <<flag, told, leaving, flight, orphans, disturbed>>
  /\ UNCHANGED <<cookie, expired, serverVars, rejected, roleChanged, countVars>>

----------------------------------------------------------------------------
(* Renewal *)
\* renew: nothing is sent once the tab may not recover.
SendRenewal(t) ==
  /\ flight[t].st = "lock" /\ lockFree
  /\ IF canRecover(t)
     THEN flight' = [flight EXCEPT ![t] = [st |-> "sent", tok |-> cookie]] /\ UNCHANGED tab
     ELSE /\ flight' = [flight EXCEPT ![t] = NoFlight]
          /\ tab' = [tab EXCEPT ![t].step = IF @ = "renew" THEN "none" ELSE @]
  /\ UNCHANGED <<leaving, flag, told, cookie, expired, serverVars, orphans, eventVars, countVars>>

\* refresh on the server: the token is exchanged, or refused.
ServerRenews(t) ==
  /\ flight[t].st = "sent"
  /\ IF flight[t].tok \in valid
     THEN /\ issued' = issued + 1 /\ valid' = (valid \ {flight[t].tok}) \cup {issued + 1}
          /\ flight' = [flight EXCEPT ![t] = [st |-> "back", tok |-> issued + 1]]
     ELSE flight' = [flight EXCEPT ![t] = [st |-> "back", tok |-> 0]] /\ UNCHANGED serverVars
  /\ UNCHANGED <<tab, leaving, flag, told, cookie, expired, orphans, eventVars, countVars>>

\* The answer: the browser stores the cookies whatever the tab makes of it.
Renewed(t) ==
  /\ flight[t].st = "back" /\ flight[t].tok # 0 /\ flight' = [flight EXCEPT ![t] = NoFlight]
  /\ cookie' = flight[t].tok /\ expired' = FALSE
  /\ tab' = [tab EXCEPT ![t] = IF @.step # "renew" THEN @
                               ELSE [@ EXCEPT !.tok = flight[t].tok, !.step = IF canRecover(t) THEN "again" ELSE "none"]]
  /\ UNCHANGED <<leaving, flag, told, serverVars, orphans, eventVars, countVars>>

\* The renewal was refused.
RenewalRefused(t) ==
  /\ flight[t].st = "back" /\ flight[t].tok = 0 /\ flight' = [flight EXCEPT ![t] = NoFlight]
  /\ IF canRecover(t) THEN RejectSession(t)
     ELSE tab' = [tab EXCEPT ![t].step = IF @ = "renew" THEN "none" ELSE @] /\ UNCHANGED <<rejected, flag, told>>
  /\ UNCHANGED <<leaving, cookie, expired, serverVars, orphans, roleChanged, countVars, disturbed>>

\* A time limit, also of the wait for the lock, or the network ends the renewal:
\* an outage, no proof of a revoked session.
RenewalFails(t) ==
  /\ flight[t].st # "none" /\ netFaults < MaxNetFaults /\ netFaults' = netFaults + 1
  /\ Abort(t)
  /\ tab' = [tab EXCEPT ![t] = IF @.step # "renew" THEN @ ELSE IF current(t) THEN outage(@) ELSE [@ EXCEPT !.step = "none"]]
  /\ UNCHANGED <<leaving, flag, told, cookie, expired, serverVars, rejected, roleChanged, userMoves>>

\* The server gets to a renewal that was given up, or never does.
OrphanRenewal ==
  /\ \E k \in orphans :
       /\ orphans' = orphans \ {k}
       /\ \/ UNCHANGED <<serverVars, disturbed>>
          \/ k \in valid /\ issued' = issued + 1 /\ valid' = (valid \ {k}) \cup {issued + 1} /\ disturbed' = TRUE
  /\ UNCHANGED <<tab, flight, leaving, flag, told, cookie, expired, rejected, roleChanged, countVars>>

\* Access tokens run out; an administrator deactivates the account or changes its role.
World ==
  /\ userMoves < MaxUserMoves /\ userMoves' = userMoves + 1
  /\ \/ /\ \A t \in Tabs : tab[t].step # "again"   \* a token outlives the request it was renewed for
        /\ expired' = TRUE /\ UNCHANGED <<valid, roleChanged, disturbed>>
     \/ valid' = {} /\ disturbed' = TRUE /\ UNCHANGED <<expired, roleChanged>>
     \/ roleChanged' = TRUE /\ UNCHANGED <<expired, valid, disturbed>>
  /\ UNCHANGED <<tab, flight, leaving, flag, told, cookie, issued, orphans, rejected, netFaults>>

----------------------------------------------------------------------------
SessionInit ==
  /\ tab = [t \in Tabs |-> [place |-> "login", out |-> FALSE, user |-> "none", effect |-> FALSE, wait |-> "no",
                            retry |-> FALSE, tok |-> 0, step |-> "none"]]
  /\ flight = [t \in Tabs |-> NoFlight] /\ leaving = [t \in Tabs |-> 0]
  /\ flag = FALSE /\ told = {} /\ cookie = 1 /\ expired = TRUE /\ valid = {1} /\ issued = 1 /\ orphans = {}
  /\ roleChanged = FALSE /\ disturbed = FALSE /\ rejected = FALSE
  /\ netFaults = 0 /\ userMoves = 0

TabStep(t) ==
  \/ LogoutAnswer(t) \/ Observe(t) \/ CleanUp(t) \/ LoginAnswer(t) \/ Enter(t) \/ RetryTimer(t) \/ ProfileAnswer(t)
  \/ Unauthorized(t) \/ UnauthorizedAgain(t) \/ CapsAnswer(t) \/ SendRenewal(t) \/ ServerRenews(t)
  \/ Renewed(t) \/ RenewalRefused(t)

SessionNext ==
  \/ \E t \in Tabs : \/ TabStep(t) \/ Logout(t) \/ SendLogin(t) \/ OpenApp(t) \/ Heartbeat(t) \/ Focus(t)
                     \/ RequestFails(t) \/ RenewalFails(t)
  \/ OrphanRenewal \/ World

\* Requests are answered and timers run.
SessionFairness == \A t \in Tabs : WF_sessionVars(TabStep(t))

----------------------------------------------------------------------------
(* Properties *)
\* The variables have their types, and a tab waits for a renewal only while one
\* is under way.
SessionTypeOK ==
  /\ tab \in [Tabs -> TabState] /\ cookie \in Tokens /\ valid \subseteq Tokens
  /\ \A t \in Tabs : tab[t].step = "renew" => flight[t].st # "none"

\* Once a tab knows that it is signed out, no answer to a verification or a
\* renewal that was under way puts the user back on its screen.  (The answer to
\* the profile request of a sign-in may.)
SignedOutStaysOut == \A t \in Tabs : tab[t].out => tab[t].user # "session"

\* A tab that no sign-out is on its way to gives up its session as rejected only
\* when it was revoked: two tabs that
\* renew at once do not spend the same token.  What can end a valid session is
\* a renewal whose answer was lost, the late answer to a logout that takes away
\* the cookies of a newer sign-in, and a renewal of another tab that overtakes
\* the request this tab repeats with the token it just got.
RejectedOnlyWhenRevoked == rejected => disturbed

\* A tab inside the application does not stay in loading or reconnecting: it
\* shows the user or it is signed out.
SessionSettles == \A t \in Tabs : (tab[t].wait # "no") ~> (tab[t].wait = "no")

\* The tabs of a browser agree on who is signed in, and lose a session only to
\* what really ended it.
SessionHolds == SessionTypeOK /\ SignedOutStaysOut /\ RejectedOnlyWhenRevoked
=============================================================================
