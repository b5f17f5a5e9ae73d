---------------------------- MODULE LiveUpdates ----------------------------
(***************************************************************************)
(* Live updates of one browser tab: the one EventSource that all mounted   *)
(* components share, with its connection tickets, reconnect timer and      *)
(* watchdog, and the server that announces every change of the data to the *)
(* streams subscribed at that moment, directly or over the event bus from  *)
(* another service.                                                        *)
(*                                                                         *)
(* A connection attempt is numbered by connectionGeneration; it makes at   *)
(* most one EventSource, so the source has the same number.  The network   *)
(* may refuse a ticket, break a stream or let it go silent, at most        *)
(* MaxFaults times; what the user and the other tabs do is bounded by      *)
(* MaxMoves.                                                               *)
(***************************************************************************)
EXTENDS Integers, FiniteSets

CONSTANTS MaxFaults, MaxMoves, MaxVersion  \* bounds
ASSUME LiveAssumption == MaxFaults \in Nat /\ MaxMoves \in Nat /\ MaxVersion \in Nat

\* Every generation is caused by a fault or a move.
Gens == 1..(MaxFaults + MaxMoves + 1)

VARIABLES
  mounted,    \* activeListeners is not empty
  out,        \* "no", "flagged" (another tab signed out, not yet told), "yes"
  visible,    \* document.visibilityState
  generation, \* connectionGeneration
  master,     \* masterEventSource, 0 for null
  keyed,      \* currentAuthKey is set
  attempts,   \* attempts waiting for their ticket
  promise,    \* connectionPromise, 0 for null
  streams,    \* what became of each attempt's EventSource
  reconnect,  \* reconnectTimer is set
  watchdog,   \* the source whose heartbeatTimer is set, 0 for none
  queue,      \* sources with an event under way
  version,    \* the data the server has
  unsent,     \* a change is saved and not yet emitted
  bus,        \* an event is on its way from another service
  busLost,    \* the event bus dropped one
  due,        \* the page owes itself a refetch
  seen,       \* the data the page shows
  faults, moves
connVars == <<generation, master, keyed, attempts, promise, streams, reconnect, watchdog, queue>>
dataVars == <<version, unsent, bus, busLost>>
userVars == <<mounted, out, visible>>
liveVars == <<connVars, dataVars, userVars, due, seen, faults, moves>>

canRecoverSession == out = "no"

\* "none" is also what is left of a source that was closed.  "subscribed" is the
\* server's side of a stream whose onopen has not run; "lost" is retried by the browser, "shut" is not; "silent" looks open.
StreamState == {"none", "connecting", "subscribed", "open", "silent", "lost", "shut"}
Listening == {"subscribed", "open"}

----------------------------------------------------------------------------
(* The shared connection *)
\* Whether connectSse keeps what is there when it is not forced.
hasConnection ==
  keyed /\ (promise # 0 \/ (master # 0 /\ streams[master] \notin {"none", "shut"}))

close(ss, g) == IF g = 0 THEN ss ELSE [ss EXCEPT ![g] = "none"]

\* connectSse past its early returns: the old source is closed, a ticket asked for.
NewAttempt ==
  /\ generation' = generation + 1
  /\ streams' = close(streams, master) /\ queue' = queue \ {master}
  /\ watchdog' = 0 /\ reconnect' = FALSE /\ keyed' = TRUE
  /\ attempts' = attempts \cup {generation + 1} /\ promise' = generation + 1
  /\ UNCHANGED master

\* connectSse
connectSse(listening, force) ==
  IF ~listening \/ ~canRecoverSession \/ (~force /\ hasConnection) THEN UNCHANGED connVars ELSE NewAttempt

\* disconnectSse
disconnectSse ==
  /\ generation' = generation + 1
  /\ streams' = close(streams, master) /\ queue' = queue \ {master} /\ master' = 0
  /\ watchdog' = 0 /\ reconnect' = FALSE /\ keyed' = FALSE /\ promise' = 0
  /\ UNCHANGED attempts

\* Mutant: nothing is scheduled
notScheduled == reconnect

\* scheduleReconnect
scheduled == IF mounted /\ canRecoverSession THEN TRUE ELSE reconnect

\* The component unmounted, signed out or reconnected while the ticket was loading.
overtaken(g) == g # generation \/ ~keyed \/ ~mounted

\* The ticket arrived.
TicketArrives(g) ==
  /\ g \in attempts /\ attempts' = attempts \ {g}
  /\ promise' = IF promise = g THEN 0 ELSE promise
  /\ IF overtaken(g) THEN UNCHANGED <<streams, master, watchdog>>
     ELSE streams' = [streams EXCEPT ![g] = "connecting"] /\ master' = g /\ watchdog' = g
  /\ UNCHANGED <<generation, keyed, reconnect, queue, dataVars, userVars, due, seen, faults, moves>>

\* It was refused, timed out or cancelled.
TicketFails(g) ==
  /\ g \in attempts /\ attempts' = attempts \ {g}
  /\ promise' = IF promise = g THEN 0 ELSE promise
  /\ IF g = generation /\ keyed
     THEN faults < MaxFaults /\ faults' = faults + 1 /\ keyed' = FALSE /\ master' = 0 /\ reconnect' = scheduled
     ELSE UNCHANGED <<faults, keyed, master, reconnect>>
  /\ UNCHANGED <<generation, streams, watchdog, queue, dataVars, userVars, due, seen, moves>>

\* setTimeout of scheduleReconnect
ReconnectTimer ==
  /\ reconnect
  /\ IF mounted /\ canRecoverSession THEN NewAttempt
     ELSE reconnect' = FALSE
          /\ UNCHANGED <<generation, master, keyed, attempts, promise, streams, watchdog, queue>>
  /\ UNCHANGED <<dataVars, userVars, due, seen, faults, moves>>

\* setTimeout of armWatchdog: heartbeats keep it from running while a stream is
\* alive (a connection that takes as long counts as a fault), and a hidden tab
\* only sets it again.
Watchdog ==
  /\ watchdog # 0 /\ streams[watchdog] \in {"silent", "lost", "shut"} /\ visible
  /\ IF watchdog = generation /\ master = watchdog THEN connectSse(mounted, TRUE)
     ELSE watchdog' = 0 /\ UNCHANGED <<generation, master, keyed, attempts, promise, streams, reconnect, queue>>
  /\ UNCHANGED <<dataVars, userVars, due, seen, faults, moves>>

----------------------------------------------------------------------------
(* The stream *)
\* subscribeToEvents: from here on events reach the stream.
Subscribe(g) ==
  /\ streams[g] \in {"connecting", "lost"}
  /\ streams' = [streams EXCEPT ![g] = "subscribed"]
  /\ UNCHANGED <<generation, master, keyed, attempts, promise, reconnect, watchdog, queue, dataVars, userVars,
                 due, seen, faults, moves>>

\* Mutant: a new stream waits for the next event
noReconciliation == due

\* Every listener is told to refetch when a stream opens.
reconciliation == TRUE

\* source.onopen
OnOpen(g) ==
  /\ streams[g] = "subscribed" /\ streams' = [streams EXCEPT ![g] = "open"]
  /\ IF master = g /\ generation = g THEN reconnect' = FALSE /\ watchdog' = g /\ due' = reconciliation
     ELSE UNCHANGED <<reconnect, watchdog, due>>
  /\ UNCHANGED <<generation, master, keyed, attempts, promise, queue, dataVars, userVars, seen, faults, moves>>

\* source.onmessage
OnMessage(g) ==
  /\ g \in queue /\ streams[g] = "open" /\ queue' = queue \ {g}
  /\ IF master = g THEN watchdog' = g /\ due' = TRUE ELSE UNCHANGED <<watchdog, due>>
  /\ UNCHANGED <<generation, master, keyed, attempts, promise, streams, reconnect, dataVars, userVars,
                 seen, faults, moves>>

\* source.onerror, with the browser going to retry or giving up: the ticket
\* expired or the server closed the stream.
OnError(g) ==
  /\ streams[g] \in {"connecting", "subscribed", "open", "silent", "lost"} /\ faults < MaxFaults
  /\ \E s \in {"lost", "shut"} : streams' = [streams EXCEPT ![g] = s]
  /\ faults' = faults + 1 /\ queue' = queue \ {g}
  /\ reconnect' = IF master = g THEN scheduled ELSE reconnect
  /\ UNCHANGED <<generation, master, keyed, attempts, promise, watchdog, dataVars, userVars, due, seen, moves>>

\* The connection goes silent: neither side is told.
Silent(g) ==
  /\ streams[g] \in Listening /\ faults < MaxFaults /\ faults' = faults + 1
  /\ streams' = [streams EXCEPT ![g] = "silent"] /\ queue' = queue \ {g}
  /\ UNCHANGED <<generation, master, keyed, attempts, promise, reconnect, watchdog, dataVars, userVars,
                 due, seen, moves>>

----------------------------------------------------------------------------
(* The server *)
Announce == queue' = queue \cup {g \in Gens : streams[g] \in Listening}

\* A request saves a change ...
Save ==
  /\ version < MaxVersion /\ ~unsent /\ version' = version + 1 /\ unsent' = TRUE
  /\ UNCHANGED <<connVars, userVars, bus, busLost, due, seen, faults, moves>>

\* ... and emits it, to its own streams or over the bus to another service's.
Emit ==
  /\ unsent /\ unsent' = FALSE
  /\ \/ Announce /\ UNCHANGED <<bus, busLost>>
     \/ bus' = TRUE /\ UNCHANGED <<queue, busLost>>
     \/ busLost' = TRUE /\ UNCHANGED <<queue, bus>>    \* the bus is disabled, or publishing failed
  /\ UNCHANGED <<generation, master, keyed, attempts, promise, streams, reconnect, watchdog, userVars,
                 version, due, seen, faults, moves>>

\* onModuleInit: the handler of the channel
BusDelivers ==
  /\ bus /\ bus' = FALSE /\ Announce
  /\ UNCHANGED <<generation, master, keyed, attempts, promise, streams, reconnect, watchdog, userVars,
                 version, unsent, busLost, due, seen, faults, moves>>

\* A component's callback fetches what it shows again.
Refetch ==
  /\ due /\ mounted /\ due' = FALSE /\ seen' = version
  /\ UNCHANGED <<connVars, dataVars, userVars, faults, moves>>

----------------------------------------------------------------------------
(* The user and the other tabs *)
Moves == moves < MaxMoves /\ moves' = moves + 1 /\ UNCHANGED <<dataVars, seen, faults>>

\* A component that uses useSse mounts and loads its data.
Mount ==
  /\ Moves /\ ~mounted /\ out # "yes" /\ mounted' = TRUE /\ due' = TRUE
  /\ connectSse(TRUE, FALSE) /\ UNCHANGED <<out, visible>>

\* The last one unmounts.
Unmount ==
  /\ Moves /\ mounted /\ mounted' = FALSE /\ disconnectSse /\ UNCHANGED <<out, visible, due>>

\* visibilitychange, online and a renewed token
Revisit ==
  /\ Moves /\ visible' \in BOOLEAN /\ connectSse(mounted /\ visible', TRUE) /\ UNCHANGED <<mounted, out, due>>

\* Signing out here: the user is gone, so every listener unmounts as well.
SignOut ==
  /\ Moves /\ out # "yes" /\ out' = "yes" /\ mounted' = FALSE /\ disconnectSse /\ UNCHANGED <<visible, due>>

\* Signing out in another tab: the flag is there before the storage event.
SignOutElsewhere ==
  /\ Moves /\ out = "no" /\ out' = "flagged" /\ UNCHANGED <<mounted, visible, connVars, due>>

SignOutObserved ==
  /\ out = "flagged" /\ out' = "yes" /\ mounted' = FALSE /\ disconnectSse
  /\ UNCHANGED <<visible, dataVars, due, seen, faults, moves>>

SignInAgain ==
  /\ Moves /\ out = "yes" /\ out' = "no" /\ UNCHANGED <<mounted, visible, connVars, due>>

----------------------------------------------------------------------------
LiveInit ==
  /\ mounted = FALSE /\ out = "no" /\ visible = TRUE
  /\ generation = 0 /\ master = 0 /\ keyed = FALSE /\ attempts = {} /\ promise = 0
  /\ streams = [g \in Gens |-> "none"] /\ reconnect = FALSE /\ watchdog = 0 /\ queue = {}
  /\ version = 0 /\ unsent = FALSE /\ bus = FALSE /\ busLost = FALSE /\ due = FALSE /\ seen = 0
  /\ faults = 0 /\ moves = 0

LiveNext ==
  \/ \E g \in Gens : \/ TicketArrives(g) \/ TicketFails(g) \/ Subscribe(g) \/ OnOpen(g)
                     \/ OnMessage(g) \/ OnError(g) \/ Silent(g)
  \/ ReconnectTimer \/ Watchdog \/ Save \/ Emit \/ BusDelivers \/ Refetch
  \/ Mount \/ Unmount \/ Revisit \/ SignOut \/ SignOutElsewhere \/ SignOutObserved \/ SignInAgain

\* Answers, timers and page loads happen; faults and moves need not.  Without
\* them there are finitely many such steps, so one condition for all will do.
LiveProgress ==
  \/ \E g \in Gens : TicketArrives(g) \/ Subscribe(g) \/ OnOpen(g) \/ OnMessage(g)
  \/ ReconnectTimer \/ Watchdog \/ Emit \/ BusDelivers \/ Refetch \/ SignOutObserved
LiveFairness == WF_liveVars(LiveProgress)

----------------------------------------------------------------------------
(* Properties *)
\* The connection's variables have their types: the watchdog belongs to the
\* master source, the shared promise to an attempt still waiting.
LiveTypeOK ==
  /\ streams \in [Gens -> StreamState] /\ master \in Gens \cup {0} /\ promise \in attempts \cup {0}
  /\ out \in {"no", "flagged", "yes"} /\ watchdog \in {0, master} /\ generation \in 0..Cardinality(Gens)

\* However tickets, timers, mounts and sign-outs interleave, only the master
\* source is in use, and none once the tab unmounted its listeners or knows it
\* is signed out.
OneStream ==
  \A g \in Gens : streams[g] \notin {"none", "shut"} => g = master /\ mounted /\ out # "yes"

\* While the bus drops nothing: a page that shows an open stream and has nothing
\* left to deliver or refetch shows the data the server has, whatever was saved
\* while its streams were broken, silent or being replaced.
ShowsLatest ==
  (/\ mounted /\ master # 0 /\ ~unsent /\ ~bus /\ ~busLost /\ ~due /\ queue = {})
    => (streams[master] = "open" => seen = version)

\* A visible page of a signed-in user gets its stream back, and with it the
\* latest data, once the network holds.
StreamReturns ==
  (mounted /\ visible /\ canRecoverSession)
    ~> (master # 0 /\ streams[master] = "open") \/ ~mounted \/ ~visible \/ ~canRecoverSession

\* One stream feeds the page, and what has arrived is what the server has.
LiveHolds == LiveTypeOK /\ OneStream /\ ShowsLatest
=============================================================================
