-------------------------- MODULE CapabilityCache --------------------------
(***************************************************************************)
(* Role capabilities between services: the table, the cache the users      *)
(* service keeps of it, and the cache another service keeps of that one    *)
(* over HTTP, behind a circuit breaker, refreshed by an event and by age.  *)
(* One role's row stands for the matrix.                                   *)
(***************************************************************************)
EXTENDS Integers, FiniteSets

CONSTANTS Flags,      \* capability flags of the role
          Admins,     \* administrators that change them
          Calls,      \* reloads of the other service in progress at a time
          NotLoaded,  \* a cache with no rows
          OpenThreshold, MaxOutages, MaxUpdates

VARIABLES
  running,   \* the services are started
  row,       \* the role_capabilities row: the flags that are set
  served,    \* cache of RoleCapabilitiesService
  writer,    \* updateOne of each administrator; onModuleInit is Boot
  cached,    \* cache of RoleCapabilitiesHttpClient
  fresh,     \* its lastLoaded is less than cacheTtlMs ago
  calling,   \* its reloads in progress
  circuit,   \* state, consecutive failures, and whether resetTimeoutMs is over
  announced, \* capabilities.updated is on its way
  crossing,  \* two changes overlapped, or one overlapped a restart
  outages, changes
capVars == <<running, row, served, writer, cached, fresh, calling, circuit, announced, crossing, outages, changes>>

Boot == "boot"
Idle == [at |-> "idle"]
Rows == SUBSET Flags

----------------------------------------------------------------------------
(* The users service *)
Busy == {w \in Admins \cup {Boot} : writer[w] # Idle}

\* updateOne reads the row ...
UpdateRead(a) ==
  /\ writer[a] = Idle /\ served # NotLoaded /\ changes < MaxUpdates /\ changes' = changes + 1
  /\ \E f \in Flags : writer' = [writer EXCEPT ![a] = [at |-> "save", row |-> IF f \in row THEN row \ {f} ELSE row \cup {f}]]
  /\ crossing' = (crossing \/ Busy # {})
  /\ UNCHANGED <<running, row, served, cached, fresh, calling, circuit, announced, outages>>

\* ... saves every flag of it ...
UpdateSave(a) ==
  /\ writer[a].at = "save" /\ row' = writer[a].row /\ writer' = [writer EXCEPT ![a] = [at |-> "reload"]]
  /\ UNCHANGED <<running, served, cached, fresh, calling, circuit, announced, crossing, outages, changes>>

\* ... and reloads: the table is read,
ReloadRead(w) ==
  /\ writer[w].at = "reload" /\ writer' = [writer EXCEPT ![w] = [at |-> "apply", row |-> row]]
  /\ UNCHANGED <<running, row, served, cached, fresh, calling, circuit, announced, crossing, outages, changes>>

loaded(w) == writer[w].row

\* the cache replaced, and the change announced if the bus takes it.
ReloadApply(w) ==
  /\ writer[w].at = "apply" /\ writer' = [writer EXCEPT ![w] = Idle]
  /\ served' = loaded(w)
  /\ IF w = Boot THEN UNCHANGED announced ELSE announced' \in {TRUE, announced}
  /\ UNCHANGED <<running, row, cached, fresh, calling, circuit, crossing, outages, changes>>

\* The services are started for the first time.
Start ==
  /\ ~running /\ running' = TRUE /\ writer' = [writer EXCEPT ![Boot] = [at |-> "reload"]]
  /\ UNCHANGED <<row, served, cached, fresh, calling, circuit, announced, crossing, outages, changes>>

\* The service restarts: its requests are gone, its cache is loaded again.
Restart ==
  /\ running /\ outages < MaxOutages /\ outages' = outages + 1
  /\ served' = NotLoaded /\ writer' = [w \in DOMAIN writer |-> IF w = Boot THEN [at |-> "reload"] ELSE Idle]
  /\ UNCHANGED <<running, row, cached, fresh, calling, circuit, announced, crossing, changes>>

----------------------------------------------------------------------------

\* isOpen lets a call pass, and turns OPEN into HALF_OPEN once the time is over.
passes == circuit.state # "OPEN" \/ circuit.over

afterCheck == IF circuit.state = "OPEN" THEN [circuit EXCEPT !.state = "HALF_OPEN"] ELSE circuit

\* recordSuccess
closed == [circuit EXCEPT !.state = "CLOSED", !.fails = 0]

\* recordFailure; the count is of no use past the threshold.
failed ==
  LET n == circuit.fails + 1
  IN  IF circuit.state = "HALF_OPEN" \/ n >= OpenThreshold
      THEN [state |-> "OPEN", fails |-> IF n > OpenThreshold THEN OpenThreshold ELSE n, over |-> FALSE]
      ELSE [circuit EXCEPT !.fails = n]

\* reload starts a request, or is short-circuited.
StartReload ==
  \E c \in Calls :
    /\ calling[c] = Idle
    /\ IF passes THEN circuit' = afterCheck /\ calling' = [calling EXCEPT ![c] = [at |-> "sent"]]
       ELSE UNCHANGED <<circuit, calling>>

\* The event's handler
OnAnnounced ==
  /\ announced /\ announced' = FALSE /\ StartReload
  /\ UNCHANGED <<running, row, served, writer, cached, fresh, crossing, outages, changes>>

\* get: a capability is looked up; the answer is the cached one, and a cache past
\* its age is reloaded in the background.
Lookup ==
  /\ running /\ ~fresh /\ StartReload
  /\ UNCHANGED <<running, row, served, writer, cached, fresh, announced, crossing, outages, changes>>

\* The users service answers with its cache.
Answer(c) ==
  /\ calling[c].at = "sent" /\ calling' = [calling EXCEPT ![c] = [at |-> "got", row |-> served]]
  /\ UNCHANGED <<running, row, served, writer, cached, fresh, circuit, announced, crossing, outages, changes>>

\* No rows keep the cache as it is.
ReloadDone(c) ==
  /\ calling[c].at = "got" /\ calling' = [calling EXCEPT ![c] = Idle] /\ circuit' = closed
  /\ IF calling[c].row = NotLoaded THEN UNCHANGED <<cached, fresh>> ELSE cached' = calling[c].row /\ fresh' = TRUE
  /\ UNCHANGED <<running, row, served, writer, announced, crossing, outages, changes>>

\* All attempts of fetchWithRetry failed.
ReloadFails(c) ==
  /\ calling[c] # Idle /\ outages < MaxOutages /\ outages' = outages + 1
  /\ calling' = [calling EXCEPT ![c] = Idle] /\ circuit' = failed
  /\ UNCHANGED <<running, row, served, writer, cached, fresh, announced, crossing, changes>>

\* cacheTtlMs and resetTimeoutMs pass.
Age == fresh /\ fresh' = FALSE /\ UNCHANGED <<running, row, served, writer, cached, calling, circuit, announced, crossing, outages, changes>>
ResetTime ==
  /\ circuit.state = "OPEN" /\ ~circuit.over /\ circuit' = [circuit EXCEPT !.over = TRUE]
  /\ UNCHANGED <<running, row, served, writer, cached, fresh, calling, announced, crossing, outages, changes>>

----------------------------------------------------------------------------
CapInit ==
  /\ running = FALSE /\ row = {} /\ served = NotLoaded /\ cached = NotLoaded /\ fresh = FALSE
  /\ writer = [w \in Admins \cup {Boot} |-> Idle]
  /\ calling = [c \in Calls |-> Idle] /\ circuit = [state |-> "CLOSED", fails |-> 0, over |-> FALSE]
  /\ announced = FALSE /\ crossing = FALSE /\ outages = 0 /\ changes = 0

CapNext ==
  \/ \E a \in Admins : UpdateRead(a) \/ UpdateSave(a)
  \/ \E w \in Admins \cup {Boot} : ReloadRead(w) \/ ReloadApply(w)
  \/ \E c \in Calls : Answer(c) \/ ReloadDone(c) \/ ReloadFails(c)
  \/ Start \/ Restart \/ OnAnnounced \/ Lookup \/ Age \/ ResetTime

\* Requests that were begun go on, capabilities are looked up, and time passes.
CapFairness ==
  /\ WF_capVars((\E a \in Admins : UpdateSave(a)) \/ \E w \in Admins \cup {Boot} : ReloadRead(w) \/ ReloadApply(w))
  /\ WF_capVars(\E c \in Calls : Answer(c) \/ ReloadDone(c))
  /\ SF_capVars(Lookup) /\ WF_capVars(Age) /\ WF_capVars(ResetTime)

----------------------------------------------------------------------------
(* Properties *)
\* The caches hold rows, and the circuit is OPEN only with a reason: enough
\* failures in a row, or a failed probe.
CapTypeOK ==
  /\ row \in Rows /\ served \in Rows \cup {NotLoaded} /\ cached \in Rows \cup {NotLoaded}
  /\ circuit.state \in {"CLOSED", "OPEN", "HALF_OPEN"} /\ circuit.fails \in 0..OpenThreshold
  /\ circuit.state = "CLOSED" => circuit.fails < OpenThreshold

\* Once changes and outages end, the other service works with the capabilities
\* in the table, whatever events were lost, reloads overtook each other or the
\* circuit was open - unless two changes overlapped, which may leave the users
\* service itself with an old row.
CapabilitiesCatchUp == <>[](~running \/ crossing \/ cached = row)
=============================================================================
