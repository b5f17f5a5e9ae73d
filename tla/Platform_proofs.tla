--------------------------- MODULE Platform_proofs ---------------------------
(***************************************************************************)
(* What the tabs of a browser, the live updates of a tab and its           *)
(* inactivity lock promise for any number of tabs, faults and moves, any   *)
(* policy and any length of time: an inductive invariant for each, and the *)
(* theorems of PlatformSpec.                                               *)
(***************************************************************************)
EXTENDS MCPlatform, FiniteSetTheorems, TLAPS

-----------------------------------------------------------------------------
(* The live updates                                                        *)
(* The connection is going to be made again by a timer.                    *)
Faulty == {"silent", "lost", "shut"}
broken == reconnect \/ \E g \in Gens : streams[g] \in Faulty

ConnInv ==
  /\ streams \in [Gens -> StreamState] /\ generation \in Nat /\ master \in 0..generation
  /\ attempts \subseteq 1..generation /\ promise \in attempts \cup {0} /\ watchdog \in {0, master}
  /\ generation \in attempts => watchdog = 0
  /\ \A g \in Gens : streams[g] # "none" => g = master /\ g = generation /\ g \notin attempts

UserInv ==
  /\ mounted \in BOOLEAN /\ out \in {"no", "flagged", "yes"} /\ (mounted => out # "yes")
  /\ \A g \in Gens : streams[g] # "none" => mounted

(* Every generation was caused by a fault or a move; a broken connection   *)
(* and a sign-out not yet observed are each owed one more.                 *)
SpentInv ==
  /\ faults \in 0..MaxFaults /\ moves \in 0..MaxMoves /\ generation <= faults + moves
  /\ out = "flagged" => generation + 1 <= faults + moves
  /\ broken => generation + 1 <= faults + moves
  /\ out = "flagged" /\ broken => generation + 2 <= faults + moves

LiveInv == ConnInv /\ UserInv /\ SpentInv /\ ShowsLatest

(* The generations that were used are among those counted.                 *)
LEMMA GensSuffice ==
  ASSUME LiveInv
  PROVE  /\ generation \in 0..(MaxFaults + MaxMoves) /\ generation + 1 \in Gens /\ 0 \notin Gens
         /\ Cardinality(Gens) = MaxFaults + MaxMoves + 1
<1>1. generation \in 0..(MaxFaults + MaxMoves)
  BY LiveAssumption DEF LiveInv, ConnInv, SpentInv
<1>2. Cardinality(1..(MaxFaults + MaxMoves + 1)) = MaxFaults + MaxMoves + 1
  BY LiveAssumption, FS_Interval
<1> QED
  BY <1>1, <1>2, LiveAssumption DEF Gens

LEMMA LiveStarts == LiveInit => LiveInv
<1> SUFFICES ASSUME LiveInit PROVE LiveInv
  OBVIOUS
<1>1. \A g \in Gens : streams[g] = "none"
  BY DEF LiveInit
<1>2. ConnInv /\ UserInv
  <2>1. streams \in [Gens -> StreamState]
    BY DEF LiveInit, StreamState
  <2>2. ConnInv
    BY <1>1, <2>1 DEF LiveInit, ConnInv
  <2> QED
    BY <1>1, <2>2 DEF LiveInit, UserInv
<1>3. SpentInv
  BY <1>1, LiveAssumption DEF LiveInit, SpentInv, Faulty, broken
<1> QED
  BY <1>2, <1>3 DEF LiveInit, LiveInv, ShowsLatest

(* A new attempt, and giving the connection up, leave no source in use and *)
(* use up one generation.                                                  *)
LEMMA NoneInUse ==
  ASSUME LiveInv, NewAttempt \/ disconnectSse
  PROVE  /\ ConnInv' /\ generation' = generation + 1 /\ reconnect' = FALSE
         /\ \A g \in Gens : streams'[g] = "none"
<1>1. streams' = close(streams, master) /\ generation' = generation + 1 /\ watchdog' = 0 /\ reconnect' = FALSE
  BY DEF NewAttempt, disconnectSse
<1>2. streams' \in [Gens -> StreamState] /\ \A g \in Gens : streams'[g] = "none"
  BY <1>1, GensSuffice DEF close, LiveInv, ConnInv, StreamState
<1>3. /\ master' \in {0, master} /\ attempts' \subseteq attempts \cup {generation + 1}
      /\ promise' \in attempts' \cup {0}
  BY DEF NewAttempt, disconnectSse
<1>4. ConnInv'
  BY <1>1, <1>2, <1>3 DEF LiveInv, ConnInv
<1> QED
  BY <1>1, <1>2, <1>4

(* Its cost is borne by a move, or by what was owed one.                   *)
LEMMA Connects ==
  ASSUME LiveInv, NewAttempt \/ disconnectSse \/ UNCHANGED connVars,
         mounted' \in BOOLEAN, out' \in {"no", "flagged", "yes"}, mounted' => out' # "yes",
         UNCHANGED connVars /\ mounted => mounted',
         faults' = faults, moves' \in 0..MaxMoves, moves' = moves \/ moves' = moves + 1,
         \/ UNCHANGED connVars /\ (out' = "flagged" => out = "flagged" \/ moves' = moves + 1)
         \/ moves' = moves + 1 /\ (out' = "flagged" => out = "flagged")
         \/ out = "flagged" /\ out' # "flagged"
         \/ broken /\ out' = out
  PROVE  ConnInv' /\ UserInv' /\ SpentInv'
<1> USE DEF LiveInv
<1>1. CASE UNCHANGED connVars
  <2>1. ConnInv' /\ UserInv'
    BY <1>1 DEF connVars, ConnInv, UserInv
  <2>2. generation' = generation /\ (broken' => broken)
    BY <1>1 DEF connVars, broken
  <2>3. moves \in Nat /\ faults \in Nat /\ generation \in Nat
    BY DEF SpentInv, ConnInv
  <2>4. out' = "flagged" => out = "flagged" \/ moves' = moves + 1
    OBVIOUS
  <2>5. SpentInv'
    <3>1. CASE moves' = moves
      BY <2>2, <2>3, <2>4, <3>1 DEF SpentInv
    <3>2. CASE moves' = moves + 1
      BY <2>2, <2>3, <2>4, <3>2 DEF SpentInv
    <3> QED
      BY <3>1, <3>2
  <2> QED
    BY <2>1, <2>5
<1>2. CASE NewAttempt \/ disconnectSse
  <2>1. ConnInv' /\ generation' = generation + 1 /\ reconnect' = FALSE /\ \A g \in Gens : streams'[g] = "none"
    BY <1>2, NoneInUse
  <2>2. UserInv'
    BY <2>1 DEF UserInv
  <2>3. ~broken'
    BY <2>1 DEF Faulty, broken
  <2> QED
    <3>1. moves \in Nat /\ faults \in Nat /\ generation \in Nat
      BY DEF SpentInv, ConnInv
    <3>2. generation' = generation + 1 => ~UNCHANGED connVars
      BY <3>1 DEF connVars
    <3>3. \/ moves' = moves + 1 /\ (out' = "flagged" => out = "flagged")
          \/ out = "flagged" /\ out' # "flagged"
          \/ broken /\ out' = out
      BY <2>1, <3>2
    <3>4. CASE moves' = moves
      BY <2>1, <2>2, <2>3, <3>1, <3>3, <3>4 DEF SpentInv
    <3>5. CASE moves' = moves + 1
      BY <2>1, <2>2, <2>3, <3>1, <3>3, <3>5 DEF SpentInv
    <3> QED
      BY <3>4, <3>5
<1> QED
  BY <1>1, <1>2

(* A page without a source in use shows whatever it does.                  *)
LEMMA NothingShown ==
  ASSUME LiveInv, NewAttempt
  PROVE  ShowsLatest'
<1>1. master = 0 \/ master \in Gens
  BY GensSuffice, LiveAssumption DEF LiveInv, ConnInv, Gens
<1>2. master' = master /\ \A g \in Gens : streams'[g] = "none"
  BY NoneInUse DEF NewAttempt
<1> QED
  BY <1>1, <1>2 DEF ShowsLatest

LEMMA LiveStep ==
  ASSUME LiveInv, [LiveNext]_liveVars
  PROVE  LiveInv'
<1> USE DEF LiveInv
<1>1. /\ generation \in 0..(MaxFaults + MaxMoves) /\ generation + 1 \in Gens /\ 0 \notin Gens
      /\ faults \in Nat /\ moves \in Nat
  BY GensSuffice DEF SpentInv
<1>2. ASSUME NEW g \in Gens, TicketArrives(g)
      PROVE  LiveInv'
  <2>1. streams[g] = "none" /\ g \in attempts /\ g \in 1..generation
    BY <1>2 DEF TicketArrives, ConnInv
  <2>2. ConnInv' /\ UserInv' /\ (\A k \in Gens : streams'[k] # streams[k] => k = g /\ streams'[g] = "connecting" /\ master' = g)
    BY <1>2, <2>1 DEF TicketArrives, ConnInv, UserInv, userVars, overtaken, StreamState
  <2>3. broken' => broken
    BY <1>2, <2>2 DEF TicketArrives, Faulty, broken
  <2>4. SpentInv'
    BY <1>1, <1>2, <2>3 DEF TicketArrives, SpentInv, userVars
  <2>5. ShowsLatest'
    BY <1>2, <2>1, <2>2 DEF TicketArrives, ShowsLatest, dataVars, userVars, ConnInv
  <2> QED
    BY <2>2, <2>4, <2>5
<1>3. ASSUME NEW g \in Gens, TicketFails(g)
      PROVE  LiveInv'
  <2>1. streams[g] = "none" /\ g \in attempts /\ g \in 1..generation
    BY <1>3 DEF TicketFails, ConnInv
  <2>2. UserInv' /\ streams' = streams /\ generation' = generation /\ watchdog' = watchdog
    BY <1>3 DEF TicketFails, UserInv, userVars
  <2>3. CASE g = generation /\ keyed
    <3>1. \A k \in Gens : streams[k] = "none"
      BY <1>3, <2>3 DEF TicketFails, ConnInv
    <3>2. master' = 0 /\ watchdog = 0 /\ attempts' = attempts \ {g} /\ promise' = (IF promise = g THEN 0 ELSE promise)
      BY <1>3, <2>1, <2>3 DEF TicketFails, ConnInv
    <3>3. ConnInv'
      <4>1. streams' \in [Gens -> StreamState] /\ generation' \in Nat /\ master' \in 0..generation' /\ watchdog' \in {0, master'}
        BY <2>2, <3>2 DEF ConnInv
      <4>2. attempts' \subseteq 1..generation' /\ promise' \in attempts' \cup {0}
        BY <2>2, <3>2 DEF ConnInv
      <4> QED
        BY <2>2, <3>1, <3>2, <4>1, <4>2 DEF ConnInv
    <3>4. faults' = faults + 1 /\ faults < MaxFaults /\ moves' = moves /\ out' = out
      BY <1>3, <2>3 DEF TicketFails, userVars
    <3>5. SpentInv'
      BY <1>1, <2>2, <3>4, LiveAssumption DEF SpentInv
    <3> QED
      BY <2>2, <3>2, <3>3, <3>5 DEF ShowsLatest
  <2>4. CASE ~ (g = generation /\ keyed)
    <3>1. UNCHANGED <<generation, streams, watchdog, queue, dataVars, userVars, due, seen, moves, faults, keyed, master, reconnect>>
      BY <1>3, <2>4 DEF TicketFails
    <3>2. attempts' = attempts \ {g} /\ promise' = (IF promise = g THEN 0 ELSE promise)
      BY <1>3 DEF TicketFails
    <3>3. ConnInv'
      BY <3>1, <3>2 DEF ConnInv
    <3>4. SpentInv' /\ ShowsLatest'
      BY <3>1 DEF SpentInv, ShowsLatest, dataVars, userVars, broken
    <3> QED
      BY <2>2, <3>3, <3>4
  <2> QED
    BY <2>3, <2>4
<1>4. ASSUME NEW g \in Gens, NEW s \in StreamState \ {"none"}, streams[g] # "none",
             streams' = [streams EXCEPT ![g] = s], watchdog' \in {watchdog, g},
             UNCHANGED <<generation, master, keyed, attempts, promise, dataVars, userVars, moves>>,
             \/ s \notin Faulty /\ (reconnect' => reconnect) /\ faults' = faults
             \/ faults < MaxFaults /\ faults' = faults + 1,
             s = "open" => due'
      PROVE  LiveInv'
  <2>1. g = master /\ g = generation /\ g \notin attempts /\ mounted
    BY <1>4 DEF ConnInv, UserInv
  <2>2. \A k \in Gens : streams'[k] = IF k = g THEN s ELSE streams[k]
    BY <1>4 DEF ConnInv
  <2>3. ConnInv'
    BY <1>4, <2>1, <2>2 DEF ConnInv
  <2>4. UserInv'
    BY <1>4, <2>1 DEF UserInv, userVars
  <2>5. out' = out
    BY <1>4 DEF userVars
  <2>6. CASE s \notin Faulty /\ (reconnect' => reconnect) /\ faults' = faults
    <3>1. broken' => broken
      BY <2>2, <2>6 DEF broken
    <3> QED
      BY <1>1, <1>4, <2>3, <2>4, <2>5, <2>6, <2>1, <2>2, <3>1 DEF SpentInv, ShowsLatest
  <2>7. CASE faults < MaxFaults /\ faults' = faults + 1
    <3>1. SpentInv'
      BY <1>1, <1>4, <2>5, <2>7, LiveAssumption DEF SpentInv
    <3> QED
      BY <1>4, <2>1, <2>2, <2>3, <2>4, <3>1 DEF ShowsLatest
  <2> QED
    BY <1>4, <2>6, <2>7
<1>5. ASSUME NEW g \in Gens, Subscribe(g)
      PROVE  LiveInv'
  <2>1. "subscribed" \in StreamState \ {"none"} /\ "subscribed" \notin Faulty /\ streams[g] # "none"
    BY <1>5 DEF Subscribe, StreamState, Faulty
  <2>2. streams' = [streams EXCEPT ![g] = "subscribed"]
    BY <1>5 DEF Subscribe
  <2>3. UNCHANGED <<generation, master, keyed, attempts, promise, dataVars, userVars, moves, watchdog, reconnect, faults>>
    BY <1>5 DEF Subscribe
  <2> QED
    BY <1>4, <2>1, <2>2, <2>3
<1>6. ASSUME NEW g \in Gens, OnOpen(g)
      PROVE  LiveInv'
  <2>1. g = master /\ g = generation
    BY <1>6 DEF OnOpen, ConnInv
  <2> QED
    BY <1>4, <1>6, <2>1 DEF OnOpen, StreamState, Faulty, reconciliation
<1>7. ASSUME NEW g \in Gens, OnError(g) \/ Silent(g)
      PROVE  LiveInv'
  BY <1>4, <1>7 DEF OnError, Silent, StreamState, Faulty, Listening
<1>8. ASSUME NEW g \in Gens, OnMessage(g)
      PROVE  LiveInv'
  <2>1. g = master /\ g = generation /\ g \notin attempts
    BY <1>8 DEF OnMessage, ConnInv
  <2>2. /\ watchdog' = g /\ due' = TRUE
        /\ UNCHANGED <<generation, master, keyed, attempts, promise, streams, reconnect, dataVars, userVars, seen, faults, moves>>
    BY <1>8, <2>1 DEF OnMessage
  <2>3. ConnInv' /\ UserInv'
    BY <2>1, <2>2 DEF ConnInv, UserInv, userVars
  <2>4. SpentInv'
    BY <2>2 DEF SpentInv, userVars, broken
  <2> QED
    BY <2>2, <2>3, <2>4 DEF ShowsLatest
<1>9. CASE ReconnectTimer
  <2>1. UNCHANGED <<dataVars, userVars, due, seen, faults, moves>> /\ reconnect
    BY <1>9 DEF ReconnectTimer
  <2>2. CASE mounted /\ canRecoverSession
    <3>1. NewAttempt
      BY <1>9, <2>2 DEF ReconnectTimer
    <3>2. ConnInv' /\ UserInv' /\ SpentInv'
      <4>1. UNCHANGED <<mounted, out, faults, moves>> /\ broken
        BY <2>1 DEF userVars, broken
      <4>2. /\ mounted' \in BOOLEAN /\ out' \in {"no", "flagged", "yes"} /\ (mounted' => out' # "yes")
            /\ moves' \in 0..MaxMoves /\ (UNCHANGED connVars /\ mounted => mounted')
        BY <4>1 DEF UserInv, SpentInv
      <4> QED
        BY <3>1, <4>1, <4>2, Connects
    <3> QED
      BY <3>1, <3>2, NothingShown
  <2>3. CASE ~ (mounted /\ canRecoverSession)
    <3>1. UNCHANGED <<generation, master, keyed, attempts, promise, streams, watchdog, queue>> /\ reconnect' = FALSE
      BY <1>9, <2>3 DEF ReconnectTimer
    <3>2. ConnInv' /\ UserInv' /\ ShowsLatest'
      BY <2>1, <3>1 DEF ConnInv, UserInv, ShowsLatest, dataVars, userVars
    <3>3. broken' => broken
      BY <3>1 DEF broken
    <3> QED
      BY <1>1, <2>1, <3>1, <3>2, <3>3 DEF SpentInv, userVars
  <2> QED
    BY <2>2, <2>3
<1>10. CASE Watchdog
  <2>1. UNCHANGED <<dataVars, userVars, due, seen, faults, moves>> /\ watchdog # 0 /\ streams[watchdog] \in {"silent", "lost", "shut"}
    BY <1>10 DEF Watchdog
  <2>2. watchdog \in Gens /\ watchdog = generation /\ watchdog = master /\ broken
    BY <1>1, <2>1, LiveAssumption DEF ConnInv, Gens, Faulty, broken
  <2>3. connectSse(mounted, TRUE)
    BY <1>10, <2>2 DEF Watchdog
  <2>4. NewAttempt \/ UNCHANGED connVars
    BY <2>3 DEF connectSse
  <2>5. ConnInv' /\ UserInv' /\ SpentInv'
    <3>1. UNCHANGED <<mounted, out, faults, moves>>
      BY <2>1 DEF userVars
    <3>2. /\ mounted' \in BOOLEAN /\ out' \in {"no", "flagged", "yes"} /\ (mounted' => out' # "yes")
          /\ moves' \in 0..MaxMoves /\ (UNCHANGED connVars /\ mounted => mounted')
      BY <3>1 DEF UserInv, SpentInv
    <3> QED
      BY <2>2, <2>4, <3>1, <3>2, Connects
  <2>6. ShowsLatest'
    <3>1. CASE NewAttempt
      BY <3>1, NothingShown
    <3>2. CASE UNCHANGED connVars
      BY <2>1, <3>2 DEF ShowsLatest, connVars, dataVars, userVars
    <3> QED
      BY <2>4, <3>1, <3>2
  <2> QED
    BY <2>5, <2>6
<1>11. ASSUME UNCHANGED <<generation, master, keyed, attempts, promise, streams, reconnect, watchdog, userVars, faults, moves>>,
              ShowsLatest'
       PROVE  LiveInv'
  BY <1>11 DEF ConnInv, UserInv, SpentInv, userVars, broken
<1>12. CASE Save
  BY <1>11, <1>12 DEF Save, connVars, ShowsLatest
<1>13. CASE Emit \/ BusDelivers
  <2>1. UNCHANGED <<generation, master, keyed, attempts, promise, streams, reconnect, watchdog, userVars, faults, moves>>
    BY <1>13 DEF Emit, BusDelivers
  <2>2. ShowsLatest'
    <3>1. SUFFICES ASSUME Announce, master \in Gens, streams[master] = "open"
                   PROVE  queue' # {}
      BY <1>1, <1>13, <2>1, LiveAssumption DEF Emit, BusDelivers, ShowsLatest, userVars, ConnInv, Gens
    <3> QED
      BY <3>1 DEF Announce, Listening
  <2> QED
    BY <1>11, <2>1, <2>2
<1>14. CASE Refetch
  BY <1>11, <1>14 DEF Refetch, connVars, dataVars, ShowsLatest
<1>15. CASE Mount
  <2>1. /\ moves < MaxMoves /\ moves' = moves + 1 /\ UNCHANGED <<dataVars, seen, faults, out, visible>>
        /\ mounted' = TRUE /\ due' = TRUE /\ out # "yes" /\ (NewAttempt \/ UNCHANGED connVars)
    BY <1>15 DEF Mount, Moves, connectSse
  <2>2. ConnInv' /\ UserInv' /\ SpentInv'
    <3>1. mounted' \in BOOLEAN /\ out' \in {"no", "flagged", "yes"} /\ (mounted' => out' # "yes") /\ out' = out
      BY <2>1 DEF UserInv
    <3>2. moves' \in 0..MaxMoves /\ faults' = faults
      BY <1>1, <2>1, LiveAssumption
    <3> QED
      BY <2>1, <3>1, <3>2, Connects
  <2> QED
    BY <2>1, <2>2 DEF ShowsLatest
<1>16. ASSUME disconnectSse, mounted' = FALSE, UNCHANGED <<dataVars, due, seen, faults>>,
              \/ moves < MaxMoves /\ moves' = moves + 1 /\ out' \in {out, "yes"}
              \/ moves' = moves /\ out = "flagged" /\ out' = "yes"
       PROVE  LiveInv'
  <2>1. ConnInv' /\ UserInv' /\ SpentInv'
    <3>1. out' \in {"no", "flagged", "yes"} /\ (mounted' => out' # "yes") /\ mounted' \in BOOLEAN
      BY <1>16 DEF UserInv
    <3>2. moves' \in 0..MaxMoves /\ (moves' = moves \/ moves' = moves + 1)
      BY <1>1, <1>16, LiveAssumption DEF SpentInv
    <3>3. ~ UNCHANGED connVars
      BY <1>1, <1>16 DEF disconnectSse, connVars
    <3>4. \/ moves' = moves + 1 /\ (out' = "flagged" => out = "flagged")
          \/ out = "flagged" /\ out' # "flagged"
      BY <1>16
    <3> QED
      BY <1>16, <3>1, <3>2, <3>3, <3>4, Connects
  <2> QED
    BY <1>16, <2>1 DEF ShowsLatest
<1>17. CASE Unmount \/ SignOut \/ SignOutObserved
  BY <1>16, <1>17 DEF Unmount, SignOut, SignOutObserved, Moves
<1>18. CASE Revisit
  <2>1. /\ moves < MaxMoves /\ moves' = moves + 1 /\ UNCHANGED <<dataVars, seen, faults, mounted, out, due>>
        /\ (NewAttempt \/ UNCHANGED connVars)
    BY <1>18 DEF Revisit, Moves, connectSse
  <2>2. ConnInv' /\ UserInv' /\ SpentInv'
    <3>1. mounted' \in BOOLEAN /\ out' \in {"no", "flagged", "yes"} /\ (mounted' => out' # "yes") /\ out' = out
      BY <2>1 DEF UserInv
    <3>2. moves' \in 0..MaxMoves /\ faults' = faults /\ (mounted => mounted')
      BY <1>1, <2>1, LiveAssumption
    <3> QED
      BY <2>1, <3>1, <3>2, Connects
  <2>3. ShowsLatest'
    <3>1. CASE NewAttempt
      BY <3>1, NothingShown
    <3>2. CASE UNCHANGED connVars
      BY <2>1, <3>2 DEF ShowsLatest, connVars, dataVars
    <3> QED
      BY <2>1, <3>1, <3>2
  <2> QED
    BY <2>2, <2>3
<1>19. CASE SignOutElsewhere \/ SignInAgain
  <2>1. /\ moves < MaxMoves /\ moves' = moves + 1 /\ UNCHANGED <<dataVars, seen, faults, mounted, visible, connVars, due>>
        /\ out' \in {"no", "flagged"} /\ (out' = "no" => out = "yes") /\ (out' = "flagged" => out = "no")
    BY <1>19 DEF SignOutElsewhere, SignInAgain, Moves
  <2>2. ConnInv' /\ UserInv' /\ SpentInv'
    <3>1. mounted' \in BOOLEAN /\ out' \in {"no", "flagged", "yes"} /\ (mounted' => out' # "yes")
      BY <2>1 DEF UserInv
    <3>2. moves' \in 0..MaxMoves /\ faults' = faults /\ (mounted => mounted')
      BY <1>1, <2>1, LiveAssumption
    <3>3. UNCHANGED connVars /\ (out' = "flagged" => out = "flagged" \/ moves' = moves + 1)
      BY <2>1
    <3> QED
      BY <2>1, <3>1, <3>2, <3>3, Connects
  <2> QED
    BY <2>1, <2>2 DEF ShowsLatest, connVars, dataVars
<1>20. CASE UNCHANGED liveVars
  BY <1>11, <1>20 DEF liveVars, connVars, dataVars, userVars, ShowsLatest
<1> QED
  BY <1>2, <1>3, <1>5, <1>6, <1>7, <1>8, <1>9, <1>10, <1>12, <1>13, <1>14, <1>15, <1>17, <1>18, <1>19, <1>20 DEF LiveNext

LEMMA LiveImplies == LiveInv => LiveHolds
<1> SUFFICES ASSUME LiveInv PROVE LiveHolds
  OBVIOUS
<1>1. generation \in 0..(MaxFaults + MaxMoves) /\ Cardinality(Gens) = MaxFaults + MaxMoves + 1
  BY GensSuffice
<1>2. LiveTypeOK
  BY <1>1, LiveAssumption DEF LiveInv, ConnInv, UserInv, LiveTypeOK, Gens
<1>3. OneStream
  BY DEF LiveInv, ConnInv, UserInv, OneStream
<1> QED
  BY <1>2, <1>3 DEF LiveInv, LiveHolds

-----------------------------------------------------------------------------
(* The inactivity lock                                                     *)
IdleInv == clock \in Nat /\ lastActivity \in 0..clock /\ limit \in Limits

LEMMA IdleStarts == IdleInit => IdleInv
BY IdleAssumption DEF IdleInit, IdleInv

LEMMA IdleStep ==
  ASSUME IdleInv, [IdleNext]_idleVars
  PROVE  IdleInv' /\ (excused' \/ lastActivity' = lastActivity \/ lastActivity' - lastActivity < limit)
<1> USE DEF IdleInv
<1>1. limit \in Nat \ {0}
  BY IdleAssumption
<1>2. CASE Activity
  <2>1. lastActivity' = countedActivity /\ UNCHANGED <<clock, limit>> /\ schedule(countedActivity, limit) /\ ~locked
    BY <1>2 DEF Activity
  <2>2. IdleInv'
    BY <2>1 DEF countedActivity
  <2>3. lastActivity' = lastActivity \/ lastActivity' - lastActivity < limit
    BY <1>1, <2>1 DEF countedActivity, overdue
  <2> QED
    BY <2>2, <2>3
<1>3. CASE Visible
  BY <1>3 DEF Visible, schedule
<1>4. CASE CheckDeadline
  BY <1>4 DEF CheckDeadline, schedule
<1>5. CASE RefreshPolicy
  BY <1>5 DEF RefreshPolicy, schedule
<1>6. CASE UnlockSession
  BY <1>6 DEF UnlockSession
<1>7. CASE Reload
  BY <1>7, IdleAssumption DEF Reload
<1>8. CASE TimePasses
  BY <1>8, IdleAssumption DEF TimePasses
<1>9. CASE UNCHANGED idleVars
  BY <1>9 DEF idleVars
<1> QED
  BY <1>2, <1>3, <1>4, <1>5, <1>6, <1>7, <1>8, <1>9 DEF IdleNext

-----------------------------------------------------------------------------
(* The browser session                                                     *)

Flight == [st : {"none", "lock", "sent", "back"}, tok : Nat]

(* What a tab shows.  A tab that repeats its request holds tokens that are *)
(* not past their time.                                                    *)
TabFits(t) ==
  /\ tab[t].step = "renew" => flight[t].st # "none"
  /\ tab[t].step = "again" => ~expired
  /\ tab[t].out => tab[t].user # "session"

TabsOK == tab \in [Tabs -> TabState] /\ \A t \in Tabs : TabFits(t)

NumbersOK ==
  /\ issued \in Nat /\ cookie \in 0..issued /\ valid \subseteq 1..issued
  /\ flight \in [Tabs -> Flight] /\ \A t \in Tabs : flight[t].tok <= issued
  /\ leaving \in [Tabs -> Nat] /\ \A t \in Tabs : leaving[t] <= issued

Underway(t) == flight[t].st \in {"sent", "back"}
Carries(t) == flight[t].st = "back" /\ flight[t].tok # 0

(* One renewal at a time; what it brings was in no cookie before; a token  *)
(* that is being signed out is used by no renewal but one of a tab that is *)
(* going to hear of it.                                                    *)
RenewalsOK ==
  /\ \A s, t \in Tabs : Underway(s) /\ Underway(t) => s = t
  /\ \A t \in Tabs : Carries(t) => flight[t].tok # cookie /\ \A s \in Tabs : leaving[s] # flight[t].tok
  /\ \A s \in Tabs : leaving[s] # 0 /\ leaving[s] = cookie => flag
  /\ \A s, t \in Tabs : leaving[s] # 0 /\ flight[t].st = "sent" /\ flight[t].tok = leaving[s] => t \in told

(* While nothing happened that could end the session: the browser holds    *)
(* the session's tokens, or a renewal brings them, or it is signed out.    *)
Kept ==
  /\ cookie = 0 => flag
  /\ flag \/ cookie \in valid \/ \E t \in Tabs : Carries(t)
  /\ \A t \in Tabs : flight[t].st = "sent" => t \in told \/ flight[t].tok \in valid
  /\ \A t \in Tabs : flight[t].st = "back" => t \in told \/ flight[t].tok # 0
  /\ \A t \in Tabs : Carries(t) => flight[t].tok \in valid
  /\ ~rejected

TokensOK == NumbersOK /\ RenewalsOK /\ (~disturbed => Kept)

SessionInv == TabsOK /\ TokensOK

LEMMA SessionStarts == SessionInit => SessionInv
<1> SUFFICES ASSUME SessionInit PROVE SessionInv
  OBVIOUS
<1>1. TabsOK
  BY DEF SessionInit, TabsOK, TabFits, TabState, Tokens
<1>2. NumbersOK
  BY DEF SessionInit, NumbersOK, Flight, NoFlight
<1>3. \A t \in Tabs : ~Underway(t) /\ ~Carries(t) /\ flight[t].st = "none" /\ leaving[t] = 0
  BY DEF SessionInit, Underway, Carries, NoFlight
<1>4. cookie \in valid /\ cookie # 0 /\ ~rejected
  BY DEF SessionInit
<1> QED
  BY <1>1, <1>2, <1>3, <1>4 DEF SessionInv, TokensOK, RenewalsOK, Kept

LEMMA SessionImplies == SessionInv => SessionHolds
BY DEF SessionInv, TabsOK, TabFits, TokensOK, NumbersOK, Kept, SessionHolds, SessionTypeOK, SignedOutStaysOut,
       RejectedOnlyWhenRevoked, Tokens

-----------------------------------------------------------------------------
(* What an operation makes of a tab                                        *)

Places == {"login", "app"}
Users == {"none", "session", "login"}
Waits == {"no", "loading", "reconnecting"}
Steps == {"none", "profile", "again", "renew", "caps", "signing", "entering"}

LEMMA StepSet ==
  ASSUME NEW s \in TabState, NEW x \in Steps
  PROVE  LET r == [s EXCEPT !.step = x]
         IN  r \in TabState /\ r.step = x /\ r.out = s.out /\ r.user = s.user
BY DEF TabState, Steps

LEMMA OutSet ==
  ASSUME NEW s \in TabState, NEW o \in BOOLEAN
  PROVE  LET r == [s EXCEPT !.out = o]
         IN  r \in TabState /\ r.step = s.step /\ r.out = o /\ r.user = s.user
BY DEF TabState

(* A sign-out or a rejection leaves no user and no renewal to wait for.    *)
LEMMA Cleared ==
  ASSUME NEW s \in TabState
  PROVE  LET r == cleared(s)
         IN  r \in TabState /\ r.user = "none" /\ r.out = s.out /\ r.step # "renew" /\ (r.step = "again" => s.step = "again")
<1>1. PICK x \in Steps : x = (IF s.step = "renew" THEN "none" ELSE s.step)
  BY DEF TabState, Steps
<1>2. PICK p \in Places, u \in Users, e \in BOOLEAN, w \in Waits : p = "login" /\ u = "none" /\ e = FALSE /\ w = "no"
  BY Zenon DEF Places, Users, Waits
<1>3. PICK r : r = [s EXCEPT !.place = p, !.user = u, !.effect = e, !.wait = w, !.retry = e, !.step = x]
  OBVIOUS
<1>4. r \in TabState /\ r.step = x /\ r.out = s.out /\ r.user = u
  BY <1>3 DEF TabState, Places, Users, Waits, Steps
<1>5. r = cleared(s)
  BY <1>1, <1>2, <1>3, Zenon DEF cleared
<1>6. x # "renew" /\ (x = "again" => s.step = "again")
  BY <1>1
<1> QED
  BY <1>2, <1>4, <1>5, <1>6, Zenon

(* One tab moves.                                                          *)
LEMMA TabMoves ==
  ASSUME TabsOK, NEW t \in Tabs, NEW r \in TabState, tab' = [tab EXCEPT ![t] = r],
         r.step = "renew" => flight'[t].st # "none",
         r.step = "again" => ~expired',
         r.out => r.user # "session",
         expired' => expired,
         \A s \in Tabs \ {t} : flight'[s] = flight[s]
  PROVE  TabsOK'
<1>1. tab' \in [Tabs -> TabState] /\ tab'[t] = r /\ \A s \in Tabs \ {t} : tab'[s] = tab[s]
  BY DEF TabsOK
<1>2. TabFits(t)'
  BY <1>1 DEF TabFits
<1>3. \A s \in Tabs \ {t} : TabFits(s)'
  BY <1>1 DEF TabFits, TabsOK
<1> QED
  BY <1>1, <1>2, <1>3 DEF TabsOK

LEMMA TabsStay ==
  ASSUME TabsOK, tab' = tab, expired' => expired,
         \A s \in Tabs : flight[s].st # "none" => flight'[s].st # "none"
  PROVE  TabsOK'
BY DEF TabsOK, TabFits

(* The tab is cleared by a sign-out (o) or a rejection.                    *)
LEMMA ClearedTab ==
  ASSUME TabsOK, NEW t \in Tabs, NEW o \in BOOLEAN, tab' = [tab EXCEPT ![t] = cleared([tab[t] EXCEPT !.out = o])],
         expired' = expired, \A s \in Tabs \ {t} : flight'[s] = flight[s]
  PROVE  TabsOK'
<1>1. tab[t] \in TabState /\ (tab[t].step = "again" => ~expired)
  BY DEF TabsOK, TabFits
<1>2. PICK q : q = [tab[t] EXCEPT !.out = o]
  OBVIOUS
<1>3. q \in TabState /\ q.step = tab[t].step
  BY <1>1, <1>2, OutSet
<1>4. PICK r : r = cleared(q)
  OBVIOUS
<1>5. r \in TabState /\ r.user = "none" /\ r.step # "renew" /\ (r.step = "again" => q.step = "again")
  BY <1>3, <1>4, Cleared
<1>6. tab' = [tab EXCEPT ![t] = r]
  BY <1>2, <1>4
<1> QED
  BY <1>1, <1>3, <1>5, <1>6, TabMoves

(* A request of the tab goes to another step.                              *)
LEMMA SteppedTab ==
  ASSUME TabsOK, NEW t \in Tabs, NEW x \in Steps, tab' = [tab EXCEPT ![t].step = x],
         x = "renew" => flight'[t].st # "none", x = "again" => ~expired, expired' = expired,
         \A s \in Tabs \ {t} : flight'[s] = flight[s]
  PROVE  TabsOK'
<1>1. tab[t] \in TabState /\ (tab[t].out => tab[t].user # "session")
  BY DEF TabsOK, TabFits
<1>2. PICK r : r = [tab[t] EXCEPT !.step = x]
  OBVIOUS
<1>3. r \in TabState /\ r.step = x /\ r.out = tab[t].out /\ r.user = tab[t].user
  BY <1>1, <1>2, StepSet
<1>4. tab' = [tab EXCEPT ![t] = r]
  BY <1>2
<1> QED
  BY <1>1, <1>3, <1>4, TabMoves

-----------------------------------------------------------------------------
(* What becomes of the tokens                                              *)

LEMMA TokensStay ==
  ASSUME TokensOK, UNCHANGED <<flight, leaving, told, flag, cookie, valid, issued, disturbed, rejected>>
  PROVE  TokensOK'
BY DEF TokensOK, NumbersOK, RenewalsOK, Kept, Underway, Carries

(* One renewal is given up.                                                *)
LEMMA Dropped ==
  ASSUME TokensOK, NEW t \in Tabs, flight' = [flight EXCEPT ![t] = NoFlight]
  PROVE  /\ flight' \in [Tabs -> Flight] /\ flight'[t].st = "none" /\ flight'[t].tok = 0
         /\ \A s \in Tabs \ {t} : flight'[s] = flight[s]
         /\ \A s \in Tabs : flight'[s].st # "none" => s # t /\ flight'[s] = flight[s]
<1>1. NoFlight \in Flight /\ NoFlight.st = "none" /\ NoFlight.tok = 0
  BY DEF NoFlight, Flight
<1> QED
  BY <1>1 DEF TokensOK, NumbersOK

(* A tab gives up its renewal; a sign-out also leaves the cookies, with a  *)
(* flag for this tab and an event for the others.                          *)
LEMMA AbortedTokens ==
  ASSUME TokensOK, NEW t \in Tabs, Abort(t), UNCHANGED <<cookie, valid, issued, rejected>>, told \ {t} \subseteq told',
         \/ UNCHANGED <<leaving, flag>>
         \/ flag' = TRUE /\ Tabs \ {t} \subseteq told' /\ leaving' = [leaving EXCEPT ![t] = cookie]
  PROVE  TokensOK'
<1>1. /\ flight' \in [Tabs -> Flight] /\ flight'[t].st = "none" /\ flight'[t].tok = 0
      /\ \A s \in Tabs \ {t} : flight'[s] = flight[s]
      /\ \A s \in Tabs : flight'[s].st # "none" => s # t /\ flight'[s] = flight[s]
  BY Dropped DEF Abort
<1>2. disturbed' = (disturbed \/ flight[t].st = "back")
  BY DEF Abort
<1>3. \A s \in Tabs : leaving'[s] = leaving[s] \/ (leaving'[s] = cookie /\ flag' = TRUE /\ Tabs \ {t} \subseteq told')
  BY DEF TokensOK, NumbersOK
<1>4. flag => flag'
  OBVIOUS
<1>5. NumbersOK'
  BY <1>1, <1>3 DEF TokensOK, NumbersOK
<1>6. RenewalsOK'
  <2>1. \A s \in Tabs : (Underway(s)' => Underway(s) /\ s # t /\ flight'[s] = flight[s]) /\ (Carries(s)' => Carries(s) /\ flight'[s] = flight[s])
    BY <1>1 DEF Underway, Carries
  <2>2. \A q, s \in Tabs : Underway(q)' /\ Underway(s)' => q = s
    BY <2>1 DEF TokensOK, RenewalsOK
  <2>3. \A s \in Tabs : Carries(s)' => flight'[s].tok # cookie /\ \A q \in Tabs : leaving'[q] # flight'[s].tok
    BY <1>3, <2>1 DEF TokensOK, RenewalsOK
  <2>4. \A q \in Tabs : leaving'[q] # 0 /\ leaving'[q] = cookie => flag'
    BY <1>3, <1>4 DEF TokensOK, RenewalsOK
  <2>5. \A q, s \in Tabs : leaving'[q] # 0 /\ flight'[s].st = "sent" /\ flight'[s].tok = leaving'[q] => s \in told'
    BY <1>1, <1>3 DEF TokensOK, RenewalsOK
  <2> QED
    BY <2>2, <2>3, <2>4, <2>5 DEF RenewalsOK
<1>7. ~disturbed' => Kept'
  <2> SUFFICES ASSUME ~disturbed' PROVE Kept'
    OBVIOUS
  <2>1. Kept /\ flight[t].st # "back"
    BY <1>2 DEF TokensOK
  <2>2. \A s \in Tabs : (Carries(s) <=> Carries(s)') /\ (Carries(s) => flight'[s] = flight[s])
    BY <1>1, <2>1 DEF Carries
  <2>3. \A s \in Tabs : s \in told /\ flight'[s].st # "none" => s \in told'
    BY <1>1
  <2> QED
    BY <1>1, <1>4, <2>1, <2>2, <2>3 DEF Kept
<1> QED
  BY <1>5, <1>6, <1>7 DEF TokensOK

(* A tab rejects the session: other tabs are told, the flag is raised.     *)
LEMMA RejectedTokens ==
  ASSUME TokensOK, NEW t \in Tabs, UNCHANGED <<leaving, cookie, valid, issued>>, flag => flag', told \subseteq told',
         flight' = flight \/ (flight' = [flight EXCEPT ![t] = NoFlight] /\ ~Carries(t)),
         disturbed => disturbed', ~disturbed' /\ rejected' => rejected
  PROVE  TokensOK'
<1>1. /\ flight' \in [Tabs -> Flight]
      /\ \A s \in Tabs : flight'[s] = flight[s] \/ (flight'[s].st = "none" /\ flight'[s].tok = 0)
      /\ \A s \in Tabs : flight'[s].st # "none" => flight'[s] = flight[s]
      /\ \A s \in Tabs : Carries(s) => flight'[s] = flight[s]
  BY Dropped DEF TokensOK, NumbersOK
<1>2. \A s \in Tabs : /\ Underway(s)' => Underway(s) /\ flight'[s] = flight[s]
                      /\ Carries(s) <=> Carries(s)'
                      /\ Carries(s) => flight'[s] = flight[s]
  BY <1>1 DEF Underway, Carries
<1>3. NumbersOK'
  BY <1>1 DEF TokensOK, NumbersOK
<1>4. RenewalsOK'
  BY <1>1, <1>2 DEF TokensOK, RenewalsOK
<1>5. ~disturbed' => Kept'
  BY <1>1, <1>2 DEF TokensOK, Kept
<1> QED
  BY <1>3, <1>4, <1>5 DEF TokensOK

-----------------------------------------------------------------------------
(* Signing out and in                                                      *)

LEMMA SignOutIsKept ==
  ASSUME SessionInv, NEW t \in Tabs, SignOutOf(t), UNCHANGED <<cookie, expired, valid, issued, rejected>>
  PROVE  SessionInv'
<1>1. /\ Abort(t) /\ tab' = [tab EXCEPT ![t] = cleared([tab[t] EXCEPT !.out = TRUE])]
      /\ flag' = TRUE /\ told' = told \cup (Tabs \ {t}) /\ leaving' = [leaving EXCEPT ![t] = cookie]
  BY DEF SignOutOf
<1>2. TokensOK'
  BY <1>1, AbortedTokens DEF SessionInv
<1>3. \A s \in Tabs \ {t} : flight'[s] = flight[s]
  BY <1>1, Dropped DEF Abort, SessionInv
<1>4. TabsOK'
  BY <1>1, <1>3, ClearedTab DEF SessionInv
<1> QED
  BY <1>2, <1>4 DEF SessionInv

LEMMA ObserveIsKept ==
  ASSUME SessionInv, NEW t \in Tabs, Observe(t)
  PROVE  SessionInv'
<1>1. /\ Abort(t) /\ tab' = [tab EXCEPT ![t] = cleared([tab[t] EXCEPT !.out = TRUE])] /\ told' = told \ {t}
      /\ UNCHANGED <<leaving, flag, cookie, expired, valid, issued, rejected>>
  BY DEF Observe, serverVars
<1>2. TokensOK'
  BY <1>1, AbortedTokens DEF SessionInv
<1>3. \A s \in Tabs \ {t} : flight'[s] = flight[s]
  BY <1>1, Dropped DEF Abort, SessionInv
<1>4. TabsOK'
  BY <1>1, <1>3, ClearedTab DEF SessionInv
<1> QED
  BY <1>2, <1>4 DEF SessionInv

LEMMA LogoutAnswerIsKept ==
  ASSUME SessionInv, NEW t \in Tabs, LogoutAnswer(t)
  PROVE  SessionInv'
<1>1. /\ UNCHANGED <<tab, flight, flag, told, expired, issued, rejected>>
      /\ leaving[t] # 0 /\ leaving' = [leaving EXCEPT ![t] = 0]
  BY DEF LogoutAnswer
<1>2. TabsOK'
  BY <1>1, TabsStay DEF SessionInv
<1>3. NumbersOK /\ RenewalsOK /\ (~disturbed => Kept)
  BY DEF SessionInv, TokensOK
<1>4. \A s \in Tabs : leaving'[s] = leaving[s] \/ leaving'[s] = 0
  BY <1>1, <1>3 DEF NumbersOK
<1>5. CASE UNCHANGED <<valid, cookie, disturbed>>
  <2>1. NumbersOK'
    BY <1>1, <1>3, <1>5 DEF NumbersOK
  <2>2. RenewalsOK'
    BY <1>1, <1>3, <1>4, <1>5 DEF RenewalsOK, Underway, Carries, NumbersOK
  <2>3. ~disturbed' => Kept'
    BY <1>1, <1>3, <1>5 DEF Kept, Carries
  <2> QED
    BY <1>2, <2>1, <2>2, <2>3 DEF SessionInv, TokensOK
<1>6. CASE valid' = valid \ {leaving[t]} /\ cookie' = 0 /\ disturbed' = (disturbed \/ cookie \notin {0, leaving[t]})
  <2>1. NumbersOK'
    <3>1. leaving' \in [Tabs -> Nat] /\ \A s \in Tabs : leaving'[s] <= issued
      BY <1>1, <1>3 DEF NumbersOK
    <3>2. cookie' \in 0..issued' /\ valid' \subseteq 1..issued'
      <4>1. issued \in Nat /\ valid \subseteq 1..issued
        BY <1>3 DEF NumbersOK
      <4>2. issued' = issued /\ cookie' = 0 /\ valid' \subseteq valid
        BY <1>1, <1>6
      <4> QED
        BY <4>1, <4>2
    <3> QED
      BY <1>1, <1>3, <3>1, <3>2 DEF NumbersOK
  <2>2. RenewalsOK'
    BY <1>1, <1>3, <1>4, <1>6 DEF RenewalsOK, Underway, Carries, NumbersOK
  <2>3. ASSUME ~disturbed' PROVE Kept'
    <3>1. Kept /\ flag
      BY <1>1, <1>3, <1>6, <2>3 DEF Kept, RenewalsOK
    <3>2. \A s \in Tabs : flight[s].st = "sent" /\ s \notin told => flight[s].tok \in valid'
      BY <1>1, <1>3, <1>6, <3>1 DEF Kept, RenewalsOK
    <3>3. \A s \in Tabs : Carries(s) => flight[s].tok \in valid'
      BY <1>1, <1>3, <1>6, <3>1 DEF Kept, RenewalsOK
    <3> QED
      BY <1>1, <3>1, <3>2, <3>3 DEF Kept, Carries
  <2> QED
    BY <1>2, <2>1, <2>2, <2>3 DEF SessionInv, TokensOK
<1> QED
  BY <1>5, <1>6 DEF LogoutAnswer

LEMMA SendLoginIsKept ==
  ASSUME SessionInv, NEW t \in Tabs, SendLogin(t)
  PROVE  SessionInv'
<1>1. /\ Abort(t) /\ tab' = [tab EXCEPT ![t].step = "signing"]
      /\ UNCHANGED <<leaving, flag, told, cookie, expired, valid, issued, rejected>>
  BY DEF SendLogin, serverVars
<1>2. TokensOK'
  BY <1>1, AbortedTokens DEF SessionInv
<1>3. \A s \in Tabs \ {t} : flight'[s] = flight[s]
  BY <1>1, Dropped DEF Abort, SessionInv
<1>4. TabsOK'
  BY <1>1, <1>3, SteppedTab DEF SessionInv, Steps
<1> QED
  BY <1>2, <1>4 DEF SessionInv

LEMMA LoginAnswerIsKept ==
  ASSUME SessionInv, NEW t \in Tabs, LoginAnswer(t)
  PROVE  SessionInv'
<1>1. /\ issued' = issued + 1 /\ valid' = valid \cup {issued + 1} /\ cookie' = issued + 1 /\ expired' = FALSE
      /\ flag' = FALSE /\ UNCHANGED <<flight, leaving, told, rejected, disturbed>>
  BY DEF LoginAnswer
<1>2. NumbersOK /\ RenewalsOK /\ (~disturbed => Kept)
  BY DEF SessionInv, TokensOK
<1>3. TabsOK'
  <2>1. PICK o \in BOOLEAN, u \in Users, x \in Steps : o = FALSE /\ u = "login" /\ x = "entering"
    BY Zenon DEF Users, Steps
  <2>2. PICK r : r = [tab[t] EXCEPT !.out = o, !.user = u, !.step = x]
    OBVIOUS
  <2>3. tab[t] \in TabState
    BY DEF SessionInv, TabsOK
  <2>4. r \in TabState /\ r.step = x /\ r.user = u
    BY <2>2, <2>3 DEF TabState, Users, Steps
  <2>5. tab' = [tab EXCEPT ![t] = r]
    BY <2>1, <2>2, Zenon DEF LoginAnswer
  <2> QED
    BY <1>1, <2>1, <2>4, <2>5, TabMoves DEF SessionInv
<1>4. NumbersOK'
  <2>1. issued \in Nat /\ valid \subseteq 1..issued
    BY <1>2 DEF NumbersOK
  <2>2. issued' \in Nat /\ cookie' \in 0..issued' /\ valid' \subseteq 1..issued'
    BY <1>1, <2>1
  <2>3. \A s \in Tabs : flight'[s].tok <= issued' /\ leaving'[s] <= issued'
    BY <1>1, <1>2 DEF NumbersOK, Flight
  <2> QED
    BY <1>1, <1>2, <2>2, <2>3 DEF NumbersOK
<1>5. RenewalsOK'
  BY <1>1, <1>2 DEF RenewalsOK, NumbersOK, Underway, Carries
<1>6. ~disturbed' => Kept'
  BY <1>1, <1>2 DEF Kept, NumbersOK, Carries
<1> QED
  BY <1>3, <1>4, <1>5, <1>6 DEF SessionInv, TokensOK

LEMMA EnterIsKept ==
  ASSUME SessionInv, NEW t \in Tabs, Enter(t) \/ OpenApp(t)
  PROVE  SessionInv'
<1>1. UNCHANGED <<flight, leaving, flag, told, cookie, expired, valid, issued, disturbed, rejected>>
  BY DEF Enter, OpenApp, serverVars, eventVars
<1>2. tab[t] \in TabState /\ (tab[t].out => tab[t].user # "session") /\ cookie \in Nat
  BY DEF SessionInv, TabsOK, TabFits, TokensOK, NumbersOK
<1>3. CASE Enter(t)
  <2>1. PICK e : e = (~tab[t].out /\ ~flag)
    OBVIOUS
  <2>2. e \in BOOLEAN
    BY <2>1
  <2>3. PICK x \in Steps : x = (IF ~tab[t].out /\ ~flag THEN "profile" ELSE "none")
    BY DEF Steps
  <2>4. PICK p \in Places, u \in Users, w \in Waits : p = "app" /\ u = "login" /\ w = "no"
    BY Zenon DEF Places, Users, Waits
  <2>5. PICK r : r = [tab[t] EXCEPT !.place = p, !.user = u, !.effect = e, !.tok = cookie, !.wait = w, !.step = x]
    OBVIOUS
  <2>6. r \in TabState /\ r.step = x /\ r.user = u
    BY <1>2, <2>2, <2>5 DEF TabState, Places, Users, Waits, Steps, Tokens
  <2>7. tab' = [tab EXCEPT ![t] = r]
    BY <1>3, <2>1, <2>3, <2>4, <2>5, Zenon DEF Enter
  <2>8. x \notin {"renew", "again"}
    BY <2>3
  <2>9. TabsOK'
    BY <1>1, <2>4, <2>6, <2>7, <2>8, TabMoves DEF SessionInv
  <2> QED
    BY <1>1, <2>9, TokensStay DEF SessionInv
<1>4. CASE OpenApp(t)
  <2>1. PICK e : e = ~flag
    OBVIOUS
  <2>2. e \in BOOLEAN
    BY <2>1
  <2>3. PICK x \in Steps : x = (IF flag THEN "none" ELSE "profile")
    BY DEF Steps
  <2>4. PICK w \in Waits : w = (IF flag THEN "no" ELSE "loading")
    BY DEF Waits
  <2>5. PICK p \in Places : p = "app"
    BY DEF Places
  <2>6. PICK r : r = [tab[t] EXCEPT !.place = p, !.effect = e, !.tok = cookie, !.wait = w, !.step = x]
    OBVIOUS
  <2>7. r \in TabState /\ r.step = x /\ r.user = tab[t].user /\ r.out = tab[t].out
    BY <1>2, <2>2, <2>6 DEF TabState, Places, Waits, Steps, Tokens
  <2>8. tab' = [tab EXCEPT ![t] = r]
    BY <1>4, <2>1, <2>3, <2>4, <2>5, <2>6, Zenon DEF OpenApp
  <2>9. x \notin {"renew", "again"}
    BY <2>3
  <2>10. TabsOK'
    BY <1>1, <1>2, <2>7, <2>8, <2>9, TabMoves DEF SessionInv
  <2> QED
    BY <1>1, <2>10, TokensStay DEF SessionInv
<1> QED
  BY <1>3, <1>4

-----------------------------------------------------------------------------
(* Verification                                                            *)

LEMMA RetrySet ==
  ASSUME NEW s \in TabState, NEW y \in BOOLEAN
  PROVE  LET r == [s EXCEPT !.retry = y]
         IN  r \in TabState /\ r.step = s.step /\ r.user = s.user /\ r.out = s.out
BY DEF TabState

LEMMA Outage ==
  ASSUME NEW s \in TabState
  PROVE  LET r == outage(s)
         IN  r \in TabState /\ r.step = "none" /\ r.user = s.user /\ r.out = s.out
<1>1. PICK x \in Steps, w \in Waits, y \in BOOLEAN : x = "none" /\ w = "reconnecting" /\ y = TRUE
  BY Zenon DEF Steps, Waits
<1>2. PICK r : r = [s EXCEPT !.step = x, !.wait = w, !.retry = y]
  OBVIOUS
<1>3. r \in TabState /\ r.step = x /\ r.user = s.user /\ r.out = s.out
  BY <1>2 DEF TabState, Steps, Waits
<1>4. r = outage(s)
  BY <1>1, <1>2, Zenon DEF outage
<1> QED
  BY <1>1, <1>3, <1>4, Zenon

(* A row with the user and the mark it had, that waits for no renewal.     *)
LEMMA CalmTab ==
  ASSUME SessionInv, NEW t \in Tabs, NEW r \in TabState, tab' = [tab EXCEPT ![t] = r],
         r.step = tab[t].step \/ r.step \notin {"renew", "again"}, r.user = tab[t].user /\ r.out = tab[t].out,
         UNCHANGED <<flight, leaving, flag, told, cookie, expired, valid, issued, disturbed, rejected>>
  PROVE  SessionInv'
<1>1. TabFits(t) /\ TabsOK /\ TokensOK
  BY DEF SessionInv, TabsOK
<1>2. TabsOK'
  BY <1>1, TabMoves DEF TabFits
<1> QED
  BY <1>1, <1>2, TokensStay DEF SessionInv

LEMMA ReverifyIsKept ==
  ASSUME SessionInv, NEW t \in Tabs, Reverify(t),
         UNCHANGED <<flight, leaving, flag, told, cookie, expired, valid, issued, disturbed, rejected>>
  PROVE  SessionInv'
<1>1. PICK x \in Steps, y \in BOOLEAN : x = "profile" /\ y = FALSE
  BY Zenon DEF Steps
<1>2. PICK r : r = [tab[t] EXCEPT !.step = x, !.tok = cookie, !.retry = y]
  OBVIOUS
<1>3. tab[t] \in TabState /\ cookie \in Nat
  BY DEF SessionInv, TabsOK, TokensOK, NumbersOK
<1>4. r \in TabState /\ r.step = x /\ r.user = tab[t].user /\ r.out = tab[t].out
  BY <1>2, <1>3 DEF TabState, Steps, Tokens
<1>5. tab' = [tab EXCEPT ![t] = r]
  BY <1>1, <1>2, Zenon DEF Reverify
<1> QED
  BY <1>1, <1>4, <1>5, CalmTab

(* A step of the tab and nothing else.                                     *)
LEMMA StepIsKept ==
  ASSUME SessionInv, NEW t \in Tabs, NEW x \in Steps, x \notin {"renew", "again"}, tab' = [tab EXCEPT ![t].step = x],
         UNCHANGED <<flight, leaving, flag, told, cookie, expired, valid, issued, disturbed, rejected>>
  PROVE  SessionInv'
<1>1. TabsOK'
  BY SteppedTab DEF SessionInv
<1> QED
  BY <1>1, TokensStay DEF SessionInv

LEMMA PendingIsKept ==
  ASSUME SessionInv, NEW t \in Tabs, CleanUp(t) \/ Heartbeat(t) \/ Focus(t) \/ RetryTimer(t) \/ RequestFails(t) \/ ProfileAnswer(t)
  PROVE  SessionInv'
<1>1. UNCHANGED <<flight, leaving, flag, told, cookie, expired, valid, issued, disturbed, rejected>>
  BY DEF CleanUp, Heartbeat, Focus, RetryTimer, RequestFails, ProfileAnswer, serverVars, eventVars
<1>2. tab[t] \in TabState
  BY DEF SessionInv, TabsOK
<1>3. CASE \E x \in {"none", "caps"} : tab' = [tab EXCEPT ![t].step = x]
  BY <1>1, <1>3, StepIsKept DEF Steps
<1>4. CASE Reverify(t)
  BY <1>1, <1>4, ReverifyIsKept
<1>5. CASE tab' = [tab EXCEPT ![t].retry = FALSE]
  <2>1. PICK r : r = [tab[t] EXCEPT !.retry = FALSE]
    OBVIOUS
  <2>2. r \in TabState /\ r.step = tab[t].step /\ r.user = tab[t].user /\ r.out = tab[t].out
    BY <1>2, <2>1, RetrySet
  <2>3. tab' = [tab EXCEPT ![t] = r]
    BY <1>5, <2>1
  <2> QED
    BY <1>1, <2>2, <2>3, CalmTab
<1>6. CASE tab' = [tab EXCEPT ![t] = outage(tab[t])]
  <2>1. PICK r : r = outage(tab[t])
    OBVIOUS
  <2>2. r \in TabState /\ r.step = "none" /\ r.user = tab[t].user /\ r.out = tab[t].out
    BY <1>2, <2>1, Outage
  <2>3. tab' = [tab EXCEPT ![t] = r]
    BY <1>6, <2>1
  <2> QED
    BY <1>1, <2>2, <2>3, CalmTab
<1>7. CASE CleanUp(t) \/ ProfileAnswer(t)
  <2>1. tab' = [tab EXCEPT ![t].step = "none"] \/ tab' = [tab EXCEPT ![t].step = "caps"]
    BY <1>7 DEF CleanUp, ProfileAnswer
  <2> QED
    BY <1>3, <2>1
<1>8. CASE Heartbeat(t) \/ Focus(t) \/ RetryTimer(t)
  BY <1>4, <1>5, <1>8 DEF Heartbeat, Focus, RetryTimer
<1>9. CASE RequestFails(t)
  <2>1. CASE current(t)
    BY <1>6, <1>9, <2>1, Zenon DEF RequestFails
  <2>2. CASE ~current(t)
    <3>1. tab' = [tab EXCEPT ![t] = [@ EXCEPT !.step = "none"]]
      BY <1>9, <2>2, Zenon DEF RequestFails
    <3> QED
      BY <1>3, <3>1
  <2> QED
    BY <2>1, <2>2
<1> QED
  BY <1>7, <1>8, <1>9

LEMMA UnauthorizedIsKept ==
  ASSUME SessionInv, NEW t \in Tabs, Unauthorized(t)
  PROVE  SessionInv'
<1>1. UNCHANGED <<leaving, flag, told, cookie, expired, valid, issued, disturbed, rejected>>
  BY DEF Unauthorized, serverVars, eventVars
<1>2. TabsOK /\ TokensOK /\ NumbersOK
  BY DEF SessionInv, TokensOK
<1>3. CASE flight' = flight /\ \E x \in {"none", "renew"} : tab' = [tab EXCEPT ![t].step = x] /\ (x = "renew" => flight[t].st # "none")
  <2>1. TabsOK'
    BY <1>1, <1>2, <1>3, SteppedTab DEF Steps
  <2> QED
    BY <1>1, <1>2, <1>3, <2>1, TokensStay DEF SessionInv
<1>4. CASE flight[t].st = "none" /\ flight' = [flight EXCEPT ![t] = [st |-> "lock", tok |-> 0]] /\ tab' = [tab EXCEPT ![t].step = "renew"]
  <2>1. PICK f : f = [st |-> "lock", tok |-> 0]
    OBVIOUS
  <2>2. f \in Flight /\ f.st = "lock" /\ f.tok = 0
    BY <2>1 DEF Flight
  <2>3. flight' \in [Tabs -> Flight] /\ flight'[t] = f /\ \A s \in Tabs \ {t} : flight'[s] = flight[s]
    BY <1>2, <1>4, <2>1, <2>2 DEF NumbersOK
  <2>4. TabsOK'
    BY <1>1, <1>2, <1>4, <2>2, <2>3, SteppedTab DEF Steps
  <2>5. \A s \in Tabs : (Underway(s)' <=> Underway(s)) /\ (Carries(s)' <=> Carries(s)) /\ (Underway(s) => flight'[s] = flight[s])
    BY <1>4, <2>2, <2>3 DEF Underway, Carries
  <2>6. NumbersOK'
    BY <1>1, <1>2, <2>2, <2>3 DEF NumbersOK
  <2>7. RenewalsOK'
    BY <1>1, <1>2, <2>5 DEF TokensOK, RenewalsOK, Underway, Carries
  <2>8. ~disturbed' => Kept'
    BY <1>1, <1>2, <2>5 DEF TokensOK, Kept, Underway, Carries
  <2> QED
    BY <2>4, <2>6, <2>7, <2>8 DEF SessionInv, TokensOK
<1> QED
  BY <1>3, <1>4 DEF Unauthorized

(* With the lock free and the flag down, the cookie holds what the server  *)
(* accepts.                                                                *)
LEMMA CookieAccepted ==
  ASSUME TokensOK, ~disturbed, ~flag, lockFree
  PROVE  cookie \in valid
BY DEF TokensOK, Kept, lockFree, Carries

LEMMA UnauthorizedAgainIsKept ==
  ASSUME SessionInv, NEW t \in Tabs, UnauthorizedAgain(t)
  PROVE  SessionInv'
<1>1. UNCHANGED <<flight, leaving, cookie, expired, valid, issued>>
  BY DEF UnauthorizedAgain, serverVars
<1>2. TabsOK /\ TokensOK
  BY DEF SessionInv
<1>3. CASE canRecover(t)
  <2>1. /\ RejectSession(t) /\ disturbed' = (disturbed \/ tab[t].tok # cookie \/ ~lockFree)
        /\ tab[t].step = "again" /\ ~accepted(t)
    BY <1>3 DEF UnauthorizedAgain
  <2>2. ~disturbed' => FALSE
    BY <1>2, <1>3, <2>1, CookieAccepted DEF TabsOK, TabFits, accepted, canRecover
  <2>3. TabsOK'
    BY <1>1, <1>2, <2>1, ClearedTab DEF RejectSession
  <2>4. TokensOK'
    BY <1>1, <1>2, <2>1, <2>2, RejectedTokens DEF RejectSession
  <2> QED
    BY <2>3, <2>4 DEF SessionInv
<1>4. CASE ~canRecover(t)
  BY <1>1, <1>4, StepIsKept DEF UnauthorizedAgain, Steps
<1> QED
  BY <1>3, <1>4

LEMMA CapsAnswerIsKept ==
  ASSUME SessionInv, NEW t \in Tabs, CapsAnswer(t)
  PROVE  SessionInv'
<1>1. UNCHANGED <<cookie, expired, valid, issued, rejected>>
  BY DEF CapsAnswer, serverVars
<1>2. CASE ~current(t)
  <2>1. tab' = [tab EXCEPT ![t].step = "none"] /\ UNCHANGED <<flag, told, leaving, flight, disturbed>>
    BY <1>2 DEF CapsAnswer
  <2> QED
    BY <1>1, <2>1, StepIsKept DEF Steps
<1>3. CASE current(t) /\ roleChanged /\ tab[t].user # "none"
  BY <1>1, <1>3, SignOutIsKept DEF CapsAnswer
<1>4. CASE current(t) /\ ~(roleChanged /\ tab[t].user # "none")
  <2>1. UNCHANGED <<flag, told, leaving, flight, disturbed>>
    BY <1>4, Zenon DEF CapsAnswer
  <2>2. PICK x \in Steps, u \in Users, w \in Waits, y \in BOOLEAN : x = "none" /\ u = "session" /\ w = "no" /\ y = FALSE
    BY Zenon DEF Steps, Users, Waits
  <2>3. PICK r : r = [tab[t] EXCEPT !.step = x, !.user = u, !.wait = w, !.retry = y]
    OBVIOUS
  <2>4. tab[t] \in TabState /\ ~tab[t].out
    BY <1>4 DEF SessionInv, TabsOK, current, canRecover
  <2>5. r \in TabState /\ r.step = x /\ r.user = u /\ r.out = tab[t].out
    BY <2>3, <2>4 DEF TabState, Steps, Users, Waits
  <2>6. tab' = [tab EXCEPT ![t] = r]
    BY <1>4, <2>2, <2>3, Zenon DEF CapsAnswer
  <2>7. TabsOK'
    BY <1>1, <2>1, <2>2, <2>4, <2>5, <2>6, TabMoves DEF SessionInv
  <2> QED
    BY <1>1, <2>1, <2>7, TokensStay DEF SessionInv
<1> QED
  BY <1>2, <1>3, <1>4

-----------------------------------------------------------------------------
(* Renewal                                                                 *)

(* A tab that waited for the renewal does not any more.                    *)
LEMMA NoLongerWaits ==
  ASSUME TabsOK, NEW t \in Tabs, expired' = expired, \A s \in Tabs \ {t} : flight'[s] = flight[s],
         tab' = [tab EXCEPT ![t].step = IF @ = "renew" THEN "none" ELSE @]
  PROVE  TabsOK'
<1>1. PICK x \in Steps : x = (IF tab[t].step = "renew" THEN "none" ELSE tab[t].step)
  BY DEF TabsOK, TabState, Steps
<1>2. tab' = [tab EXCEPT ![t].step = x]
  BY <1>1
<1>3. x # "renew" /\ (x = "again" => ~expired)
  BY <1>1 DEF TabsOK, TabFits
<1> QED
  BY <1>2, <1>3, SteppedTab

(* One renewal changes.                                                    *)
LEMMA FlightSet ==
  ASSUME NumbersOK, NEW t \in Tabs, NEW f \in Flight, flight' = [flight EXCEPT ![t] = f]
  PROVE  flight' \in [Tabs -> Flight] /\ flight'[t] = f /\ \A s \in Tabs \ {t} : flight'[s] = flight[s]
BY DEF NumbersOK

LEMMA SendRenewalIsKept ==
  ASSUME SessionInv, NEW t \in Tabs, SendRenewal(t)
  PROVE  SessionInv'
<1>1. UNCHANGED <<leaving, flag, told, cookie, expired, valid, issued, disturbed, rejected>> /\ flight[t].st = "lock" /\ lockFree
  BY DEF SendRenewal, serverVars, eventVars
<1>2. TabsOK /\ TokensOK /\ NumbersOK
  BY DEF SessionInv, TokensOK
<1>3. CASE canRecover(t)
  <2>1. PICK f : f = [st |-> "sent", tok |-> cookie]
    OBVIOUS
  <2>2. f \in Flight /\ f.st = "sent" /\ f.tok = cookie
    BY <1>2, <2>1 DEF Flight, NumbersOK
  <2>3. flight' = [flight EXCEPT ![t] = f] /\ tab' = tab
    BY <1>3, <2>1 DEF SendRenewal
  <2>4. flight' \in [Tabs -> Flight] /\ flight'[t] = f /\ \A s \in Tabs \ {t} : flight'[s] = flight[s]
    BY <1>2, <2>2, <2>3, FlightSet
  <2>5. TabsOK'
    BY <1>1, <1>2, <2>2, <2>3, <2>4, TabsStay
  <2>6. \A s \in Tabs : (Underway(s)' => s = t) /\ ~Carries(s)'
    BY <1>1, <2>2, <2>4 DEF Underway, Carries, lockFree
  <2>7. ~flag
    BY <1>3 DEF canRecover
  <2>8. NumbersOK'
    BY <1>1, <1>2, <2>2, <2>4 DEF NumbersOK
  <2>9. \A s \in Tabs : leaving[s] # 0 => leaving[s] # cookie
    BY <1>2, <2>7 DEF TokensOK, RenewalsOK
  <2>10. RenewalsOK'
    BY <1>1, <2>2, <2>4, <2>6, <2>9 DEF RenewalsOK, Underway
  <2>11. ASSUME ~disturbed' PROVE Kept'
    <3>1. cookie \in valid /\ Kept
      BY <1>1, <1>2, <2>7, <2>11, CookieAccepted DEF TokensOK
    <3>2. \A s \in Tabs : flight'[s].st = "sent" => flight'[s].tok \in valid
      BY <2>2, <2>4, <2>6, <3>1 DEF Underway
    <3>3. \A s \in Tabs : flight'[s].st # "back"
      BY <2>2, <2>4, <2>6 DEF Underway
    <3> QED
      BY <1>1, <2>6, <3>1, <3>2, <3>3 DEF Kept
  <2> QED
    BY <2>5, <2>8, <2>10, <2>11 DEF SessionInv, TokensOK
<1>4. CASE ~canRecover(t)
  <2>1. flight' = [flight EXCEPT ![t] = NoFlight] /\ tab' = [tab EXCEPT ![t].step = IF @ = "renew" THEN "none" ELSE @]
    BY <1>4 DEF SendRenewal
  <2>2. TabsOK'
    BY <1>1, <1>2, <2>1, NoLongerWaits, Dropped
  <2>3. ~Carries(t)
    BY <1>1 DEF Carries
  <2>4. TokensOK'
    BY <1>1, <1>2, <2>1, <2>3, RejectedTokens
  <2> QED
    BY <2>2, <2>4 DEF SessionInv
<1> QED
  BY <1>3, <1>4

LEMMA ServerRenewsIsKept ==
  ASSUME SessionInv, NEW t \in Tabs, ServerRenews(t)
  PROVE  SessionInv'
<1>1. UNCHANGED <<tab, leaving, flag, told, cookie, expired, disturbed, rejected>> /\ flight[t].st = "sent"
  BY DEF ServerRenews, eventVars
<1>2. TabsOK /\ TokensOK /\ NumbersOK /\ RenewalsOK /\ (~disturbed => Kept)
  BY DEF SessionInv, TokensOK
<1>3. \A s \in Tabs : Underway(s) => s = t
  BY <1>1, <1>2 DEF RenewalsOK, Underway
<1>4. CASE flight[t].tok \in valid
  <2>1. PICK f : f = [st |-> "back", tok |-> issued + 1]
    OBVIOUS
  <2>2. f \in Flight /\ f.st = "back" /\ f.tok = issued + 1
    BY <1>2, <2>1 DEF Flight, NumbersOK
  <2>3. /\ flight' = [flight EXCEPT ![t] = f] /\ issued' = issued + 1
        /\ valid' = (valid \ {flight[t].tok}) \cup {issued + 1}
    BY <1>4, <2>1 DEF ServerRenews
  <2>4. flight' \in [Tabs -> Flight] /\ flight'[t] = f /\ \A s \in Tabs \ {t} : flight'[s] = flight[s]
    BY <1>2, <2>2, <2>3, FlightSet
  <2>5. TabsOK'
    BY <1>1, <1>2, <2>2, <2>4, TabsStay
  <2>6. NumbersOK'
    <3>0. issued \in Nat /\ cookie \in 0..issued /\ valid \subseteq 1..issued
      BY <1>2 DEF NumbersOK
    <3>1. issued' \in Nat /\ cookie' \in 0..issued' /\ valid' \subseteq 1..issued'
      <4>1. issued' = issued + 1 /\ cookie' = cookie /\ valid' \subseteq valid \cup {issued + 1}
        BY <1>1, <2>3
      <4> QED
        BY <3>0, <4>1
    <3>2. \A s \in Tabs : flight'[s].tok <= issued'
      BY <1>2, <2>2, <2>3, <2>4 DEF NumbersOK, Flight
    <3>3. leaving' \in [Tabs -> Nat] /\ \A s \in Tabs : leaving'[s] <= issued'
      BY <1>1, <1>2, <2>3 DEF NumbersOK
    <3> QED
      BY <2>4, <3>1, <3>2, <3>3 DEF NumbersOK
  <2>7. \A s \in Tabs : Underway(s)' => s = t
    BY <1>3, <2>4 DEF Underway
  <2>8. f.tok # cookie /\ f.tok # 0 /\ \A s \in Tabs : leaving[s] # f.tok
    BY <1>2, <2>2 DEF NumbersOK
  <2>9. RenewalsOK'
    BY <1>1, <1>2, <2>2, <2>4, <2>7, <2>8 DEF RenewalsOK, Underway, Carries
  <2>10. Carries(t)'
    BY <2>2, <2>4, <2>8 DEF Carries
  <2>11. ~disturbed' => Kept'
    BY <1>1, <1>2, <2>2, <2>3, <2>4, <2>7, <2>10 DEF Kept, Underway, Carries
  <2> QED
    BY <2>5, <2>6, <2>9, <2>11 DEF SessionInv, TokensOK
<1>5. CASE flight[t].tok \notin valid
  <2>1. PICK f : f = [st |-> "back", tok |-> 0]
    OBVIOUS
  <2>2. f \in Flight /\ f.st = "back" /\ f.tok = 0
    BY <2>1 DEF Flight
  <2>3. flight' = [flight EXCEPT ![t] = f] /\ UNCHANGED <<issued, valid>>
    BY <1>5, <2>1 DEF ServerRenews, serverVars
  <2>4. flight' \in [Tabs -> Flight] /\ flight'[t] = f /\ \A s \in Tabs \ {t} : flight'[s] = flight[s]
    BY <1>2, <2>2, <2>3, FlightSet
  <2>5. TabsOK'
    BY <1>1, <1>2, <2>2, <2>4, TabsStay
  <2>6. NumbersOK'
    BY <1>1, <1>2, <2>2, <2>3, <2>4 DEF NumbersOK
  <2>7. \A s \in Tabs : (Underway(s)' => s = t) /\ ~Carries(s)' /\ ~Carries(s)
    BY <1>1, <1>3, <2>2, <2>4 DEF Underway, Carries
  <2>8. RenewalsOK'
    BY <1>1, <1>2, <2>2, <2>4, <2>7 DEF RenewalsOK, Underway
  <2>9. ~disturbed' => Kept'
    <3> SUFFICES ASSUME ~disturbed' PROVE Kept'
      OBVIOUS
    <3>1. t \in told /\ Kept
      BY <1>1, <1>2, <1>5 DEF Kept
    <3>2. \A s \in Tabs : flight'[s].st \in {"sent", "back"} => s \in told
      BY <2>7, <3>1 DEF Underway
    <3> QED
      BY <1>1, <2>3, <2>7, <3>1, <3>2 DEF Kept
  <2> QED
    BY <2>5, <2>6, <2>8, <2>9 DEF SessionInv, TokensOK
<1> QED
  BY <1>4, <1>5

LEMMA RenewedIsKept ==
  ASSUME SessionInv, NEW t \in Tabs, Renewed(t)
  PROVE  SessionInv'
<1>1. /\ UNCHANGED <<leaving, flag, told, valid, issued, disturbed, rejected>> /\ expired' = FALSE
      /\ cookie' = flight[t].tok /\ Carries(t) /\ flight' = [flight EXCEPT ![t] = NoFlight]
  BY DEF Renewed, serverVars, eventVars, Carries
<1>2. TabsOK /\ TokensOK /\ NumbersOK /\ RenewalsOK /\ (~disturbed => Kept)
  BY DEF SessionInv, TokensOK
<1>3. /\ flight' \in [Tabs -> Flight] /\ flight'[t].st = "none" /\ flight'[t].tok = 0
      /\ \A s \in Tabs \ {t} : flight'[s] = flight[s]
      /\ \A s \in Tabs : flight'[s].st # "none" => s # t /\ flight'[s] = flight[s]
  BY <1>1, <1>2, Dropped
<1>4. \A s \in Tabs : ~Underway(s)'
  BY <1>1, <1>2, <1>3 DEF RenewalsOK, Underway, Carries
<1>5. cookie' \in Nat /\ cookie' # 0 /\ cookie' <= issued /\ \A s \in Tabs : leaving[s] # cookie'
  BY <1>1, <1>2 DEF NumbersOK, RenewalsOK, Carries, Flight
<1>6. NumbersOK'
  BY <1>1, <1>2, <1>3, <1>5 DEF NumbersOK
<1>7. RenewalsOK'
  BY <1>1, <1>4, <1>5 DEF RenewalsOK, Underway, Carries
<1>8. ~disturbed' => Kept'
  BY <1>1, <1>2, <1>4, <1>5 DEF Kept, Underway, Carries
<1>9. TabsOK'
  <2>1. CASE tab[t].step # "renew"
    <3>1. tab' = tab
      BY <1>2, <2>1 DEF Renewed, TabsOK
    <3>2. \A s \in Tabs : TabFits(s)'
      BY <1>1, <1>2, <1>3, <2>1, <3>1 DEF TabsOK, TabFits
    <3> QED
      BY <1>2, <3>1, <3>2 DEF TabsOK
  <2>2. CASE tab[t].step = "renew"
    <3>1. PICK x \in Steps : x = (IF canRecover(t) THEN "again" ELSE "none")
      BY DEF Steps
    <3>2. PICK k \in Nat : k = flight[t].tok
      BY <1>1, <1>5
    <3>3. PICK r : r = [tab[t] EXCEPT !.tok = k, !.step = x]
      OBVIOUS
    <3>4. tab[t] \in TabState /\ TabFits(t)
      BY <1>2 DEF TabsOK
    <3>5. r \in TabState /\ r.step = x /\ r.user = tab[t].user /\ r.out = tab[t].out
      BY <3>3, <3>4 DEF TabState, Steps, Tokens
    <3>6. tab' = [tab EXCEPT ![t] = r]
      BY <2>2, <3>1, <3>2, <3>3, Zenon DEF Renewed
    <3>7. x # "renew"
      BY <3>1
    <3> QED
      BY <1>1, <1>2, <1>3, <3>4, <3>5, <3>6, <3>7, TabMoves DEF TabFits
  <2> QED
    BY <2>1, <2>2
<1> QED
  BY <1>6, <1>7, <1>8, <1>9 DEF SessionInv, TokensOK

LEMMA RenewalRefusedIsKept ==
  ASSUME SessionInv, NEW t \in Tabs, RenewalRefused(t)
  PROVE  SessionInv'
<1>1. /\ UNCHANGED <<leaving, cookie, expired, valid, issued, disturbed>> /\ flight' = [flight EXCEPT ![t] = NoFlight]
      /\ flight[t].st = "back" /\ flight[t].tok = 0 /\ ~Carries(t)
  BY DEF RenewalRefused, serverVars, Carries
<1>2. TabsOK /\ TokensOK
  BY DEF SessionInv
<1>3. \A s \in Tabs \ {t} : flight'[s] = flight[s]
  BY <1>1, <1>2, Dropped
<1>4. CASE canRecover(t)
  <2>1. RejectSession(t)
    BY <1>4 DEF RenewalRefused
  <2>2. TabsOK'
    BY <1>1, <1>2, <1>3, <2>1, ClearedTab DEF RejectSession
  <2>3. ~disturbed => t \in told
    BY <1>1, <1>2 DEF TokensOK, Kept
  <2>4. ~disturbed' /\ rejected' => rejected
    BY <1>1, <2>1, <2>3 DEF RejectSession
  <2>5. TokensOK'
    BY <1>1, <1>2, <2>1, <2>4, RejectedTokens DEF RejectSession
  <2> QED
    BY <2>2, <2>5 DEF SessionInv
<1>5. CASE ~canRecover(t)
  <2>1. UNCHANGED <<rejected, flag, told>> /\ tab' = [tab EXCEPT ![t].step = IF @ = "renew" THEN "none" ELSE @]
    BY <1>5 DEF RenewalRefused
  <2>2. TabsOK'
    BY <1>1, <1>2, <1>3, <2>1, NoLongerWaits
  <2>3. TokensOK'
    BY <1>1, <1>2, <2>1, RejectedTokens
  <2> QED
    BY <2>2, <2>3 DEF SessionInv
<1> QED
  BY <1>4, <1>5

LEMMA RenewalFailsIsKept ==
  ASSUME SessionInv, NEW t \in Tabs, RenewalFails(t)
  PROVE  SessionInv'
<1>1. Abort(t) /\ UNCHANGED <<leaving, flag, told, cookie, expired, valid, issued, rejected>>
  BY DEF RenewalFails, serverVars
<1>2. TabsOK /\ TokensOK
  BY DEF SessionInv
<1>3. TokensOK'
  BY <1>1, <1>2, AbortedTokens
<1>4. \A s \in Tabs \ {t} : flight'[s] = flight[s]
  BY <1>1, <1>2, Dropped DEF Abort
<1>5. tab[t] \in TabState /\ TabFits(t)
  BY <1>2 DEF TabsOK
<1>6. CASE tab[t].step # "renew"
  <2>1. PICK x \in Steps : x = tab[t].step
    BY <1>5 DEF TabState, Steps
  <2>2. tab' = [tab EXCEPT ![t] = tab[t]]
    BY <1>6, Zenon DEF RenewalFails
  <2>3. TabsOK'
    BY <1>1, <1>2, <1>4, <1>5, <1>6, <2>2, TabMoves DEF TabFits
  <2> QED
    BY <1>3, <2>3 DEF SessionInv
<1>7. CASE tab[t].step = "renew" /\ current(t)
  <2>1. PICK r : r = outage(tab[t])
    OBVIOUS
  <2>2. r \in TabState /\ r.step = "none" /\ r.user = tab[t].user /\ r.out = tab[t].out
    BY <1>5, <2>1, Outage
  <2>3. tab' = [tab EXCEPT ![t] = r]
    BY <1>7, <2>1, Zenon DEF RenewalFails
  <2>4. TabsOK'
    BY <1>1, <1>2, <1>4, <1>5, <2>2, <2>3, TabMoves DEF TabFits
  <2> QED
    BY <1>3, <2>4 DEF SessionInv
<1>8. CASE tab[t].step = "renew" /\ ~current(t)
  <2>1. tab' = [tab EXCEPT ![t] = [tab[t] EXCEPT !.step = "none"]]
    BY <1>8, Zenon DEF RenewalFails
  <2>2. tab' = [tab EXCEPT ![t].step = "none"]
    BY <2>1
  <2>3. TabsOK'
    BY <1>1, <1>2, <1>4, <2>2, SteppedTab DEF Steps
  <2> QED
    BY <1>3, <2>3 DEF SessionInv
<1> QED
  BY <1>6, <1>7, <1>8

LEMMA OutsideIsKept ==
  ASSUME SessionInv, OrphanRenewal \/ World
  PROVE  SessionInv'
<1>1. UNCHANGED <<tab, flight, leaving, flag, told, cookie, rejected>>
  BY DEF OrphanRenewal, World
<1>2. TabsOK /\ TokensOK /\ NumbersOK /\ RenewalsOK
  BY DEF SessionInv, TokensOK
<1>3. CASE expired' = expired
  <2>1. TabsOK'
    BY <1>1, <1>2, <1>3, TabsStay
  <2>2. CASE UNCHANGED <<valid, issued, disturbed>>
    BY <1>1, <1>2, <2>1, <2>2, TokensStay DEF SessionInv
  <2>3. CASE disturbed' /\ issued' \in {issued, issued + 1} /\ valid' \subseteq valid \cup (1..issued')
    <3>1. NumbersOK'
      <4>1. issued' \in Nat /\ issued <= issued'
        BY <1>2, <2>3 DEF NumbersOK
      <4>2. cookie' \in 0..issued' /\ valid' \subseteq 1..issued'
        BY <1>1, <1>2, <2>3, <4>1 DEF NumbersOK
      <4>3. \A s \in Tabs : flight'[s].tok <= issued' /\ leaving'[s] <= issued'
        BY <1>1, <1>2, <4>1 DEF NumbersOK, Flight
      <4> QED
        BY <1>1, <1>2, <4>1, <4>2, <4>3 DEF NumbersOK
    <3>2. RenewalsOK'
      BY <1>1, <1>2 DEF RenewalsOK, Underway, Carries
    <3> QED
      BY <2>1, <2>3, <3>1, <3>2 DEF SessionInv, TokensOK
  <2>4. CASE OrphanRenewal
    BY <1>2, <2>2, <2>3, <2>4 DEF OrphanRenewal, serverVars, NumbersOK
  <2>5. CASE World
    BY <2>2, <2>3, <2>5 DEF World
  <2> QED
    BY <2>4, <2>5
<1>4. CASE expired' # expired
  <2>1. (\A t \in Tabs : tab[t].step # "again") /\ UNCHANGED <<valid, issued, disturbed>>
    BY <1>4 DEF OrphanRenewal, World
  <2>2. TabsOK'
    BY <1>1, <1>2, <2>1 DEF TabsOK, TabFits
  <2> QED
    BY <1>1, <1>2, <2>1, <2>2, TokensStay DEF SessionInv
<1> QED
  BY <1>3, <1>4

LEMMA SessionStep ==
  ASSUME SessionInv, [SessionNext]_sessionVars
  PROVE  SessionInv'
<1>1. CASE UNCHANGED sessionVars
  <2>1. UNCHANGED <<tab, flight, leaving, flag, told, cookie, expired, valid, issued, disturbed, rejected>>
    BY <1>1 DEF sessionVars, serverVars, eventVars
  <2> QED
    BY <2>1, TabsStay, TokensStay DEF SessionInv
<1>2. ASSUME NEW t \in Tabs, TabStep(t)
      PROVE  SessionInv'
  BY <1>2, LogoutAnswerIsKept, ObserveIsKept, PendingIsKept, LoginAnswerIsKept, EnterIsKept, UnauthorizedIsKept,
     UnauthorizedAgainIsKept, CapsAnswerIsKept, SendRenewalIsKept, ServerRenewsIsKept, RenewedIsKept,
     RenewalRefusedIsKept DEF TabStep
<1>3. ASSUME NEW t \in Tabs, Logout(t)
      PROVE  SessionInv'
  BY <1>3, SignOutIsKept DEF Logout, serverVars
<1>4. ASSUME NEW t \in Tabs, SendLogin(t) \/ OpenApp(t) \/ Heartbeat(t) \/ Focus(t) \/ RequestFails(t) \/ RenewalFails(t)
      PROVE  SessionInv'
  BY <1>4, SendLoginIsKept, EnterIsKept, PendingIsKept, RenewalFailsIsKept
<1> QED
  BY <1>1, <1>2, <1>3, <1>4, OutsideIsKept DEF SessionNext

-----------------------------------------------------------------------------
(* The platform together                                                   *)
LEMMA StepOfEach ==
  ASSUME [PlatformNext]_platformVars
  PROVE  [SessionNext]_sessionVars /\ [LiveNext]_liveVars /\ [IdleNext]_idleVars
BY DEF PlatformNext, platformVars

(* However tickets, timers, broken streams, mounts and sign-outs           *)
(* interleave, one stream feeds the page, and while the event bus drops    *)
(* nothing, a page with an open stream and nothing left to fetch shows     *)
(* what the server has.                                                    *)
THEOREM LiveUpdatesHold == PlatformSpec => []LiveHolds
<1>1. PlatformInit => LiveInv
  BY LiveStarts DEF PlatformInit
<1>2. LiveInv /\ [PlatformNext]_platformVars => LiveInv'
  BY StepOfEach, LiveStep
<1> QED
  BY <1>1, <1>2, LiveImplies, PTL DEF PlatformSpec

(* Activity that comes before a late timer does not make good the time     *)
(* beyond the limit.                                                       *)
THEOREM IdleTimeIsCounted == PlatformSpec => IdleTimeCounts
<1> DEFINE Counts == excused' \/ lastActivity' = lastActivity \/ lastActivity' - lastActivity < limit
<1>1. PlatformInit => IdleInv
  BY IdleStarts DEF PlatformInit
<1>2. IdleInv /\ [PlatformNext]_platformVars => IdleInv' /\ [Counts]_idleVars
  BY StepOfEach, IdleStep
<1> QED
  BY <1>1, <1>2, PTL DEF PlatformSpec, IdleTimeCounts

(* However tabs verify, renew, sign out and sign in next to each other, a  *)
(* tab that is signed out stays so, and a tab gives its session up as      *)
(* rejected only when something ended it: two tabs never spend the same    *)
(* token, for any number of tabs.                                          *)
THEOREM SessionIsKept == PlatformSpec => []SessionHolds
<1>1. PlatformInit => SessionInv
  BY SessionStarts DEF PlatformInit
<1>2. SessionInv /\ [PlatformNext]_platformVars => SessionInv'
  BY StepOfEach, SessionStep
<1> QED
  BY <1>1, <1>2, SessionImplies, PTL DEF PlatformSpec
=============================================================================
