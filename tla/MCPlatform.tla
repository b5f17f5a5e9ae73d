----------------------------- MODULE MCPlatform -----------------------------
(***************************************************************************)
(* The session of a browser with its tabs, the live updates of a tab, its  *)
(* inactivity lock and the capability caches behind it, each by itself:    *)
(* `part` settles which of them a behaviour is about, and the others stay  *)
(* as they start, where none of their fair steps is enabled.               *)
(***************************************************************************)
EXTENDS BrowserSession, LiveUpdates, IdleLock, CapabilityCache

CONSTANTS t1, t2, a1, a2, f1, k1, k2
VARIABLE part
platformVars == <<sessionVars, liveVars, idleVars, capVars, part>>

PlatformInit ==
  /\ part \in {"session", "live", "idle", "capabilities"}
  /\ SessionInit /\ LiveInit /\ IdleInit /\ CapInit

PlatformNext ==
  /\ UNCHANGED part
  /\ \/ part = "session" /\ SessionNext /\ UNCHANGED <<liveVars, idleVars, capVars>>
     \/ part = "live" /\ LiveNext /\ UNCHANGED <<sessionVars, idleVars, capVars>>
     \/ part = "idle" /\ IdleNext /\ UNCHANGED <<sessionVars, liveVars, capVars>>
     \/ part = "capabilities" /\ CapNext /\ UNCHANGED <<sessionVars, liveVars, idleVars>>

PlatformSpec ==
  /\ PlatformInit /\ [][PlatformNext]_platformVars
  /\ SessionFairness /\ LiveFairness /\ CapFairness

\* Once the network and the users service hold, every part gets where it should be.
PlatformRecovers == SessionSettles /\ StreamReturns /\ CapabilitiesCatchUp
=============================================================================
