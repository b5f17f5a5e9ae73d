CONSTANTS
  Tickets = {1, 2, 3}
  Specialised = {3}
  Staff = {s1, s2}
  Handlers = {h1}
  Ops = {"create", "overtime", "pickup", "assign", "correct", "cancel", "pause", "finish", "time"}
  Crashes = FALSE
  NoOne = NoOne
SPECIFICATION FairSpec
CHECK_DEADLOCK FALSE
INVARIANTS NoStuckQueue
PROPERTIES  IdleQueueMoves
