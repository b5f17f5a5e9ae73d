CONSTANTS
  Tickets = {1, 2}
  Specialised = {2}
  Staff = {s1, s2}
  Handlers = {h1}
  Ops = {"create", "overtime", "pickup", "assign", "correct", "cancel", "start", "pause", "finish", "resume", "time", "cron", "assignSame", "unfreeze", "reopen", "accept", "absence"}
  Crashes = TRUE
  NoOne = NoOne
SPECIFICATION Spec
SYMMETRY Interchangeable
CHECK_DEADLOCK FALSE
INVARIANTS RunningNeverWaits
