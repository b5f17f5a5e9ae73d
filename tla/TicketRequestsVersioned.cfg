CONSTANTS
  Tickets = {1, 2}
  Staff = {s1}
  Requests = {r1, r2}
  Ops = {"update", "duplicate", "cancel", "claim"}
  Crashes = TRUE
  NoOne = NoOne
SPECIFICATION Spec
SYMMETRY Interchangeable
CHECK_DEADLOCK FALSE
PROPERTY TerminalIsFinal
PROPERTY LifecycleImplemented
