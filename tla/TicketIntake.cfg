CONSTANTS
  Tickets = {1, 2, 3}
  Staff = {s1}
  Requests = {r1, r2}
  Ops = {"duplicate", "cancel", "claim"}
  Crashes = TRUE
  NoOne = NoOne
  a = a
  b = b
  u = u
  AaTickets = {1, 2}
  AaTechnicians = {a, b}
  AaTeam <- TeamOf
  AaSpecialists = {b}
  AaUser = u
  AaFilings <- Filed
  AaIssueHours = 2
  AaCap = 2
  AaLastDay = 1
  AaMaxTurns = 2
  AaMaxMoves = 1
  AaNobody = AaNobody
SPECIFICATION IntakeSpec
SYMMETRY Interchangeable
CHECK_DEADLOCK FALSE
INVARIANTS DuplicatesPointAtOriginals 
 
