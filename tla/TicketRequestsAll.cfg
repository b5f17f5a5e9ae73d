CONSTANTS
  Tickets = {1}
  Staff = {s1, s2}
  Requests = {r1, r2}
  Ops <- AllOps
  Crashes = TRUE
  NoOne = NoOne
SPECIFICATION Spec
SYMMETRY Interchangeable
CHECK_DEADLOCK FALSE
INVARIANT TypeOK
INVARIANT FreshMeansCurrent
 
 
