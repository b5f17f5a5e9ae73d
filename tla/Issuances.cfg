SPECIFICATION Spec
CONSTANTS
  i1 = i1
  i2 = i2
  d1 = d1
  d2 = d2
  u1 = u1
  u2 = u2
  f1 = f1
  r1 = r1
  r2 = r2
  None = None
  Issuances = {i1, i2}
  Domains = {d1, d2}
  Files = {f1}
  Requests = {r1, r2}
  Links <- MCLinks
  Forms <- MCForms
  Edits <- MCEdits
  Starts <- MCStarts
  Regimes = {"serial", "crash", "overlap"}
  MaxCalls = 3
  MaxOverlap = 2
SYMMETRY MCSymmetry
CHECK_DEADLOCK FALSE
 
PROPERTIES OnlyReviewIncludes
