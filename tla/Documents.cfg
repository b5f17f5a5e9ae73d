SPECIFICATION MCSpec
CONSTANTS
  d1 = d1
  d2 = d2
  p1 = p1
  p2 = p2
  Docs = {d1, d2}
  Procs = {p1, p2}
  Contents = {docx, pdf}
  Docx = {docx}
  Readable = {docx, pdf}
  Failing = {pdf}
  NoText = NoText
  None = None
  MaxVersions = 3
  MaxRequests = 4
  MaxCrashes = 1
  Faults = {"redis", "task"}
CHECK_DEADLOCK FALSE
INVARIANTS DocVersionsHold DocCurrentVersionScored
 
