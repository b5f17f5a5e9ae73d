SPECIFICATION RecordsSpec
CONSTANTS
  c1 = c1
  c2 = c2
  k1 = k1
  k2 = k2
  l1 = l1
  l2 = l2
  u1 = u1
  u2 = u2
  n1 = n1
  n2 = n2
  r1 = r1
  p1 = p1
  s1 = s1
  i1 = i1
  i2 = i2
  e1 = e1
  x1 = x1
  o1 = o1
  Clients = {c1, c2}
  MaxAttempts = 3
  MaxChallenge = 2
  MaxCodes = 3
  MaxVerified = 1
  MaxSessions = 4
  MaxUnlocks = 1
  MaxEdits = 1
  Reports = {r1}
  Plans = {p1}
  Schedules = {s1}
  Managers = {u1, u2}
  PageUser = u1
  Quarters = {1, 2}
  NoRow = NoRow
  Nothing = Nothing
  Rewritten = Rewritten
  MaxChanges = 2
  MaxMoves = 3
  Issuances = {i1, i2}
  AssessedQuarters = {1, 2}
  Statuses = {"compliant", "partial"}
  EvidenceIds = {e1}
  ActionIds = {x1}
  Others = {o1}
  Absent = Absent
  MaxAsks = 3
  Codes = {k1, k2}
  MasterForms <- Forms
  Values = {0, 1, 3, 9}
  Users = {u1, u2}
  Page = u1
  Rules = {1, 2}
  None = None
  MaxRequests = 3
  KpiUnits = {n1, n2}
  KpiPeriods = {1, 2}
  WithRows <- RowsOfFirst
  NoUnit = NoUnit
  NoPane = NoPane
  Chains = {l1, l2}
  MaxViewChanges = 2
SYMMETRY Interchangeable
CHECK_DEADLOCK FALSE
INVARIANTS SignInHolds  ReportsAgree
PROPERTIES RecordsKept
