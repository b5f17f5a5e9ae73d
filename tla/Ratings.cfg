SPECIFICATION MCSpec
CONSTANTS
 i1 = i1
 i2 = i2
 k1 = k1
 k2 = k2
 c1 = c1
 c2 = c2
 Invitations = {i1, i2}
 Tickets = {k1, k2}
 Clients = {c1, c2}
 None = None
 MaxAttempts = 1
 MaxCodes = 2
 MaxTokens = 1
 MaxEvents = 2
 a = a
 b = b
 Kinds = {"it", "desk"}
 Technicians = {a, b}
 Manager = Manager
 Admin = Admin
 Requester = Requester
 MonthLength = 2
 Months = 2
 AllowedHours = 1
 PauseAllowance = 1
 Unset = Unset
 Filings <- ThreeFilings
 MaxFigSteps <- FourSteps
 LastInstant = 4
 MaxIhChanges = 3
 MaxLost = 2
 Unknown = Unknown
 net = net
 mail = mail
 slow = slow
 lost = lost
 ru1 = ru1
 ru2 = ru2
 Categories = {net, mail}
 Issues = {slow, lost}
 Rules = {ru1, ru2}
 Unnamed = Unnamed
 MaxSettings = 1
 MaxFilings = 2
SYMMETRY Sym
CHECK_DEADLOCK FALSE
INVARIANTS  FiguresAgree HistoryIsTrue 
PROPERTIES ClosedStaysClosed StoredTogether
