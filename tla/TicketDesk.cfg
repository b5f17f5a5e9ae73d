SPECIFICATION DeskSpec
CONSTANTS
  DayLength = 6
  LastDay = 1
  LastSlot = 7
  Shifts <- SixSlots
  LunchStart = 3
  LunchEnd = 4
  SlaHours = 2
  PauseHours = 1
  FreezeHours = 3
  Never = Never
  MaxLate = 1
  MaxChanges = 1
  MaxRequests = 3
  u = u
  a = a
  m = m
  g = g
  h = h
  People = {u, a, m}
  Is <- RolesOf
  Slots = {g, h}
  MaxCalls = 3
  MaxProofs = 2
  MaxMoves = 1
  Nobody = Nobody
  ListFilters = {"all", "rate"}
  ToRate = "rate"
  Searches = {"", "x"}
  NoRows = NoRows
  MaxListChanges = 1
  MaxListMoves = 2
SYMMETRY InFlight
CHECK_DEADLOCK FALSE
INVARIANTS ClockHolds ConversationHolds ListHolds
PROPERTIES ClockIsFair AnswerLostOnlyByStaleSave
