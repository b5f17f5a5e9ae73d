SPECIFICATION MCSpec
CONSTANTS
 t1 = t1
 t2 = t2
 m1 = m1
 None = None
 Techs = {t1, t2}
 Order <- MCOrder
 Late = {}
 OdOnly = {}
 OdOverride = FALSE
 Meetings = {m1}
 Venue <- MCVenue
 Period <- MCPeriod
 DUTY_PRIORITY <- MCPriority
 MaxChanges = 2
 MaxCrashes = 1
 
PROPERTIES AbsenceOnlyFillsGap DutySettles
