CONSTANTS
    Procs = {p1, p2}
    Dead = Dead
    Ttl = 0
    MaxFaults = 1
    Users = {u1}
    Desk = Desk
    Sunrise = 1
    Calendars <- SmallCalendars
    OnLeave = {}
    CameAt = 3
    LeftAt = 7
    NewMonth = 5
    MaxActs = 1
    MaxOverruns = 1
    None = None
SPECIFICATION RemSpec
INVARIANTS OneCoveredLeader RemindedOnce 
PROPERTIES LeaderReturns
