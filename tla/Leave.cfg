CONSTANTS
    Ids = {r1, r2}
    Types = {"AL"}
    Quota = 1
    LastDay = 3
    YearEnd = 1
    MonthLength = 2
    MonthlyDays = 2
    CarryCap = 1
    OffDays = {}
    Slots = {s1, s2}
    Races = {}
    Spans = FALSE
    Carries = 1
    Units = {1, 2}
    MaxAsks = 2
    Takes = {t1, t2}
    DayOff = TRUE
    NeedsApproval = TRUE
    MaxEmployee = 3
    MaxReviewer = 4
    None = None
SPECIFICATION TimeOffSpec
INVARIANTS BalanceMatchesRequests WithinAllocation LeaveIsMarked GrantBoundsPay  
PROPERTIES PunchesSurvive
SYMMETRY Symmetry
