CONSTANTS
    Ids = {r1, r2}
    Types = {"AL"}
    Quota = 1
    LastDay = 3
    YearEnd = 1
    MonthLength = 2
    MonthlyDays = 2
    CarryCap = 1
    OffDays = {}
    Slots = {s1, s2}
    Races = {"cancel"}
    Spans = FALSE
    Carries = 1
    None = None
SPECIFICATION Spec
INVARIANTS BalanceMatchesRequests
