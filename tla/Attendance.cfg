CONSTANTS
    Requests = {r1, r2}
    ClientIds = {i1}
    NoId = NoId
    None = None
    OffDays = {0}
    Overnight = TRUE
    Flexible = FALSE
    DayLength = 2
    Backdate = 2
    CarryOver = 2
    HalfDay = 1
    FullDay = 2
    MaxDay = 1
    MaxPunches = 4
    Branches = {b1}
    Shifts = {h1, h2}
    MaxAdmin = 2
    Dates = {d1}
    Times = {1, 2}
    Slots = {s1, s2}
    MaxCorrections = 2
    MaxMarks = 2
SPECIFICATION AttendanceSpec
INVARIANTS CreditedOnce  SweptMeansNoPunch DayOffHolds ApprovedHasRow
CHECK_DEADLOCK FALSE
