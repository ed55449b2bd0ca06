CONSTANTS
    Orders = {o1, o2}
    Refs = {r1, r2}
    Payments = {p1, p2}
    Plans = {starter, pro}
    RecurringPlans = {pro}
    Keys = {}
    Slots = {s1}
    Period = 1
    TrialDays = 1
    TrialGrace = 1
    Grace = 1
    MaxDay = 2
    MaxGrants = 1
    None = None
SPECIFICATION Spec
INVARIANTS OnePeriodPerPayment CopiesAgree PaidMeansUsable
 
CHECK_DEADLOCK FALSE
