CONSTANTS
    Employees = {e1}
    Claims = {c1}
    Loans = {l1}
    Settlements = {x1}
    LastMonth = 2
    Amount = 3
    Instalment = 2
    Runs = {g1}
    Slots = {s1}
    Serial = TRUE
    Straddles = FALSE
    None = None
    Horizon = 3
    FirstDay <- Calendar
    Cycles <- CyclePairs
    RuleSets <- LateRules
    Todays = {2, 5, 8, 13}
    MaxLates = 1
SPECIFICATION PayrollSpec
INVARIANTS LinkedIsReimbursed ProcessedIsSettled LedgerBalances DaysPaidOnce DaysAddUp
PROPERTIES SettledAmountsKept
