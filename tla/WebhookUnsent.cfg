CONSTANTS
    Endpoints = {e1, e2}
    Events = {ev1}
    Deliveries = {d1, d2}
    Workers = {w1}
    NoRow = NoRow
    Gone = Gone
    AddedColumns = {}
    Delays = 2
    Limit = 2
    MaxRedeliver = 1
    MaxFaults = 1
SPECIFICATION Spec
INVARIANTS AttemptsAreSent
