CONSTANTS
    Exits = {x1, x2}
    Assets = {a1}
    Principal = 2
    MaxWork = 5
    Nobody = Nobody
SPECIFICATION ExitSpec
INVARIANTS LoanNeverForgiven CustodyAgrees
 
CHECK_DEADLOCK FALSE
