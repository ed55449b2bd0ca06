CONSTANTS
    Mails = {m1, m2, m3}
    Cands = {c1, c2}
    Staff = {e1, e2, e3}
    Desks = {s1, s2}
    Limit = 2
    MaxWork = 5
    Nobody = Nobody
SYMMETRY WorkforceSymmetry
SPECIFICATION WorkforceSpec
INVARIANTS HiresAreLinked
 
CHECK_DEADLOCK FALSE
