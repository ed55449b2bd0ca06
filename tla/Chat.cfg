CONSTANTS
    u1 = u1
    u2 = u2
    a = a
    b = b
    None = None
    Nodes = {n1, n2}
    Users = {u1, u2}
    Sockets = {a, b}
    UserOf <- Owners
    Threads = {t1}
    MaxAdmin = 2
SPECIFICATION Spec
PROPERTIES RevokedGoesSilent PresenceSettles
CHECK_DEADLOCK FALSE
