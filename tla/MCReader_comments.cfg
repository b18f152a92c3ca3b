CONSTANTS
    p1 = p1
    p2 = p2
    Posts = {p1, p2}
    me = me
    other = other
    Users = {me, other}
    Me = me
    TextOf <- Texts
    HourOf <- Hours
    MaxQueue = 1
    None = None
SPECIFICATION Spec
INVARIANTS
    CrashHasCause
    NamesRight
    InOrderMade
    RepliesInThread
    
CHECK_DEADLOCK FALSE
