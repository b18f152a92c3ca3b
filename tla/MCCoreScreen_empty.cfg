SPECIFICATION FairSpec
CONSTANTS
    me = me
    other = other
    None = None
    Me = me
    Users = {me, other}
    Leagues = 2
    Emptiness <- Always
    MayRotate = FALSE
    MaxRequests = 1
    MaxTaps = 2
PROPERTIES Loads
CHECK_DEADLOCK FALSE
