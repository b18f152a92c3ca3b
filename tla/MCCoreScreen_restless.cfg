SPECIFICATION FairSpec
CONSTANTS
    me = me
    other = other
    None = None
    Me = me
    Users = {me, other}
    Leagues = 2
    Emptiness = {TRUE, FALSE}
    MayRotate = TRUE
    MaxRequests = 1
    MaxTaps = 3
INVARIANTS TypeOK ShownIsLoaded NeverNull ShownHasForum NoCrash OneChain
PROPERTIES LoadsPosts
CHECK_DEADLOCK FALSE
