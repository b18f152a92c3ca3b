SPECIFICATION FairSpec
CONSTANTS
    d1 = d1
    d2 = d2
    e1 = e1
    e2 = e2
    n1 = n1
    n2 = n2
    s1 = s1
    s2 = s2
    None = None
    Blank = Blank
    Devices = {d1, d2}
    Emails = {e1, e2}
    Names = {n1}
    Slots = {s1}
    MaxTaps = 4
INVARIANTS AnswersFindTheirScreen
PROPERTIES KeepsPromise DocumentFollows
CHECK_DEADLOCK FALSE
