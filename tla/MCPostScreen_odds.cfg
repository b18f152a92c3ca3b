SPECIFICATION Spec
CONSTANTS
    p1 = p1
    p2 = p2
    u1 = u1
    u2 = u2
    c1 = c1
    c2 = c2
    c3 = c3
    None = None
    Posts = {p1, p2}
    Comments = {c1, c2, c3}
    Users = {u1, u2}
    Me = u1
    AuthorOf <- Author
    Old <- Thread
    MaxReads = 3
    MaxQueue = 1
    MaxTaps = 3
INVARIANTS CrashHasCause  ShownIsStored ReplyAsShown RepliesStay
 
CHECK_DEADLOCK FALSE
