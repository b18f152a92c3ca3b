SPECIFICATION Spec
CONSTANTS
    d1 = d1
    d2 = d2
    u1 = u1
    u2 = u2
    p1 = p1
    p2 = p2
    c1 = c1
    c2 = c2
    s1 = s1
    s2 = s2
    None = None
    Devices = {d1}
    Users = {u1, u2}
    UserOf <- OneAccount
    PostIds = {p1, p2}
    CommentIds = {c1}
    Slots = {s1,s2}
    MaxQueue = 2
    MaxTaps = 3
    OldPosts <- TwoOldPosts
    Patient = FALSE
    UniqueIds = TRUE
PROPERTIES OnlyAuthorDeletes
