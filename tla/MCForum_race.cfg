SPECIFICATION Spec
CONSTANTS
    d1 = d1
    d2 = d2
    u1 = u1
    u2 = u2
    p1 = p1
    p2 = p2
    c1 = c1
    c2 = c2
    s1 = s1
    s2 = s2
    None = None
    Devices = {d1, d2}
    Users = {u1, u2}
    UserOf <- TwoAccounts
    PostIds = {p1}
    CommentIds = {c1}
    Slots = {s1,s2}
    MaxQueue = 2
    MaxTaps = 4
    OldPosts <- OneOldPost
    Patient = FALSE
    UniqueIds = TRUE
INVARIANTS TypeOK ListedCommentsExist NoResurrection
PROPERTIES KeepsPromise
SYMMETRY SlotSymmetry
