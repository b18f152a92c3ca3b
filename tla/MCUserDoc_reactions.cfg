SPECIFICATION Spec
CONSTANTS
    d1 = d1
    u1 = u1
    u2 = u2
    c1 = c1
    c2 = c2
    None = None
    Devices = {d1}
    Users = {u1, u2}
    Me <- OneUser
    Comments = {c1, c2}
    MaxReads = 2
    MaxQueue = 2
    MaxTaps = 4
SYMMETRY Same
INVARIANTS OwnProfile CountsAreMarked LastReactionStored FieldsAreThere
PROPERTIES MarksKept
CHECK_DEADLOCK FALSE
