SPECIFICATION Spec
CONSTANTS
    a = a
    b = b
    x = x
    y = y
    None = None
    Titles = {a, b}
    Contents = {x, y}
    Answers <- SomeAnswers
    MaxLoads = 3
INVARIANTS OneOfEach NewsOfThisLoad
PROPERTIES LoadsEnd
