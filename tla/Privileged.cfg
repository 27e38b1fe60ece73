CONSTANTS
    None = None
    p = p
    s = s
    a = a
    b = b
    k1 = k1
    k2 = k2
    Paragraphs = {p}
    Sections = {s}
    Contents = {a, b}
    Keys = {k1}
    MaxDay = 1
    MaxMoves = 1
    MaxFaults = 1
    FirstDoc <- MCFirstDoc
    FirstCites = {p}
SPECIFICATION Spec
INVARIANTS UnaffectedUnlessMoved ExecutedIsTrue SettledOnce
PROPERTY PushesAreEntitled
