CONSTANTS
    d = d
    f = f
    g = g
    h = h
    x = x
    y = y
    m1 = m1
    m2 = m2
    p1 = p1
    p2 = p2
    None = None
    Path = {d, f, g, h}
    Below <- Nested
    Content = {x, y}
    Mode = {m1}
    Proc = {p1}
    Commands = {"add", "remove", "mirror up", "mirror down", "exclude", "include"}
    Targets = {}
    Answers = {TRUE, FALSE}
    Patient = TRUE
    MaxTime = 0
SPECIFICATION Spec
PROPERTIES MirrorUpExact MirrorDownExact ExcludedKept ExclusionHolds
SYMMETRY Symmetry
