CONSTANTS
    d = d
    f = f
    g = g
    h = h
    x = x
    y = y
    m1 = m1
    m2 = m2
    p1 = p1
    p2 = p2
    None = None
    Path = {d, f}
    Below <- Tree
    Content = {x, y}
    Mode = {m1}
    Proc = {p1}
    Commands = {"add", "exclude"}
    Targets = {}
    Answers = {FALSE}
    Patient = TRUE
    MaxTime = 0
SPECIFICATION Spec
INVARIANT ExcludedUntracked
SYMMETRY Symmetry
