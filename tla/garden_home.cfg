CONSTANTS
    d = d
    f = f
    g = g
    h = h
    x = x
    y = y
    m1 = m1
    m2 = m2
    p1 = p1
    p2 = p2
    None = None
    Path = {f, g}
    Below <- Tree
    Content = {x, y}
    Mode = {m1}
    Proc = {p1}
    Commands = {"add", "checkpoint", "restore", "remove", "prune"}
    Targets = {g}
    Answers = {FALSE}
    Patient = FALSE
    MaxTime = 2
SPECIFICATION Spec
INVARIANTS TypeOK Complete
PROPERTIES QuietRestore PruneOrphans
SYMMETRY Symmetry
