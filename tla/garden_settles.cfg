CONSTANTS
    d = d
    f = f
    g = g
    h = h
    x = x
    y = y
    m1 = m1
    m2 = m2
    p1 = p1
    p2 = p2
    None = None
    Path = {d, f, g}
    Below <- Tree
    Content = {x, y}
    Mode = {m1}
    Proc = {p1}
    Commands = {"add", "checkpoint", "restore", "lock", "target"}
    Targets = {}
    Answers = {FALSE}
    Patient = TRUE
    MaxTime = 1
SPECIFICATION Spec
PROPERTIES CheckpointSettles RestoreSettles LockedKept
SYMMETRY Symmetry
