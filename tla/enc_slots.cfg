CONSTANTS
    f = f
    g = g
    x = x
    y = y
    p1 = p1
    p2 = p2
    k1 = k1
    k2 = k2
    l1 = l1
    l2 = l2
    None = None
    File = {f, g}
    Content = {x, y}
    Passphrase = {p1, p2}
    Device = {k1, k2}
    Label = {l1}
    MaxDek = 2
    Commands = {"slot", "passphrase", "rotate", "add", "checkpoint", "restore", "mirror"}
SPECIFICATION Spec
INVARIANTS TypeOK SlotsOpenSealed
PROPERTIES RotationReplacesDek RestoresPlaintext
SYMMETRY Symmetry
