CONSTANTS
    k1 = k1
    k2 = k2
    p1 = p1
    p2 = p2
    None = None
    Key = {k1, k2}
    Proc = {p1}
    Skews <- OffSkews
    Window = 1
    TTL = 2
    MaxTime = 5
    MaxSecret = 3
SPECIFICATION Spec
PROPERTIES ServedProven AuthorizedServed
SYMMETRY Symmetry
