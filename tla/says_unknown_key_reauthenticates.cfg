CONSTANTS
    k1 = k1
    k2 = k2
    p1 = p1
    p2 = p2
    None = None
    Key = {k1, k2}
    Proc = {p1}
    Skews <- Right
    Window = 1
    TTL = 2
    MaxTime = 1
    MaxSecret = 1
SPECIFICATION Spec
PROPERTY UnknownKeyReauthenticates
SYMMETRY Symmetry
