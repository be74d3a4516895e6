CONSTANTS
    c1 = c1
    c2 = c2
    b1 = b1
    b2 = b2
    None = None
    NoBlob = NoBlob
    Client = {c1, c2}
    Blob = {b1, b2}
    Time = {0, 1, 2}
    MaxEdits = 2
    Pusher = {c1}
    Pruner = {c1}
    Born = {0, 2}
    Fault = {"disconnect", "restart", "disk", "expire"}
    MaxLate = 0
    Skew = TRUE
SPECIFICATION Spec
INVARIANT ServerComplete
PROPERTIES AtomicPush
SYMMETRY BlobSymmetry
