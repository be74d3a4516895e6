CONSTANTS
    c1 = c1
    c2 = c2
    b1 = b1
    b2 = b2
    None = None
    NoBlob = NoBlob
    Client = {c1, c2}
    Blob = {b1}
    Time = {0, 1, 2}
    MaxEdits = 2
    Pusher = {c1, c2}
    Pruner = {c1, c2}
    Born = {0, 2}
    Fault = {"disconnect", "restart", "disk"}
    MaxLate = 0
    Skew = TRUE
SPECIFICATION Spec
INVARIANTS TypeOK PendingNewer ClientComplete PushReadable BehindServer
PROPERTIES ServerMonotone StreamsUndisturbed PullGoesForward
SYMMETRY Symmetry
