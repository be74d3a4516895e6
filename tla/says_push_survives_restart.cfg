CONSTANTS
    c1 = c1
    c2 = c2
    b1 = b1
    b2 = b2
    None = None
    NoBlob = NoBlob
    Client = {c1, c2}
    Blob = {b1}
    Time = {0, 1}
    MaxEdits = 1
    Pusher = {c1}
    Pruner = {}
    Born = {0}
    Fault = {"restart"}
    MaxLate = 0
    Skew = TRUE
SPECIFICATION Spec
PROPERTIES PushInstalls
