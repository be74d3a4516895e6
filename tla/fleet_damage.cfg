SPECIFICATION Spec
CONSTANTS
    Machine = {ada, bob}
    Server = server
    File = {f}
    Data = {v1, v2}
    Written = {v1, v2}
    Rotten = {v1, v2}
    Label <- MCLabel
    Lower <- MCLower
    Own <- MCOwn
    Tag <- MCTag
    Choices <- MCChoices
    Commands = {"tag", "add", "checkpoint", "remove", "target", "restore", "prune", "push", "pull"}
    Cut = TRUE
    MaxTime = 3
    MaxDamage = 1
    None = None
INVARIANT TypeOK
INVARIANT Complete
INVARIANT DamageStays
INVARIANT OneTargeting
PROPERTY VerifiedRestores
SYMMETRY MCSymmetry
CHECK_DEADLOCK FALSE
