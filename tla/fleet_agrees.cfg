SPECIFICATION FairSpec
CONSTANTS
    Machine = {ada, bob}
    Server = server
    File = {f}
    Data = {v1, v2}
    Written = {v1, v2}
    Rotten = {v1, v2}
    Label <- MCLabel
    Lower <- MCLower
    Own <- MCOwn
    Tag <- MCTag
    Choices <- MCChoices
    Commands = {"init", "tag", "add", "checkpoint", "restore", "push", "pull"}
    Cut = TRUE
    MaxTime = 4
    MaxDamage = 0
    None = None
INVARIANT SameTimeSameManifest
PROPERTY Converges
PROPERTY TargetingRespected
CHECK_DEADLOCK FALSE
