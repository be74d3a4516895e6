SPECIFICATION Spec
CONSTANTS
    Machine = {ada, bob}
    Server = server
    File = {f}
    Data = {v1, v2}
    Written = {v1, v2}
    Rotten = {v1, v2}
    Label <- MCLabel
    Lower <- MCLower
    Own <- MCOwn
    Tag <- MCTag
    Choices <- MCChoices
    Commands = {"init", "add", "checkpoint", "push", "pull"}
    Cut = FALSE
    MaxTime = 5
    MaxDamage = 0
    None = None
PROPERTY PullAsks
CHECK_DEADLOCK FALSE
