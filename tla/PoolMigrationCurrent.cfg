CONSTANTS
    Procs = {p1}
    Accounts = {a}
    MaxTokens = 2
    MaxLogins = 1
    MaxCycles = 2
    MaxFaults = 0
    None = none
    Dead = dead
    Placeholder = placeholder
SPECIFICATION Spec
PROPERTIES RollbackRestoresCurrentGrants
CHECK_DEADLOCK FALSE
