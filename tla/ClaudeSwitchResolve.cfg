CONSTANTS
    Accounts = {a, b}
    Alien = alien
    Switchers = {s1}
    Daemons = {d}
    Operators = {o}
    LoginAccounts = {}
    MaxIssued = 1
    MaxSettings = 0
    MaxFaults = 0
    None = none
    Dead = dead
SPECIFICATION Spec
INVARIANT OperatorCanResolve
CHECK_DEADLOCK FALSE
