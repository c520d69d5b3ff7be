SPECIFICATION Spec
CONSTANTS
    Procs = {p1, p2}
    None = none
    Foreign = foreign
    MaxTok = 3
    MaxTrouble = 1
PROPERTIES ActiveSuccessorKept
CHECK_DEADLOCK FALSE
