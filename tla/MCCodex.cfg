\* Two processes on one slot, three tokens and one event of each kind; two processes that
\* switch twice between three accounts with one trouble.
CONSTANTS
  Ops = {p1, p2}
  Kinds = {"refresh", "active", "import"}
  MaxTok = 3
  MaxLogins = 1
  MaxFaults = 1
  MaxCrashes = 1
  MaxStalls = 1
  None = none
  Procs = {p1, p2}
  Accounts = {a, b, c}
  First = a
  Targets = {b}
  Stranger = x
  Missing = m
  Wiped = w
  MaxDocs = 4
  MaxAttempts = 2
  MaxTrouble = 1
SPECIFICATION SuiteSpec
SYMMETRY Symmetry
INVARIANTS SlotKept SwitchRecorded
PROPERTIES SlotMovesOn SwitchSaves
CHECK_DEADLOCK FALSE
