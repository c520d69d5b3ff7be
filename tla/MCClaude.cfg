\* Two switchers, a daemon, an operator, logins to a managed and an unmanaged account;
\* two processes on one slot, three tokens, one trouble.
CONSTANTS
  Accounts = {a, b}
  Alien = alien
  Switchers = {p1, p2}
  Daemons = {d}
  Operators = {o}
  LoginAccounts = {b, alien}
  MaxIssued = 1
  MaxSettings = 1
  MaxFaults = 0
  None = none
  Dead = dead
  SlotProcs = {p1, p2}
  Foreign = foreign
  MaxTok = 3
  MaxTrouble = 1
SPECIFICATION SuiteSpec
SYMMETRY Symmetry
INVARIANTS SwitchSafe SlotsHold
PROPERTIES SlotsMoveOn
CHECK_DEADLOCK FALSE
