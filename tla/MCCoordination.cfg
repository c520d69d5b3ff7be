\* Three racing refreshes of two attempts over two generations; two switchers, a daemon, an
\* operator and one fault.
CONSTANTS
  Ops = {o1, o2, o3}
  None = None
  MaxAttempts = 2
  MaxGen = 1
  MaxRevocations = 1
  BootstrapReadFaults = FALSE
  Accounts = {a, b}
  Alien = alien
  Switchers = {s1, s2}
  Daemons = {d}
  Operators = {o}
  LoginAccounts = {}
  MaxIssued = 0
  MaxSettings = 0
  MaxFaults = 1
  Dead = dead
SPECIFICATION SuiteSpec
SYMMETRY Symmetry
INVARIANTS TypeOK GenerationOrder GenerationIdentifiesGrant TokenAccounted RevokedOnlyIfLost
PROPERTIES RefinesGrantCell RefinesAtomicSwitch
CHECK_DEADLOCK FALSE
