\* Two callers, two buckets, four ticks; two refreshes with bootstrap faults; one terminal and two
\* faults; a switcher, a daemon, an operator and one fault; two clients of one item.
CONSTANTS
  Callers = {c1, c2}
  Buckets = {b1, b2}
  Ttl = 1
  MaxTime = 4
  None = None
  Ops = {o1, o2}
  MaxAttempts = 2
  MaxGen = 0
  MaxRevocations = 0
  BootstrapReadFaults = TRUE
  Terminals = {t1}
  PoolAccounts = {x}
  MaxTokens = 1
  MaxLogins = 1
  MaxCycles = 2
  PoolFaults = 2
  Placeholder = placeholder
  Accounts = {a, b}
  Alien = alien
  Switchers = {s1}
  Daemons = {d}
  Operators = {o}
  LoginAccounts = {}
  MaxIssued = 0
  MaxSettings = 0
  MaxFaults = 1
  Dead = dead
  Clients = {p1, p2}
  Kinds = {"macos-keychain"}
  Services = {"qlb:item"}
  MaxCalls = 2
SPECIFICATION FairSuite
PROPERTIES PollsInOrder CallerServed EveryCallReturns ResumeConverges OrphanReconciled CallsReturn
CHECK_DEADLOCK FALSE
