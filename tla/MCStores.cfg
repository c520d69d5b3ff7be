\* Three terminals with a command each and three builds; two clients of each backend and three
\* calls on one item; three processes and one lock.
CONSTANTS
  Procs = {l1, l2, l3}
  Modes = {"token", "plain", "import"}
  Terminals = {t1, t2, t3}
  Builds <- MCBuilds
  Items <- MCItems
  Shas = {sha}
  Commands = {"matrix", "check-launchd", "authorize", "authorize cswap", "check-live", "install"}
  MaxRotations = 1
  None = None
  Clients = {p1, p2}
  Kinds = {"macos-keychain", "linux-libsecret", "linux-file", "windows-dpapi"}
  Services = {"qlb:item"}
  MaxCalls = 3
SPECIFICATION SuiteSpec
SYMMETRY TerminalSymmetry
INVARIANTS StoreHonest HelperSound LocksExclude
PROPERTIES AnchorsKept
CHECK_DEADLOCK FALSE
