\* A proxy with two requests, a resync command, four tokens and two events outside; a Pi
\* session with one request, two loads and three changes outside.
CONSTANTS
  Proxies = {p1}
  Reqs = {r1, r2}
  Cmds = {c1}
  MaxTok = 4
  MaxEvents = 2
  None = None
  Junk = Junk
  PiReqs = {q1}
  Owners <- AllOwners
  Movable = {"anthropic", "kimi-coding"}
  MaxChanges = 3
  MaxLoads = 2
SPECIFICATION SuiteSpec
SYMMETRY Symmetry
INVARIANTS ExtensionFailsClosed RequestsEntitled ProxySound
PROPERTIES RotationKept
CHECK_DEADLOCK FALSE
