\* Two resolvers over four accounts, with three requests, explanations or changes in all;
\* three Claude slots, three poll rows and one move; the daemon with two polls, five ticks
\* and one action of the operator, or with one poll, four ticks and two actions.
CONSTANTS
  Procs = {r1, r2}
  Accounts = {"a1", "a2", "c1", "c2"}
  Rank <- MCRank
  Listed <- MCListed
  RowOrder <- MCRowOrder
  Adapters <- MCAdapters
  DEFAULT_WHY_MODEL = "claude"
  Provider <- MCProvider
  Bare <- MCBare
  ModelProvider <- MCModelProvider
  Relevant <- MCRelevant
  Requests <- MCRequests
  Hash <- MCHash
  OwnedSets <- MCOwned
  Readings <- MCReadings
  Persists = {"anthropic", "openai-codex"}
  MaxEvents = 3
  None = None
  s1 = s1
  s2 = s2
  s3 = s3
  ScopedModels = FALSE
  RetryAfters = {1200}
  MaxPollRows = 3
  MaxPollMoves = 1
  Weekly = None
  UnhealthyTicks = 2
  Strategy = "best"
  COOLDOWN = 1
  HYSTERESIS = 1
  IDLE_HOLD = 2
  HOUR = 4
  HORIZON = 5
  Gaps = {1}
  MaxNow = 5
  MaxPolls = 2
  MaxActs = 1
SPECIFICATION SuiteSpec
SYMMETRY Symmetry
INVARIANTS PollingSound AutoSound
PROPERTIES SuspensionJustified ChoiceSound
CHECK_DEADLOCK FALSE
