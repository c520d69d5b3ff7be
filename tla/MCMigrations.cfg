\* Two accounts, one terminal, two cycles, one login and one fault; one single grant
\* with three tokens and one trouble.
CONSTANTS
  Procs = {p1}
  Accounts = {a, b}
  MaxTokens = 2
  MaxLogins = 1
  MaxCycles = 2
  MaxFaults = 1
  None = none
  Dead = dead
  Placeholder = placeholder
  MaxTok = 3
  MaxTrouble = 1
  MaxGen = 1
SPECIFICATION SuiteSpec
SYMMETRY Symmetry
INVARIANTS PoolRecoverable GrantHeld
PROPERTIES RehearsedBeforeOwned RestoreUnspent
CHECK_DEADLOCK FALSE
