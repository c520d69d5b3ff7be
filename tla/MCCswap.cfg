\* Two slots, three runs and two troubles; two processes that run four commands with two
\* rotations and one trouble.
CONSTANTS
  N = 2
  Active = 1
  MaxTok = 4
  MaxRuns = 3
  MaxTrouble = 2
  Cmds = {c1, c2}
  MaxRotations = 3
  MaxStarts = 4
  MaxCutoverTrouble = 1
SPECIFICATION SuiteSpec
INVARIANTS ImportRecoverable CutoverSafe
PROPERTIES ImportOutcome HandBackCurrent
CHECK_DEADLOCK FALSE
