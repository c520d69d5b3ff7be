--------------------------- MODULE MCCoordination ---------------------------
(* Several processes around one grant and one switch: RefreshLease with three  *)
(* racing calls, ClaudeSwitch with two switchers, a daemon and an operator, a *)
(* failing effect and crashes.                                                *)
(* The components share no state here, so TLC takes them side by side: a      *)
(* behaviour moves one of them and leaves the others where they began.        *)
EXTENDS RefreshLease, TLC

CONSTANTS
  Accounts, Alien, Switchers, Daemons, Operators, LoginAccounts, MaxIssued, MaxSettings,
  MaxFaults, Dead

VARIABLES
  part,  \* the component whose steps this behaviour takes
  live, config, active, slot, prev, stash, staged, journal, committed, lock, configLock,
  switchPc, loc, newest, misadopted, gone, issued, settings, faults

Switch == INSTANCE ClaudeSwitch WITH
  pc <- switchPc

switchVars == <<live, config, active, slot, prev, stash, staged, journal, committed,
                lock, configLock, switchPc, loc, newest, misadopted, gone, issued,
                settings, faults>>

\* The other components rest in one of their own initial states.
Side(x) == part # x
SuiteInit ==
  /\ part \in {"Lease", "Switch"}
  /\ Init /\ (Side("Lease") => rotates)
  /\ Switch!Init /\ (Side("Switch") => active = CHOOSE a \in Accounts : TRUE)

SuiteNext ==
  \/ part = "Lease" /\ Next /\ UNCHANGED <<part, switchVars>>
  \/ part = "Switch" /\ Switch!Next /\ UNCHANGED <<part, vars>>

SuiteVars == <<part, vars, switchVars>>
SuiteSpec == SuiteInit /\ [][SuiteNext]_SuiteVars

\* The calls are interchangeable.
Symmetry == Permutations(Ops)

-----------------------------------------------------------------------------
\* switchClaude with its recovery implements AtomicSwitch: whoever looks at the live
\* credential, the config file and active_login through the journal sees them change
\* together or not at all.
RefinesAtomicSwitch == Switch!RefinesAtomicSwitch
=============================================================================
