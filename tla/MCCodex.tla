------------------------------ MODULE MCCodex ------------------------------
(* Codex accounts: one slot with its consumption and imports (CodexSlot), and *)
(* the switch with its journal, fence and recovery (CodexSwitch).             *)
(* The components share no state here, so TLC takes them side by side: a      *)
(* behaviour moves one of them and leaves the others where they began.        *)
EXTENDS CodexSlot, TLC

CONSTANTS Procs, Accounts, First, Targets, Stranger, Missing, Wiped, MaxDocs, MaxAttempts, MaxTrouble

VARIABLES
  part,  \* the component whose steps this behaviour takes
  switchLive, head, been, health, switchActive, journal, fence, log, watches, stashed,
  switchSw, switchAuth, owner, switchOp, session, switchIssued, moved, switchUsed

Switch == INSTANCE CodexSwitch WITH
  MaxTok <- MaxDocs, live <- switchLive, active <- switchActive, sw <- switchSw,
  auth <- switchAuth, op <- switchOp, issued <- switchIssued, used <- switchUsed

switchVars == <<switchLive, head, been, health, switchActive, journal, fence, log,
                watches, stashed, switchSw, switchAuth, owner, switchOp, session,
                switchIssued, moved, switchUsed>>

ASSUME SwitchAssumption == Switch!AccountsAssumption /\ Switch!BoundsAssumption

\* The other components rest in one of their own initial states.
Side(x) == part # x
SuiteInit ==
  /\ part \in {"Slot", "Switch"}
  /\ Init /\ (Side("Slot") => kc = 1 /\ live = 1)
  /\ Switch!Init

SuiteNext ==
  \/ part = "Slot" /\ Next /\ UNCHANGED <<part, switchVars>>
  \/ part = "Switch" /\ Switch!Next /\ UNCHANGED <<part, vars>>

SuiteVars == <<part, vars, switchVars>>
SuiteSpec == SuiteInit /\ [][SuiteNext]_SuiteVars

\* Processes are interchangeable; those of the switch have the same names.
Symmetry == Permutations(Ops)

-----------------------------------------------------------------------------
\* At rest a login settled in a slot is the active one; an attempt whose target was
\* changed by somebody else never becomes ok; and no attempt is committed twice,
\* however often it is recovered.
SwitchRecorded == Switch!AttributedAtRest /\ Switch!TargetChangedNeverOk /\ Switch!CommittedOnce

\* A switch overwrites only a login that is safe in its slot, unless Codex wrote it
\* since the last look, and the set of fenced accounts never shrinks until cleared.
SwitchSaves == Switch!NothingOverwrittenUnsaved /\ Switch!FenceOnlyGrows
=============================================================================
