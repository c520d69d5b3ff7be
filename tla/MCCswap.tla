------------------------------ MODULE MCCswap ------------------------------
(* Leaving C-swap: the import of its slots with its journal and recovery      *)
(* (CswapImport), and the cutover, hand-back and retirement around it         *)
(* (Cutover).                                                                 *)
(* The components share no state here, so TLC takes them side by side: a      *)
(* behaviour moves one of them and leaves the others where they began.        *)
EXTENDS CswapImport

CONSTANTS Cmds, MaxRotations, MaxStarts, MaxCutoverTrouble

VARIABLES
  part,  \* the component whose steps this behaviour takes
  cutRow, agent, cs, flock, cur, item, slot, cutLive, pi, baseline, rj, rlock, cmd,
  starts, cutTrouble, used, crossed, imported

Cut == INSTANCE Cutover WITH
  MaxTok <- MaxRotations, MaxTrouble <- MaxCutoverTrouble, row <- cutRow,
  live <- cutLive, trouble <- cutTrouble

cutVars == <<cutRow, agent, cs, flock, cur, item, slot, cutLive, pi, baseline, rj,
             rlock, cmd, starts, cutTrouble, used, crossed, imported>>

ASSUME CutAssumption == Cut!CutoverAssumption

\* The other components rest in one of their own initial states.
Side(x) == part # x
SuiteInit ==
  /\ part \in {"Import", "Cut"}
  /\ Init /\ (Side("Import") => source = [s \in Slots |-> s])
  /\ Cut!Init

SuiteNext ==
  \/ part = "Import" /\ Next /\ UNCHANGED <<part, cutVars>>
  \/ part = "Cut" /\ Cut!Next /\ UNCHANGED <<part, vars>>

SuiteVars == <<part, vars, cutVars>>
SuiteSpec == SuiteInit /\ [][SuiteNext]_SuiteVars

-----------------------------------------------------------------------------
\* During a cutover C-swap and QLB never both run on the logins, the unspent token of
\* each login stays in somebody's hands, and a restore that is owed is not forgotten.
CutoverSafe == Cut!OneOwner /\ Cut!GrantKept /\ Cut!RestoreNotForgotten

\* A hand-back is recorded only when C-swap's items hold the unspent tokens, and a Pi
\* rollback that got past its fences never has its baseline deleted under it.
HandBackCurrent == Cut!HandBackCurrent /\ Cut!RollbackKeepsBaseline
=============================================================================
