---------------------------- MODULE MCMigrations ----------------------------
(* Migrations of Pi's logins: the Anthropic pool (PoolMigration), and the     *)
(* single grants of xai and kimi with their consumption (SingleGrant).        *)
(* The components share no state here, so TLC takes them side by side: a      *)
(* behaviour moves one of them and leaves the others where they began.        *)
EXTENDS PoolMigration, TLC

CONSTANTS MaxTok, MaxTrouble, MaxGen

VARIABLES
  part,  \* the component whose steps this behaviour takes
  grantAuth, item, stash, kept, grantBackup, mig, grantStaging, owner, pj, pst, base, G,
  lease, op, reh, gate, grantIssued, spent, head, lost, anomaly, used

Grant == INSTANCE SingleGrant WITH
  auth <- grantAuth, backup <- grantBackup, staging <- grantStaging,
  issued <- grantIssued

grantVars == <<grantAuth, item, stash, kept, grantBackup, mig, grantStaging, owner, pj,
               pst, base, G, lease, op, reh, gate, grantIssued, spent, head, lost,
               anomaly, used>>

ASSUME GrantAssumption == Grant!BoundsAssumption

\* The other components rest in one of their own initial states.
Side(x) == part # x
SuiteInit ==
  /\ part \in {"Pool", "Grant"}
  /\ Init /\ (Side("Pool") => journal.state = "NATIVE" /\ custom /\ login = 0 /\ issued = [a \in Accounts |-> 1])
  /\ Grant!Init

SuiteNext ==
  \/ part = "Pool" /\ Next /\ UNCHANGED <<part, grantVars>>
  \/ part = "Grant" /\ Grant!Next /\ UNCHANGED <<part, vars>>

SuiteVars == <<part, vars, grantVars>>
SuiteSpec == SuiteInit /\ [][SuiteNext]_SuiteVars

\* Accounts are interchangeable.
Symmetry == Permutations(Accounts)

-----------------------------------------------------------------------------
\* The newest login's live refresh token is always in some copy, and while the gate
\* exchanges a token Pi's auth.json does not offer the same one, whatever migrations,
\* hand-backs, refreshes and deaths interleave (the gaps are in SingleGrant).
GrantHeld == Grant!LiveHeld /\ Grant!PostIsOurs

\* A post-commit rollback hands Pi a token nobody has exchanged or is exchanging,
\* unless its successor is in the stash, which rollback does not read.
RestoreUnspent == Grant!RestoreUnspent
=============================================================================
