----------------------------- MODULE MCProgress -----------------------------
(* What must eventually happen: coalesced polls, grant refreshes, recovery of *)
(* a dead switch, migrations and credential store calls.                      *)
(* The components share no state here, so TLC takes them side by side: a      *)
(* behaviour moves one of them and leaves the others where they began.        *)
EXTENDS SingleFlight

CONSTANTS
  Ops, MaxAttempts, MaxGen, MaxRevocations, BootstrapReadFaults,
  Terminals, PoolAccounts, MaxTokens, MaxLogins, MaxCycles, PoolFaults, Placeholder,
  Accounts, Alien, Switchers, Daemons, Operators, LoginAccounts, MaxIssued, MaxSettings,
  MaxFaults, Dead,
  Clients, Kinds, Services, MaxCalls

VARIABLES
  part,  \* the component whose steps this behaviour takes
  journalGen, keychain, lease, status, dbLock, leasePc, attempt, grant, gen, resp,
  aborted, ret, rotates, validTok, revocations, staleGen, lost, lapsed,
  journal, poolKeychain, staging, aside, legacy, v2, custom, pool, retired, auth,
  backup, authLock, poolPc, loc, issued, login, rehearsed, cycles, faults,
  live, config, active, slot, prev, stash, staged, switchJournal, committed, lock,
  configLock, switchPc, switchLoc, newest, misadopted, gone, switchIssued, settings,
  switchFaults,
  kind, item, storesLock, inner, call, key, torn, wrote, expect, raced

Lease == INSTANCE RefreshLease WITH
  pc <- leasePc
Pool == INSTANCE PoolMigration WITH
  Procs <- Terminals, Accounts <- PoolAccounts, MaxFaults <- PoolFaults,
  keychain <- poolKeychain, pc <- poolPc
Switch == INSTANCE ClaudeSwitch WITH
  journal <- switchJournal, pc <- switchPc, loc <- switchLoc, issued <- switchIssued,
  faults <- switchFaults
Stores == INSTANCE CredentialStores WITH
  Procs <- Clients, lock <- storesLock

leaseVars == <<journalGen, keychain, lease, status, dbLock, leasePc, attempt, grant,
               gen, resp, aborted, ret, rotates, validTok, revocations, staleGen, lost,
               lapsed>>
poolVars == <<journal, poolKeychain, staging, aside, legacy, v2, custom, pool, retired,
              auth, backup, authLock, poolPc, loc, issued, login, rehearsed, cycles,
              faults>>
switchVars == <<live, config, active, slot, prev, stash, staged, switchJournal,
                committed, lock, configLock, switchPc, switchLoc, newest, misadopted,
                gone, switchIssued, settings, switchFaults>>
storesVars == <<kind, item, storesLock, inner, call, key, torn, wrote, expect, raced>>

\* The other components rest in one of their own initial states.
Side(x) == part # x
SuiteInit ==
  /\ part \in {"Flight", "Lease", "Pool", "Switch", "Stores"}
  /\ Init /\ (Side("Flight") => snap = [b \in Buckets |-> 0])
  /\ Lease!Init /\ (Side("Lease") => rotates)
  /\ Pool!Init /\ (Side("Pool") => journal.state = "NATIVE" /\ custom /\ login = 0)
  /\ Switch!Init /\ (Side("Switch") => active = CHOOSE a \in Accounts : TRUE)
  /\ Stores!Init

SuiteNext ==
  \/ part = "Flight" /\ Next /\ UNCHANGED <<part, leaseVars, poolVars, switchVars, storesVars>>
  \/ part = "Lease" /\ Lease!Next /\ UNCHANGED <<part, vars, poolVars, switchVars, storesVars>>
  \/ part = "Pool" /\ Pool!Next /\ UNCHANGED <<part, vars, leaseVars, switchVars, storesVars>>
  \/ part = "Switch" /\ Switch!Next /\ UNCHANGED <<part, vars, leaseVars, poolVars, storesVars>>
  \/ part = "Stores" /\ Stores!Next /\ UNCHANGED <<part, vars, leaseVars, poolVars, switchVars>>

SuiteVars == <<part, vars, leaseVars, poolVars, switchVars, storesVars>>
SuiteSpec == SuiteInit /\ [][SuiteNext]_SuiteVars

\* Each component's own fairness, in the behaviours that are its own.
Mine(x, A) == part = x /\ A
SuiteFairness ==
  /\ WF_vars(Mine("Flight", Tick)) /\ \A p \in Callers : WF_vars(Mine("Flight", Progress(p)))
  /\ \A p \in Ops : /\ WF_leaseVars(Mine("Lease", Lease!Progress(p)))
                   /\ WF_leaseVars(Mine("Lease", Lease!hardTimeout(p)))
  /\ \A p \in Terminals : /\ WF_poolVars(Mine("Pool", Pool!Step(p)))
                         /\ SF_poolVars(Mine("Pool", Pool!recover(p)))
  /\ WF_poolVars(Mine("Pool", Pool!lockStale))
  /\ WF_switchVars(Mine("Switch", Switch!lockStale))
  /\ \A p \in Switch!Procs : WF_switchVars(Mine("Switch", Switch!Step(p)))
  /\ WF_storesVars(Mine("Stores", Stores!Shells))
  /\ \A p \in Clients : WF_storesVars(Mine("Stores", Stores!Own(p)))
FairSuite == SuiteSpec /\ SuiteFairness

-----------------------------------------------------------------------------
\* No caller of fetchAndCache waits for ever, not even for a claim whose holder died.
CallerServed == part = "Flight" => EveryCallerServed

\* Every refreshIfNeeded settles, whatever the provider and the peers do.
EveryCallReturns == part = "Lease" => Lease!EveryCallReturns

\* "rollback/resume converge after any interruption" (migration.ts): a migration that
\* is interrupted, by deaths and failing Keychain calls, settles again and again.
ResumeConverges == Pool!ResumeConverges

\* The daemon reconciles what a dead process left, unless the live credential
\* has moved on: no orphan blocks switching for ever.
OrphanReconciled == Switch!OrphanReconciled

\* An operation on a credential store always comes back, even while a Keychain
\* prompt waits for an answer that never comes.
CallsReturn == Stores!CallsReturn
=============================================================================
