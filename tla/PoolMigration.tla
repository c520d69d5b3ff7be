--------------------------- MODULE PoolMigration ---------------------------
(***************************************************************************)
(* Migration of Pi's Anthropic pool into QLB (src/migration.ts, kind       *)
(* 'pool', with src/pi-auth-backup.ts and writePiOwnerEntry of             *)
(* src/pi-migrate.ts).                                                     *)
(*                                                                         *)
(* `qlb migrate stage | rehearse | commit | rollback | resume` moves the   *)
(* ownership of a set of grants through a row of the migrations table and  *)
(* six files that nothing spans atomically: the staging owner file, the    *)
(* owner claim (a v1 document or an entry of the v2 map), the native pool  *)
(* file and its .pre-qlb name, Pi's auth.json and the backup of its        *)
(* Anthropic entry.  Every write is one step, and a process may die        *)
(* between any two.                                                        *)
(*                                                                         *)
(* A grant is the number of the refresh token the provider issued for the  *)
(* account, 0 for none.  The sidecar next to .pre-qlb, account statuses,   *)
(* timestamps and documents that name other providers are left out.        *)
(***************************************************************************)
EXTENDS Naturals, FiniteSets

CONSTANTS
    Procs,        \* terminals that run `qlb migrate` commands, one at a time each
    Accounts,     \* accounts Pi's pool may hold
    MaxTokens,    \* bound: refresh tokens issued per account
    MaxLogins,    \* bound: logins that write auth.json[anthropic]
    MaxCycles,    \* bound: backup cycles (a stage, or a conversion of an old journal)
    MaxFaults,    \* bound: crashes and failing Keychain calls
    None, Dead,   \* nothing or nobody; a lock whose holder died
    Placeholder   \* what QLB leaves in auth.json[anthropic]

ASSUME ProcsAssumption == {None, Dead} \cap Procs = {} /\ None # Dead
ASSUME AccountsAssumption == Accounts # {} /\ IsFiniteSet(Accounts)
ASSUME BoundsAssumption == {MaxTokens, MaxLogins, MaxCycles} \subseteq Nat \ {0} /\ MaxFaults \in Nat
ASSUME PlaceholderAssumption == Placeholder \notin Nat

Tokens  == 0 .. MaxTokens
Pools   == [Accounts -> Tokens]
Entries == 0 .. MaxLogins
Cycles  == 0 .. MaxCycles \* 0: the journal names no cycle
Backups == [cycle : Cycles, entry : Entries]

ASSUME NoneAssumption == None \notin Pools \cup Backups \cup {"rollback", "pre-commit-rollback"}

VARIABLES
    journal,    \* the migrations row: state and detail_json
    keychain,   \* QLB's item of each account
    staging,    \* qlb-owner.json.staging: the accounts it names
    aside,      \* the same file under its .rollback name
    legacy, v2, \* the v1 owner document and the v2 map name Anthropic
    custom,     \* --owner-file is not the v2 map's own path
    pool,       \* the native pool file
    retired,    \* the same file under its .pre-qlb name
    auth,       \* auth.json[anthropic]
    backup,     \* the backup of that entry
    authLock,   \* Pi's auth.json lock
    pc, loc,    \* control state and local variables of each process
    issued,     \* provider: the last token issued for each account
    login,      \* the last login Pi stored in auth.json, 0 for none
    rehearsed,  \* history: the <<account, token>> pairs a rehearsal call accepted
    cycles, faults \* how much of each bound is used

claims == <<legacy, v2, custom>>
files  == <<staging, aside, claims, pool, retired, auth, backup>>
env    == <<issued, login, rehearsed>>
vars   == <<journal, keychain, files, authLock, pc, loc, env, cycles, faults>>

States  == {"NATIVE", "MIRRORED", "VALIDATED", "QLB_OWNED"}
NoGrants == [a \in Accounts |-> 0]

Journals == [state : States, intent : {None, "rollback", "pre-commit-rollback"},
             accts : SUBSET Accounts, cycle : Cycles, pub : BOOLEAN]
Locals   == [st : States, todo : SUBSET Accounts, grants : Pools, staged : BOOLEAN,
             legacy : BOOLEAN, dual : BOOLEAN, whole : BOOLEAN]
NoLocals == [st |-> "NATIVE", todo |-> {}, grants |-> NoGrants, staged |-> FALSE,
             legacy |-> FALSE, dual |-> FALSE, whole |-> FALSE]

\* Where a process may be with and without the auth.json lock.
Locked   == {"publish", "dual", "backup", "cycle", "owner", "unlinkV1", "placeholder",
             "unlock", "intent", "restore", "reconcile", "unown", "unownV2", "rmBackup",
             "rmStaging", "rmRetired", "native"}
Unlocked == {"idle", "stage", "stageKeys", "stageFile", "rehearse", "commit", "unstage", "hygiene",
             "rename", "rollback", "restore", "relock", "unown", "unownV2", "rmStaging", "rmRetired",
             "native", "preIntent", "preRename", "preDelete", "prePutBack", "preUnlink", "preNative"}

Owned == legacy \/ v2
In(f) == {a \in Accounts : f[a] # 0}

\* Types; and the auth.json lock is held only by a process inside its section.
TypeOK ==
    /\ journal \in Journals
    /\ keychain \in Pools
    /\ staging \in (SUBSET Accounts) \cup {None}
    /\ aside \in (SUBSET Accounts) \cup {None}
    /\ {legacy, v2, custom} \subseteq BOOLEAN
    /\ pool \in Pools \cup {None} /\ retired \in Pools \cup {None}
    /\ auth \in Entries \cup {Placeholder}
    /\ backup \in Backups \cup {None}
    /\ authLock \in Procs \cup {None, Dead}
    /\ pc \in [Procs -> Locked \cup Unlocked]
    /\ loc \in [Procs -> Locals]
    /\ issued \in Pools /\ login \in Entries
    /\ rehearsed \subseteq Accounts \X Tokens
    /\ cycles \in Cycles /\ faults \in 0 .. MaxFaults
    /\ \A p \in Procs : pc[p] \in (IF authLock = p THEN Locked ELSE Unlocked)

\* A Pi that never met QLB, or an installation that an earlier release, which
\* published the v1 document and left auth.json alone, brought to QLB_OWNED.
Init ==
    /\ \E S \in (SUBSET Accounts) \ {{}} :
         LET f == [a \in Accounts |-> IF a \in S THEN 1 ELSE 0]
             J(st, accts) == [state |-> st, intent |-> None, accts |-> accts, cycle |-> 0, pub |-> FALSE]
         IN  /\ issued = f
             /\ \/ /\ journal = J("NATIVE", {}) /\ keychain = NoGrants
                   /\ pool = f /\ retired = None /\ legacy = FALSE
                \/ /\ journal = J("QLB_OWNED", S) /\ keychain = f
                   /\ pool = None /\ retired = f /\ legacy = TRUE
    /\ staging = None /\ aside = None /\ v2 = FALSE /\ custom \in BOOLEAN
    /\ login \in 0 .. 1 /\ auth = login /\ backup = None
    /\ authLock = None
    /\ pc = [p \in Procs |-> "idle"] /\ loc = [p \in Procs |-> NoLocals]
    /\ rehearsed = {}
    /\ cycles = 0 /\ faults = 0

-----------------------------------------------------------------------------
Goto(p, label) == pc' = [pc EXCEPT ![p] = label]
Set(p, l) == loc' = [loc EXCEPT ![p] = l]

\* The command returns or throws; `finally` removes its lock directory.
Finish(p) ==
    /\ Goto(p, "idle") /\ Set(p, NoLocals)
    /\ authLock' = IF authLock = p THEN None ELSE authLock

\* withPiAuthLock: mkdir, or, once its retries are used up, pi-auth-locked.
AuthLock(p, label) ==
    \/ authLock = None /\ authLock' = p /\ Goto(p, label) /\ UNCHANGED loc
    \/ authLock # None /\ Finish(p)

\* journal(state, extra): merge into the row.
Journal(state, j) == journal' = [j EXCEPT !.state = state]

StagingValid == staging # None /\ staging = journal.accts
HasPlaceholder == auth = Placeholder

-----------------------------------------------------------------------------
\* stage

\* Refusals, status and the read of the pool file.
stage(p) ==
    /\ pc[p] = "idle"
    /\ journal.intent = None
    /\ ~Owned /\ journal.state # "QLB_OWNED"
    /\ pool # None
    /\ cycles < MaxCycles
    /\ Set(p, [NoLocals EXCEPT !.grants = pool, !.todo = In(pool)])
    /\ Goto(p, "stage")
    /\ UNCHANGED <<journal, keychain, files, authLock, env, cycles, faults>>

\* Mutant: a new stage keeps the state of the one before.
stageJournalKeepState(p) ==
    /\ pc[p] = "stage"
    /\ cycles < MaxCycles /\ cycles' = cycles + 1
    /\ Journal(IF journal.state = "VALIDATED" THEN "VALIDATED" ELSE "MIRRORED",
               [journal EXCEPT !.accts = loc[p].todo, !.cycle = cycles + 1, !.pub = FALSE])
    /\ Goto(p, "stageKeys")
    /\ UNCHANGED <<keychain, files, authLock, loc, env, faults>>

\* S1: the intent, before anything it speaks of.
stageJournal(p) ==
    /\ pc[p] = "stage"
    /\ cycles < MaxCycles /\ cycles' = cycles + 1
    /\ Journal("MIRRORED", [journal EXCEPT !.accts = loc[p].todo, !.cycle = cycles + 1, !.pub = FALSE])
    /\ Goto(p, "stageKeys")
    /\ UNCHANGED <<keychain, files, authLock, loc, env, faults>>

\* One Keychain item per account of the pool file.
stageKey(p) ==
    /\ pc[p] = "stageKeys"
    /\ \E a \in loc[p].todo :
         /\ keychain' = [keychain EXCEPT ![a] = loc[p].grants[a]]
         /\ Set(p, [loc[p] EXCEPT !.todo = @ \ {a}])
         /\ Goto(p, IF loc[p].todo = {a} THEN "stageFile" ELSE "stageKeys")
    /\ UNCHANGED <<journal, files, authLock, env, cycles, faults>>

stageKeyFails(p) ==
    /\ pc[p] = "stageKeys"
    /\ faults < MaxFaults /\ faults' = faults + 1
    /\ Finish(p)
    /\ UNCHANGED <<journal, keychain, files, env, cycles>>

\* S2: the staging owner file.
stageFile(p) ==
    /\ pc[p] = "stageFile"
    /\ staging' = In(loc[p].grants)
    /\ Finish(p)
    /\ UNCHANGED <<journal, keychain, aside, claims, pool, retired, auth, backup, env, cycles, faults>>

-----------------------------------------------------------------------------
\* rehearse

\* readStagedAccounts; an item that is missing throws.
rehearse(p) ==
    /\ pc[p] = "idle"
    /\ journal.state \in {"MIRRORED", "VALIDATED"} /\ journal.intent = None
    /\ journal.accts # {} /\ journal.accts \subseteq In(keychain)
    /\ Set(p, [NoLocals EXCEPT !.grants = keychain, !.todo = journal.accts])
    /\ Goto(p, "rehearse")
    /\ UNCHANGED <<journal, keychain, files, authLock, env, cycles, faults>>

\* One live call per account: accepted, rejected (the journal falls back to
\* MIRRORED), or not made because the access token expired.
rehearseAccount(p) ==
    /\ pc[p] = "rehearse"
    /\ \E a \in loc[p].todo :
         \/ /\ rehearsed' = rehearsed \cup {<<a, loc[p].grants[a]>>}
            /\ Set(p, [loc[p] EXCEPT !.todo = @ \ {a}])
            /\ UNCHANGED <<journal, authLock, pc>>
         \/ /\ Journal("MIRRORED", journal)
            /\ Finish(p)
            /\ UNCHANGED rehearsed
         \/ Finish(p) /\ UNCHANGED <<journal, rehearsed>>
    /\ UNCHANGED <<keychain, files, issued, login, cycles, faults>>

rehearseDone(p) ==
    /\ pc[p] = "rehearse" /\ loc[p].todo = {}
    /\ Journal("VALIDATED", journal)
    /\ Finish(p)
    /\ UNCHANGED <<keychain, files, env, cycles, faults>>

-----------------------------------------------------------------------------
\* commit: publication in the order backup, owner claim, placeholder, hygiene

\* A placeholder may only stand on the backup of the journal's own cycle.
PlaceholderLineage ==
    HasPlaceholder => backup # None /\ journal.cycle # 0 /\ backup.cycle = journal.cycle

\* Pi wrote auth.json[anthropic] after this cycle's backup was taken.
poolNativeEntryChangedSinceStage ==
    /\ backup # None /\ journal.cycle # 0 /\ backup.cycle = journal.cycle
    /\ IF backup.entry = 0 THEN auth \notin {0, Placeholder} ELSE auth # backup.entry

poolV2PublicationEvidence(st) == journal.pub /\ st \in {"VALIDATED", "QLB_OWNED"}

\* commitPoolV2 up to the lock; `explicit` is --provider anthropic on the
\* command line, without which a v1 document is not converted.
commitPoolV2(p, explicit) ==
    LET st == journal.state IN
    \/ /\ \/ StagingValid /\ st \in {"VALIDATED", "QLB_OWNED"}
          \/ staging = None /\ legacy /\ explicit /\ st \in {"VALIDATED", "QLB_OWNED"}
          \/ staging = None /\ ~legacy /\ v2 /\ poolV2PublicationEvidence(st) /\ ~HasPlaceholder
       /\ PlaceholderLineage
       /\ journal.cycle # 0 \/ cycles < MaxCycles
       /\ Set(p, [NoLocals EXCEPT !.st = st, !.staged = staging # None])
       /\ Goto(p, "commit")
    \/ /\ staging = None /\ ~legacy /\ v2 /\ HasPlaceholder /\ poolV2PublicationEvidence(st)
       /\ Goto(p, "hygiene")
       /\ UNCHANGED loc

commit(p, explicit) ==
    /\ pc[p] = "idle"
    /\ journal.intent = None
    /\ commitPoolV2(p, explicit)
    /\ UNCHANGED <<journal, keychain, files, authLock, env, cycles, faults>>

commitLock(p) ==
    /\ pc[p] = "commit"
    /\ AuthLock(p, "publish")
    /\ UNCHANGED <<journal, keychain, files, env, cycles, faults>>

\* Under the lock: refuse a newer native entry, journal the publication with
\* the state read before the lock, look at the claims again.
publish(p) ==
    /\ pc[p] = "publish"
    /\ \/ /\ ~HasPlaceholder /\ poolNativeEntryChangedSinceStage
          /\ Finish(p)
          /\ UNCHANGED journal
       \/ /\ HasPlaceholder \/ ~poolNativeEntryChangedSinceStage
          /\ Journal(loc[p].st, [journal EXCEPT !.pub = TRUE])
          /\ Set(p, [loc[p] EXCEPT !.legacy = legacy, !.dual = legacy /\ v2])
          /\ Goto(p, IF legacy /\ v2 THEN "dual" ELSE "backup")
          /\ UNCHANGED authLock
    /\ UNCHANGED <<keychain, files, env, cycles, faults>>

\* A conversion that died between the v2 write and the unlink of the v1 document.
retireDual(p) ==
    /\ pc[p] = "dual"
    /\ legacy' = FALSE
    /\ Goto(p, "backup")
    /\ UNCHANGED <<journal, keychain, staging, aside, v2, custom, pool, retired, auth, backup,
                   authLock, loc, env, cycles, faults>>

AfterBackup(p) == IF loc[p].dual THEN "placeholder" ELSE "owner"

\* writePoolAnthropicBackupOnce: write-once within a cycle, never of the placeholder.
writePoolAnthropicBackupOnce(p) ==
    /\ pc[p] = "backup"
    /\ LET sameCycle == backup # None /\ backup.cycle = journal.cycle IN
       \/ /\ ~PlaceholderLineage \/ (~HasPlaceholder /\ poolNativeEntryChangedSinceStage)
          /\ Finish(p)
          /\ UNCHANGED backup
       \/ /\ PlaceholderLineage /\ (HasPlaceholder \/ (journal.cycle # 0 /\ sameCycle))
          /\ HasPlaceholder \/ ~poolNativeEntryChangedSinceStage
          /\ Goto(p, AfterBackup(p))
          /\ UNCHANGED <<backup, authLock, loc>>
       \/ /\ ~HasPlaceholder /\ journal.cycle = 0
          /\ Goto(p, "cycle")
          /\ UNCHANGED <<backup, authLock, loc>>
       \/ /\ ~HasPlaceholder /\ journal.cycle # 0 /\ ~sameCycle
          /\ backup' = [cycle |-> journal.cycle, entry |-> auth]
          /\ Goto(p, AfterBackup(p))
          /\ UNCHANGED <<authLock, loc>>
    /\ UNCHANGED <<journal, keychain, staging, aside, claims, pool, retired, auth, env, cycles, faults>>

\* An old journal names no cycle: record one before the backup.
ensureAuthBackupCycle(p) ==
    /\ pc[p] = "cycle"
    /\ cycles < MaxCycles /\ cycles' = cycles + 1
    /\ Journal(journal.state, [journal EXCEPT !.cycle = cycles + 1])
    /\ Goto(p, "backup")
    /\ UNCHANGED <<keychain, files, authLock, loc, env, faults>>

\* writePiOwnerEntry: at the map's own path the rename replaces a v1 document,
\* a custom one is unlinked afterwards.
writeOwner(p) ==
    /\ pc[p] = "owner"
    /\ v2' = TRUE
    /\ legacy' = (legacy /\ custom)
    /\ Goto(p, IF loc[p].legacy /\ custom THEN "unlinkV1" ELSE "placeholder")
    /\ UNCHANGED <<journal, keychain, staging, aside, custom, pool, retired, auth, backup,
                   authLock, loc, env, cycles, faults>>

unlinkLegacyDocument(p) ==
    /\ pc[p] = "unlinkV1"
    /\ legacy' = FALSE
    /\ Goto(p, "placeholder")
    /\ UNCHANGED <<journal, keychain, staging, aside, v2, custom, pool, retired, auth, backup,
                   authLock, loc, env, cycles, faults>>

writePoolAnthropicPlaceholder(p) ==
    /\ pc[p] = "placeholder"
    /\ auth' = Placeholder
    /\ Goto(p, "unlock")
    /\ UNCHANGED <<journal, keychain, staging, aside, claims, pool, retired, backup, authLock, loc, env, cycles, faults>>

releaseAuthLock(p) ==
    /\ pc[p] = "unlock"
    /\ authLock' = None
    /\ Goto(p, "unstage")
    /\ UNCHANGED <<journal, keychain, files, loc, env, cycles, faults>>

unlinkStaging(p) ==
    /\ pc[p] = "unstage"
    /\ staging' = IF loc[p].staged THEN None ELSE staging
    /\ Goto(p, "hygiene")
    /\ UNCHANGED <<journal, keychain, aside, claims, pool, retired, auth, backup, authLock, loc, env, cycles, faults>>

\* finishHygiene, H1.
journalOwned(p) ==
    /\ pc[p] = "hygiene"
    /\ Journal("QLB_OWNED", [journal EXCEPT !.intent = None])
    /\ Goto(p, "rename")
    /\ UNCHANGED <<keychain, files, authLock, loc, env, cycles, faults>>

\* finishHygiene, H2.
renameNative(p) ==
    /\ pc[p] = "rename"
    /\ IF pool # None /\ retired = None
       THEN retired' = pool /\ pool' = None
       ELSE UNCHANGED <<pool, retired>>
    /\ Finish(p)
    /\ UNCHANGED <<journal, keychain, staging, aside, claims, auth, backup, env, cycles, faults>>

-----------------------------------------------------------------------------
\* rollback after the commit

\* rollbackUnlocked: continue a recorded one, roll back a claim, or clean up.
rollback(p) ==
    /\ pc[p] = "idle"
    /\ Goto(p, IF journal.intent = "rollback" THEN "restore"
               ELSE IF Owned \/ journal.state = "QLB_OWNED" THEN "rollback"
               ELSE IF staging = None THEN "preDelete" ELSE "preIntent")
    /\ Set(p, [NoLocals EXCEPT !.todo = journal.accts])
    /\ UNCHANGED <<journal, keychain, files, authLock, env, cycles, faults>>

\* postCommitRollback: the lock is kept to the end of the command.
rollbackLock(p) ==
    /\ pc[p] = "rollback"
    /\ \/ /\ authLock = None /\ authLock' = p
          /\ Set(p, [loc[p] EXCEPT !.whole = TRUE])
          /\ Goto(p, "intent")
       \/ authLock # None /\ Finish(p)
    /\ UNCHANGED <<journal, keychain, files, env, cycles, faults>>

rollbackIntent(p) ==
    /\ pc[p] = "intent"
    /\ Journal(journal.state, [journal EXCEPT !.intent = "rollback"])
    /\ Goto(p, "restore")
    /\ UNCHANGED <<keychain, files, authLock, loc, env, cycles, faults>>

poolRollbackNeedsAuthReconciliation == v2 \/ backup # None

AfterRestore(p) ==
    IF ~poolRollbackNeedsAuthReconciliation THEN "unown"
    ELSE IF authLock = p THEN "reconcile" ELSE "relock"

\* Mutant: the owner claim goes before the native file is back.
restoreNativeNever(p) ==
    /\ pc[p] = "restore"
    /\ Goto(p, AfterRestore(p))
    /\ UNCHANGED <<journal, keychain, files, authLock, loc, env, cycles, faults>>

\* R4: the native file comes back while the owner claim still stands.  With
\* no native file under either name the command stops.
restoreNative(p) ==
    /\ pc[p] = "restore"
    /\ IF pool = None /\ retired # None
       THEN pool' = retired /\ retired' = None
       ELSE UNCHANGED <<pool, retired>>
    /\ \/ pool' # None /\ Goto(p, AfterRestore(p)) /\ UNCHANGED <<authLock, loc>>
       \/ pool' = None /\ Finish(p)
    /\ UNCHANGED <<journal, keychain, staging, aside, claims, auth, backup, env, cycles, faults>>

\* A resumed rollback takes the lock for the reconciliation only.
reconcileLock(p) ==
    /\ pc[p] = "relock"
    /\ AuthLock(p, "reconcile")
    /\ UNCHANGED <<journal, keychain, files, env, cycles, faults>>

\* A login of Pi's wins; otherwise the backup comes back, or the command refuses.
restorePoolAnthropicAuthIfPlaceholder(p) ==
    /\ pc[p] = "reconcile"
    /\ \/ /\ auth \in Entries \ {0}
          /\ Goto(p, "unown") /\ UNCHANGED <<auth, authLock, loc>>
       \/ /\ auth \in {0, Placeholder} /\ backup # None
          /\ auth' = backup.entry
          /\ Goto(p, "unown") /\ UNCHANGED <<authLock, loc>>
       \/ /\ auth \in {0, Placeholder} /\ backup = None
          /\ Finish(p) /\ UNCHANGED auth
    /\ UNCHANGED <<journal, keychain, staging, aside, claims, pool, retired, backup, env, cycles, faults>>

\* RC: removePoolOwnerEntry, the v1 document first.
removeLegacyOwner(p) ==
    /\ pc[p] = "unown"
    /\ legacy' = FALSE
    /\ Goto(p, "unownV2")
    /\ UNCHANGED <<journal, keychain, staging, aside, v2, custom, pool, retired, auth, backup,
                   authLock, loc, env, cycles, faults>>

removeOwnerEntry(p) ==
    /\ pc[p] = "unownV2"
    /\ v2' = FALSE
    /\ Goto(p, IF authLock = p THEN "rmBackup" ELSE "rmStaging")
    /\ UNCHANGED <<journal, keychain, staging, aside, legacy, custom, pool, retired, auth, backup,
                   authLock, loc, env, cycles, faults>>

removeBackup(p) ==
    /\ pc[p] = "rmBackup"
    /\ backup' = None
    /\ authLock' = IF loc[p].whole THEN authLock ELSE None
    /\ Goto(p, "rmStaging")
    /\ UNCHANGED <<journal, keychain, staging, aside, claims, pool, retired, auth, loc, env, cycles, faults>>

removeStaging(p) ==
    /\ pc[p] = "rmStaging"
    /\ staging' = None
    /\ Goto(p, "rmRetired")
    /\ UNCHANGED <<journal, keychain, aside, claims, pool, retired, auth, backup, authLock, loc, env, cycles, faults>>

\* finishRollbackJournal: leftovers, then the journal.
removeRetired(p) ==
    /\ pc[p] = "rmRetired"
    /\ retired' = None
    /\ Goto(p, "native")
    /\ UNCHANGED <<journal, keychain, staging, aside, claims, pool, auth, backup, authLock, loc, env, cycles, faults>>

\* Mutant: the rollback intent is not dropped.
journalRolledBackKeepIntent(p) ==
    /\ pc[p] = "native"
    /\ Journal("VALIDATED", [journal EXCEPT !.pub = FALSE])
    /\ Finish(p)
    /\ UNCHANGED <<keychain, files, env, cycles, faults>>

journalRolledBack(p) ==
    /\ pc[p] = "native"
    /\ Journal("VALIDATED", [journal EXCEPT !.intent = None, !.pub = FALSE])
    /\ Finish(p)
    /\ UNCHANGED <<keychain, files, env, cycles, faults>>

-----------------------------------------------------------------------------
\* rollback before the commit

\* An entry left over from an interrupted rollback refuses.
preCommitIntent(p) ==
    /\ pc[p] = "preIntent"
    /\ \/ aside # None /\ Finish(p) /\ UNCHANGED journal
       \/ /\ aside = None
          /\ Journal(journal.state, [journal EXCEPT !.intent = "pre-commit-rollback"])
          /\ Goto(p, "preRename")
          /\ UNCHANGED <<authLock, loc>>
    /\ UNCHANGED <<keychain, files, env, cycles, faults>>

\* The rename throws if another command took the staging file meanwhile.
preCommitRename(p) ==
    /\ pc[p] = "preRename"
    /\ \/ /\ staging # None
          /\ staging' = None /\ aside' = staging
          /\ Goto(p, "preDelete") /\ UNCHANGED <<authLock, loc>>
       \/ staging = None /\ Finish(p) /\ UNCHANGED <<staging, aside>>
    /\ UNCHANGED <<journal, keychain, claims, pool, retired, auth, backup, env, cycles, faults>>

\* deleteStagedKeychain, an account at a time; "not found" is as good as deleted.
deleteStagedKeychain(p) ==
    /\ pc[p] = "preDelete"
    /\ \/ \E a \in loc[p].todo :
            /\ keychain' = [keychain EXCEPT ![a] = 0]
            /\ Set(p, [loc[p] EXCEPT !.todo = @ \ {a}])
            /\ UNCHANGED pc
       \/ loc[p].todo = {} /\ Goto(p, "preUnlink") /\ UNCHANGED <<keychain, loc>>
    /\ UNCHANGED <<journal, files, authLock, env, cycles, faults>>

deleteStagedKeychainFails(p) ==
    /\ pc[p] = "preDelete" /\ loc[p].todo # {}
    /\ faults < MaxFaults /\ faults' = faults + 1
    /\ Goto(p, "prePutBack")
    /\ UNCHANGED <<journal, keychain, files, authLock, loc, env, cycles>>

preCommitPutBack(p) ==
    /\ pc[p] = "prePutBack"
    /\ staging' = IF aside # None THEN aside ELSE staging
    /\ aside' = None
    /\ Finish(p)
    /\ UNCHANGED <<journal, keychain, claims, pool, retired, auth, backup, env, cycles, faults>>

preCommitUnlink(p) ==
    /\ pc[p] = "preUnlink"
    /\ aside' = None
    /\ Goto(p, "preNative")
    /\ UNCHANGED <<journal, keychain, staging, claims, pool, retired, auth, backup, authLock, loc, env, cycles, faults>>

preCommitNative(p) ==
    /\ pc[p] = "preNative"
    /\ Journal("NATIVE", [journal EXCEPT !.intent = None])
    /\ Finish(p)
    /\ UNCHANGED <<keychain, files, env, cycles, faults>>

-----------------------------------------------------------------------------
\* resume

\* The publication window, or the conversion of a v1 document.
poolNeedsV2Publication(explicit) ==
    \/ legacy /\ v2
    \/ legacy /\ ~v2 /\ explicit /\ journal.state = "QLB_OWNED"
    \/ ~legacy /\ v2 /\ (journal.state # "QLB_OWNED" \/ ~HasPlaceholder \/ staging # None)

resume(p, explicit) ==
    LET Begin(label) == Goto(p, label) /\ Set(p, [NoLocals EXCEPT !.todo = journal.accts])
        rolledBack == ~Owned /\ journal.state = "QLB_OWNED" /\ pool # None
        precommit  == ~Owned /\ ~rolledBack
    IN
    /\ pc[p] = "idle"
    /\ \/ journal.intent = "rollback" /\ Begin("restore")
       \/ /\ journal.intent # "rollback"
          /\ \/ poolNeedsV2Publication(explicit) /\ commitPoolV2(p, explicit)
             \/ Owned /\ ~poolNeedsV2Publication(explicit) /\ Begin("hygiene")
             \/ rolledBack /\ Begin("rmRetired")
             \/ /\ precommit /\ journal.intent = None
                /\ journal.state = "VALIDATED" /\ StagingValid
                /\ commitPoolV2(p, explicit)
             \/ /\ precommit
                /\ \/ journal.intent = "pre-commit-rollback"
                   \/ StagingValid /\ journal.state # "VALIDATED"
                   \/ staging = None /\ journal.state = "MIRRORED"
                /\ Begin(IF staging = None THEN "preDelete" ELSE "preIntent")
    /\ UNCHANGED <<journal, keychain, files, authLock, env, cycles, faults>>

-----------------------------------------------------------------------------
\* The rest of the machine

\* A command dies; its lock directory stays.
crash(p) ==
    /\ pc[p] # "idle"
    /\ faults < MaxFaults /\ faults' = faults + 1
    /\ Goto(p, "idle") /\ Set(p, NoLocals)
    /\ authLock' = IF authLock = p THEN Dead ELSE authLock
    /\ UNCHANGED <<journal, keychain, files, env, cycles>>

\* takeOverStaleLock: ten seconds without a touch.
lockStale ==
    /\ authLock = Dead /\ authLock' = None
    /\ UNCHANGED <<journal, keychain, files, pc, loc, env, cycles, faults>>

\* QLB refreshes a grant it owns.
qlbRefresh(a) ==
    /\ journal.state = "QLB_OWNED"
    /\ keychain[a] # 0 /\ keychain[a] = issued[a] /\ issued[a] < MaxTokens
    /\ issued' = [issued EXCEPT ![a] = @ + 1]
    /\ keychain' = [keychain EXCEPT ![a] = @ + 1]
    /\ UNCHANGED <<journal, files, authLock, pc, loc, login, rehearsed, cycles, faults>>

\* Pi's pool extension refreshes a grant and rewrites its file.  A session
\* older than the commit still does so, and brings the file back.
piRefresh(a) ==
    LET memory == IF pool # None THEN pool ELSE retired IN
    /\ memory # None
    /\ memory[a] # 0 /\ memory[a] = issued[a] /\ issued[a] < MaxTokens
    /\ issued' = [issued EXCEPT ![a] = @ + 1]
    /\ pool' = [memory EXCEPT ![a] = @ + 1]
    /\ UNCHANGED <<journal, keychain, staging, aside, claims, retired, auth, backup, authLock, pc, loc,
                   login, rehearsed, cycles, faults>>

\* The user adds an account to the native pool, or removes one.
piAddAccount(a) ==
    /\ ~Owned /\ pool # None /\ pool[a] = 0 /\ issued[a] < MaxTokens
    /\ issued' = [issued EXCEPT ![a] = @ + 1]
    /\ pool' = [pool EXCEPT ![a] = issued[a] + 1]
    /\ UNCHANGED <<journal, keychain, staging, aside, claims, retired, auth, backup, authLock, pc, loc,
                   login, rehearsed, cycles, faults>>

piRemoveAccount(a) ==
    /\ ~Owned /\ pool # None /\ pool[a] # 0 /\ In(pool) # {a}
    /\ pool' = [pool EXCEPT ![a] = 0]
    /\ UNCHANGED <<journal, keychain, staging, aside, claims, retired, auth, backup, authLock, pc, loc,
                   env, cycles, faults>>

\* A login through Pi itself stores a credential in auth.json, under its lock.
piLogin ==
    /\ authLock = None /\ login < MaxLogins
    /\ login' = login + 1 /\ auth' = login + 1
    /\ UNCHANGED <<journal, keychain, staging, aside, claims, pool, retired, backup, authLock, pc, loc,
                   issued, rehearsed, cycles, faults>>

-----------------------------------------------------------------------------
\* A step of a command that is running.
Step(p) ==
    \/ stageJournal(p) \/ stageKey(p) \/ stageFile(p)
    \/ rehearseAccount(p) \/ rehearseDone(p)
    \/ commitLock(p) \/ publish(p) \/ retireDual(p) \/ writePoolAnthropicBackupOnce(p)
    \/ ensureAuthBackupCycle(p) \/ writeOwner(p) \/ unlinkLegacyDocument(p)
    \/ writePoolAnthropicPlaceholder(p) \/ releaseAuthLock(p) \/ unlinkStaging(p) \/ journalOwned(p) \/ renameNative(p)
    \/ rollbackLock(p) \/ rollbackIntent(p) \/ restoreNative(p) \/ reconcileLock(p)
    \/ restorePoolAnthropicAuthIfPlaceholder(p) \/ removeLegacyOwner(p) \/ removeOwnerEntry(p)
    \/ removeBackup(p) \/ removeStaging(p) \/ removeRetired(p) \/ journalRolledBack(p)
    \/ preCommitIntent(p) \/ preCommitRename(p) \/ deleteStagedKeychain(p) \/ preCommitPutBack(p)
    \/ preCommitUnlink(p) \/ preCommitNative(p)

Command(p) ==
    \/ stage(p) \/ rehearse(p) \/ rollback(p)
    \/ \E explicit \in BOOLEAN : commit(p, explicit) \/ resume(p, explicit)

Fault(p) == stageKeyFails(p) \/ deleteStagedKeychainFails(p) \/ crash(p)

Pi == piLogin \/ \E a \in Accounts : piRefresh(a) \/ piAddAccount(a) \/ piRemoveAccount(a)

Next ==
    \/ \E p \in Procs : Command(p) \/ Step(p) \/ Fault(p)
    \/ lockStale \/ Pi
    \/ \E a \in Accounts : qlbRefresh(a)

\* resume refuses and names rollback as the way out: a login newer than the
\* backup, or a staging file that is not the journal's.
RollbackAdvised ==
    /\ journal.intent # "rollback"
    /\ \/ ~HasPlaceholder /\ poolNativeEntryChangedSinceStage
       \/ ~Owned /\ journal.intent = None /\ staging # None /\ ~StagingValid

\* resume refuses although status promises that it completes the commit: the
\* claim stands, but a later rehearsal failed or a new stage never finished.
PublicationRefused ==
    /\ journal.intent # "rollback" /\ v2
    /\ IF staging = None THEN ~poolV2PublicationEvidence(journal.state)
       ELSE ~StagingValid \/ journal.state = "MIRRORED"

AllIdle == \A p \in Procs : pc[p] = "idle"

\* Nothing is half done: QLB owns the pool or Pi does, and no artifact of the
\* other side is left.
Settled ==
    /\ AllIdle
    /\ journal.intent = None /\ staging = None /\ aside = None
    /\ \/ /\ Owned /\ ~(legacy /\ v2) /\ (v2 => HasPlaceholder)
          /\ journal.state = "QLB_OWNED" /\ retired # None
       \/ /\ ~Owned /\ ~HasPlaceholder
          /\ journal.state \in {"NATIVE", "VALIDATED"} /\ pool # None /\ retired = None

\* An operator who does not give up: resume, and rollback where resume refuses.
recover(p) ==
    /\ ~Settled
    /\ \/ (RollbackAdvised \/ PublicationRefused) /\ rollback(p)
       \/ ~RollbackAdvised /\ resume(p, TRUE)

Fairness ==
    /\ \A p \in Procs : WF_vars(Step(p)) /\ SF_vars(recover(p))
    /\ WF_vars(lockStale)

Spec == Init /\ [][Next]_vars
FairSpec == Spec /\ Fairness

-----------------------------------------------------------------------------
\* "Every point resolves to 'native works' or 'QLB works', never neither": with
\* a claim standing QLB holds an item for every account of the journal, and
\* without one the native pool file is under its own name - at every step of
\* every command, whatever died before.
NeverNeither ==
    /\ Owned => journal.accts # {} /\ journal.accts \subseteq In(keychain)
    /\ ~Owned => pool # None

\* The last login Pi stored in auth.json is never lost: it is in the file, or in
\* the backup that rollback restores when the file holds QLB's placeholder.
LoginKept ==
    IF HasPlaceholder THEN backup # None /\ backup.entry = login ELSE auth = login

\* Pi is never left with QLB's placeholder and nobody to serve it: the
\* placeholder comes after the claim and goes before it.
PlaceholderOwned == HasPlaceholder => Owned

\* "Only after a passing rehearsal does commit flip the switch": when a claim
\* appears, every credential QLB then serves has been accepted in a rehearsal.
RehearsedBeforeOwned ==
    [][~Owned /\ Owned' => \A a \in journal.accts : <<a, keychain[a]>> \in rehearsed]_vars

\* "rollback/resume converge after any interruption".
ResumeConverges == []<>Settled

\* "rollback restores a working native setup from QLB's current grants (not from
\* a stale backup)": the step that gives the pool back to Pi leaves the last
\* token QLB obtained for an account in the native file.
RollbackRestoresCurrentGrants ==
    [][Owned /\ ~Owned' => \A a \in journal.accts : pool[a] >= keychain[a]]_vars

\* "Every point resolves to 'native works' or 'QLB works', never neither", Pi is never
\* left with QLB's placeholder and nobody to serve it, and the last login Pi stored is
\* never lost - at every step of every command, whatever died before.
PoolRecoverable == NeverNeither /\ PlaceholderOwned /\ LoginKept
=============================================================================
