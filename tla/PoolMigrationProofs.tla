------------------------- MODULE PoolMigrationProofs -------------------------
(***************************************************************************)
(* The migration of Pi's pool, for any number of accounts, tokens, logins, *)
(* cycles and faults.  Types hold for any number of terminals, the safety  *)
(* properties for one: `qlb migrate` has no lock of its own between its    *)
(* checks and its writes.                                                  *)
(***************************************************************************)
EXTENDS PoolMigration, TLAPS

USE DEF claims, files, env, vars

\* The parts of TypeOK: the stores, the processes' variables and the lock.
DataOK ==
  /\ journal \in Journals
  /\ keychain \in Pools
  /\ staging \in (SUBSET Accounts) \cup {None}
  /\ aside \in (SUBSET Accounts) \cup {None}
  /\ {legacy, v2, custom} \subseteq BOOLEAN
  /\ pool \in Pools \cup {None} /\ retired \in Pools \cup {None}
  /\ auth \in Entries \cup {Placeholder}
  /\ backup \in Backups \cup {None}
  /\ issued \in Pools /\ login \in Entries
  /\ rehearsed \subseteq Accounts \X Tokens
  /\ cycles \in Cycles /\ faults \in 0 .. MaxFaults
LocOK == loc \in [Procs -> Locals]
PcOK ==
  /\ authLock \in Procs \cup {None, Dead}
  /\ pc \in [Procs -> Locked \cup Unlocked]
  /\ \A p \in Procs : pc[p] \in (IF authLock = p THEN Locked ELSE Unlocked)

\* TypeOK in three parts, which different steps disturb.
LEMMA TypeParts == TypeOK <=> DataOK /\ LocOK /\ PcOK
  BY DEF TypeOK, DataOK, LocOK, PcOK

-----------------------------------------------------------------------------
\* Control: a process goes on with or without the lock, takes it or gives it up.
LEMMA GotoKeeps ==
  ASSUME PcOK, NEW p \in Procs, NEW l, Goto(p, l),
         l \in (IF authLock' = p THEN Locked ELSE Unlocked),
         \/ authLock' = authLock
         \/ authLock = p /\ authLock' \in {None, Dead}
         \/ authLock = None /\ authLock' = p
  PROVE  PcOK'
<1>1. authLock' \in Procs \cup {None, Dead}
  BY DEF PcOK
<1>2. pc' = [pc EXCEPT ![p] = l] /\ l \in Locked \cup Unlocked
  BY DEF Goto
<1>3. pc' \in [Procs -> Locked \cup Unlocked]
  BY <1>2 DEF PcOK
<1>4. \A q \in Procs \ {p} : pc'[q] = pc[q] /\ (authLock' = q <=> authLock = q)
  BY <1>2, ProcsAssumption DEF PcOK
<1>5. pc'[p] = l
  BY <1>2 DEF PcOK
<1> QED BY <1>1, <1>3, <1>4, <1>5 DEF PcOK

\* The value of the local variables outside a command.
LEMMA NoLocalsType == NoLocals \in Locals /\ NoGrants \in Pools
<1>1. NoGrants \in Pools
  BY BoundsAssumption DEF NoGrants, Pools, Tokens
<1> QED BY <1>1 DEF NoLocals, Locals, States

\* A command that ends, and one that takes the lock or gives up.
LEMMA FinishKeeps ==
  ASSUME PcOK, LocOK, NEW p \in Procs, Finish(p)
  PROVE  PcOK' /\ LocOK'
<1>1. LocOK'
  BY NoLocalsType DEF Finish, Set, LocOK
<1>2. authLock' # p
  BY ProcsAssumption DEF Finish
<1>3. "idle" \in Unlocked
  BY DEF Unlocked
<1> QED BY <1>1, <1>2, <1>3, GotoKeeps DEF Finish

\* withPiAuthLock: the command goes on inside the section, or ends.
LEMMA AuthLockKeeps ==
  ASSUME PcOK, LocOK, NEW p \in Procs, NEW l \in Locked, AuthLock(p, l)
  PROVE  PcOK' /\ LocOK'
<1>1. CASE Finish(p)
  BY <1>1, FinishKeeps
<1>2. CASE authLock = None /\ authLock' = p /\ Goto(p, l) /\ UNCHANGED loc
  BY <1>2, GotoKeeps DEF LocOK
<1> QED BY <1>1, <1>2 DEF AuthLock

\* Which lock a process at one of the places that need it, or must not have it, has.
LEMMA WhoLocks ==
  ASSUME PcOK, NEW p \in Procs
  PROVE  /\ pc[p] \in Locked \ Unlocked => authLock = p
         /\ pc[p] \in Unlocked \ Locked => authLock # p
  BY DEF PcOK

\* A step that leaves the lock alone.
LEMMA PcMoves ==
  ASSUME PcOK, NEW p \in Procs, NEW l, Goto(p, l), authLock' = authLock,
         \/ l \in Locked \cap Unlocked
         \/ l \in Locked /\ pc[p] \in Locked \ Unlocked
         \/ l \in Unlocked /\ pc[p] \in Unlocked \ Locked
  PROVE  PcOK'
<1>1. l \in (IF authLock' = p THEN Locked ELSE Unlocked)
  BY WhoLocks
<1> QED BY <1>1, GotoKeeps

\* Local variables that a command fills in.
LEMMA LocalsType ==
  ASSUME NEW l \in Locals, NEW g \in Pools, NEW T \in SUBSET Accounts, NEW st \in States,
         NEW b \in BOOLEAN, NEW c \in BOOLEAN
  PROVE  /\ [l EXCEPT !.todo = T] \in Locals
         /\ [l EXCEPT !.grants = g, !.todo = T] \in Locals
         /\ [l EXCEPT !.st = st, !.staged = b] \in Locals
         /\ [l EXCEPT !.legacy = b, !.dual = c] \in Locals
         /\ [l EXCEPT !.whole = b] \in Locals
<1>1. [l EXCEPT !.todo = T] \in Locals
  BY ONLY l \in Locals, T \in SUBSET Accounts DEF Locals
<1>2. [l EXCEPT !.grants = g, !.todo = T] \in Locals
  BY ONLY l \in Locals, g \in Pools, T \in SUBSET Accounts DEF Locals
<1>3. [l EXCEPT !.st = st, !.staged = b] \in Locals
  BY ONLY l \in Locals, st \in States, b \in BOOLEAN DEF Locals
<1>4. [l EXCEPT !.legacy = b, !.dual = c] \in Locals
  BY ONLY l \in Locals, b \in BOOLEAN, c \in BOOLEAN DEF Locals
<1>5. [l EXCEPT !.whole = b] \in Locals
  BY ONLY l \in Locals, b \in BOOLEAN DEF Locals
<1> QED BY <1>1, <1>2, <1>3, <1>4, <1>5

\* Setting one process's local variables.
LEMMA SetKeeps ==
  ASSUME LocOK, NEW p \in Procs, NEW l \in Locals, Set(p, l)
  PROVE  LocOK'
  BY DEF LocOK, Set

\* The fields the local variables are read by.
LEMMA LocFields ==
  ASSUME LocOK, NEW p \in Procs
  PROVE  /\ loc[p] \in Locals /\ loc[p].todo \in SUBSET Accounts /\ loc[p].grants \in Pools
         /\ loc[p].st \in States
  BY DEF LocOK, Locals

\* The row's fields.
LEMMA RowFields ==
  ASSUME DataOK
  PROVE  /\ journal.accts \in SUBSET Accounts /\ journal.state \in States /\ journal.cycle \in Cycles
         /\ journal.intent \in {None, "rollback", "pre-commit-rollback"}
  BY DEF DataOK, Journals

\* Commands begin without the lock.
LEMMA BeginKeeps ==
  ASSUME PcOK, LocOK, NEW p \in Procs, pc[p] = "idle", NEW l \in Unlocked, Goto(p, l),
         authLock' = authLock, NEW v \in Locals, Set(p, v)
  PROVE  PcOK' /\ LocOK'
<1>1. "idle" \in Unlocked \ Locked
  BY DEF Locked, Unlocked
<1> QED BY <1>1, PcMoves, SetKeeps

\* commitPoolV2 begins a publication or goes straight to hygiene.
LEMMA CommitBegins ==
  ASSUME DataOK, LocOK, PcOK, NEW p \in Procs, NEW b \in BOOLEAN, commitPoolV2(p, b), pc[p] = "idle",
         authLock' = authLock
  PROVE  PcOK' /\ LocOK'
<1>1. {"commit", "hygiene", "idle"} \subseteq Unlocked \ Locked
  BY DEF Locked, Unlocked
<1>2. CASE Goto(p, "hygiene") /\ UNCHANGED loc
  BY <1>1, <1>2, PcMoves DEF LocOK
<1>3. CASE Goto(p, "commit") /\ Set(p, [NoLocals EXCEPT !.st = journal.state, !.staged = staging # None])
  <2>1. (staging # None) \in BOOLEAN
    OBVIOUS
  <2>2. [NoLocals EXCEPT !.st = journal.state, !.staged = staging # None] \in Locals
    BY <2>1, NoLocalsType, LocalsType, RowFields
  <2> QED BY <1>1, <1>3, <2>2, BeginKeeps
<1> QED BY <1>2, <1>3 DEF commitPoolV2

\* Beginning any command keeps the types.
LEMMA CommandTypes ==
  ASSUME DataOK, LocOK, PcOK, NEW p \in Procs, Command(p)
  PROVE  PcOK' /\ LocOK' /\ DataOK'
<1>d. authLock' = authLock /\ DataOK'
  BY Zenon DEF Command, stage, rehearse, rollback, commit, resume, DataOK
<1>u. {"stage", "rehearse", "rollback", "restore", "preDelete", "preIntent", "hygiene", "rmRetired"}
        \subseteq Unlocked
  BY DEF Unlocked
<1>i. pc[p] = "idle"
  BY DEF Command, stage, rehearse, rollback, commit, resume
<1>k. keychain \in Pools /\ (pool # None => pool \in Pools)
  BY DEF DataOK
<1>n. \A f : In(f) \in SUBSET Accounts
  BY DEF In
<1>t. [NoLocals EXCEPT !.todo = journal.accts] \in Locals
  BY NoLocalsType, LocalsType, RowFields, <1>k
<1>1. CASE stage(p)
  <2>1. [NoLocals EXCEPT !.grants = pool, !.todo = In(pool)] \in Locals
    BY <1>1, <1>k, <1>n, NoLocalsType, LocalsType, RowFields DEF stage
  <2> QED BY <1>1, <1>d, <1>u, <1>i, <2>1, BeginKeeps DEF stage
<1>2. CASE rehearse(p)
  <2>1. [NoLocals EXCEPT !.grants = keychain, !.todo = journal.accts] \in Locals
    BY <1>k, NoLocalsType, LocalsType, RowFields
  <2> QED BY <1>2, <1>d, <1>u, <1>i, <2>1, BeginKeeps DEF rehearse
<1>3. CASE rollback(p)
  <2>1. \E l \in Unlocked : Goto(p, l)
    BY <1>3, <1>u DEF rollback
  <2> QED BY <1>3, <1>d, <1>i, <1>t, <2>1, BeginKeeps DEF rollback
<1>4. ASSUME NEW b \in BOOLEAN, commit(p, b) PROVE PcOK' /\ LocOK'
  BY <1>4, <1>d, <1>i, CommitBegins DEF commit
<1>5. ASSUME NEW b \in BOOLEAN, resume(p, b) PROVE PcOK' /\ LocOK'
  <2>1. \/ commitPoolV2(p, b)
        \/ \E l \in Unlocked : Goto(p, l) /\ Set(p, [NoLocals EXCEPT !.todo = journal.accts])
    BY <1>5, <1>u DEF resume
  <2> QED BY <1>d, <1>i, <1>t, <2>1, BeginKeeps, CommitBegins
<1> QED BY <1>d, <1>1, <1>2, <1>3, <1>4, <1>5 DEF Command

\* The steps of running commands keep process variables and lock in order.
LEMMA StepControl ==
  ASSUME DataOK, LocOK, PcOK, NEW p \in Procs, Step(p) \/ Fault(p)
  PROVE  PcOK' /\ LocOK'
<1>u. /\ {"idle", "stage", "stageKeys", "stageFile", "rehearse", "commit", "unstage", "hygiene", "rename",
          "rollback", "relock", "preIntent", "preRename", "preDelete", "prePutBack", "preUnlink",
          "preNative"} \subseteq Unlocked \ Locked
      /\ {"publish", "dual", "backup", "cycle", "owner", "unlinkV1", "placeholder", "unlock", "intent",
          "reconcile", "rmBackup"} \subseteq Locked \ Unlocked
      /\ {"restore", "unown", "unownV2", "rmStaging", "rmRetired", "native"} \subseteq Locked \cap Unlocked
  BY DEF Locked, Unlocked
<1>l. loc[p] \in Locals /\ loc[p].todo \in SUBSET Accounts /\ NoGrants \in Pools /\ "NATIVE" \in States
  BY LocFields, NoLocalsType DEF States
<1> USE <1>u
<1>f. Finish(p) => PcOK' /\ LocOK'
  BY FinishKeeps
<1>g. ASSUME NEW l, Goto(p, l), authLock' = authLock, UNCHANGED loc,
             \/ l \in Locked \cap Unlocked
             \/ l \in Locked /\ pc[p] \in Locked \ Unlocked
             \/ l \in Unlocked /\ pc[p] \in Unlocked \ Locked
      PROVE  PcOK' /\ LocOK'
  BY <1>g, PcMoves DEF LocOK
<1>1. CASE stageJournal(p)
  BY <1>1, <1>g DEF stageJournal
<1>2. CASE retireDual(p)
  BY <1>2, <1>g DEF retireDual
<1>3. CASE ensureAuthBackupCycle(p)
  BY <1>3, <1>g DEF ensureAuthBackupCycle
<1>4. CASE writeOwner(p)
  BY <1>4, <1>g DEF writeOwner
<1>5. CASE unlinkLegacyDocument(p)
  BY <1>5, <1>g DEF unlinkLegacyDocument
<1>6. CASE unlinkStaging(p)
  BY <1>6, <1>g DEF unlinkStaging
<1>7. CASE journalOwned(p)
  BY <1>7, <1>g DEF journalOwned
<1>8. CASE rollbackIntent(p)
  BY <1>8, <1>g DEF rollbackIntent
<1>9. CASE removeLegacyOwner(p)
  BY <1>9, <1>g DEF removeLegacyOwner
<1>10. CASE removeStaging(p)
  BY <1>10, <1>g DEF removeStaging
<1>11. CASE removeRetired(p)
  BY <1>11, <1>g DEF removeRetired
<1>12. CASE preCommitUnlink(p)
  BY <1>12, <1>g DEF preCommitUnlink
<1>13. CASE deleteStagedKeychainFails(p)
  BY <1>13, <1>g DEF deleteStagedKeychainFails
<1>14. CASE stageFile(p)
  BY <1>14, <1>f DEF stageFile
<1>15. CASE rehearseDone(p)
  BY <1>15, <1>f DEF rehearseDone
<1>16. CASE renameNative(p)
  BY <1>16, <1>f DEF renameNative
<1>17. CASE journalRolledBack(p)
  BY <1>17, <1>f DEF journalRolledBack
<1>18. CASE preCommitPutBack(p)
  BY <1>18, <1>f DEF preCommitPutBack
<1>19. CASE preCommitNative(p)
  BY <1>19, <1>f DEF preCommitNative
<1>20. CASE stageKeyFails(p)
  BY <1>20, <1>f DEF stageKeyFails
<1>21. CASE writePoolAnthropicBackupOnce(p)
  BY <1>21, <1>f, <1>g DEF writePoolAnthropicBackupOnce, AfterBackup
<1>22. CASE restorePoolAnthropicAuthIfPlaceholder(p)
  BY <1>22, <1>f, <1>g DEF restorePoolAnthropicAuthIfPlaceholder
<1>23. CASE preCommitIntent(p)
  BY <1>23, <1>f, <1>g DEF preCommitIntent
<1>24. CASE preCommitRename(p)
  BY <1>24, <1>f, <1>g DEF preCommitRename
<1>25. CASE commitLock(p)
  BY <1>25, AuthLockKeeps DEF commitLock
<1>26. CASE reconcileLock(p)
  BY <1>26, AuthLockKeeps DEF reconcileLock
<1>27. CASE stageKey(p)
  <2>1. PICK a \in loc[p].todo :
          /\ Set(p, [loc[p] EXCEPT !.todo = @ \ {a}])
          /\ Goto(p, IF loc[p].todo = {a} THEN "stageFile" ELSE "stageKeys")
    BY <1>27 DEF stageKey
  <2>2. [loc[p] EXCEPT !.todo = loc[p].todo \ {a}] \in Locals
    BY <1>l, LocalsType
  <2> QED BY <1>27, <2>1, <2>2, PcMoves, SetKeeps DEF stageKey
<1>28. CASE rehearseAccount(p)
  <2>1. CASE Finish(p)
    BY <1>f, <2>1
  <2>2. ASSUME NEW a \in loc[p].todo, Set(p, [loc[p] EXCEPT !.todo = @ \ {a}]), UNCHANGED <<authLock, pc>>
        PROVE  PcOK' /\ LocOK'
    <3>1. [loc[p] EXCEPT !.todo = loc[p].todo \ {a}] \in Locals
      BY <1>l, LocalsType
    <3> QED BY <2>2, <3>1, SetKeeps DEF PcOK
  <2> QED BY <1>28, <2>1, <2>2 DEF rehearseAccount
<1>29. CASE publish(p)
  <2>1. CASE Finish(p)
    BY <1>f, <2>1
  <2>2. CASE /\ Set(p, [loc[p] EXCEPT !.legacy = legacy, !.dual = legacy /\ v2])
             /\ Goto(p, IF legacy /\ v2 THEN "dual" ELSE "backup")
             /\ UNCHANGED authLock
    <3>1. legacy \in BOOLEAN /\ (legacy /\ v2) \in BOOLEAN
      BY DEF DataOK
    <3>2. [loc[p] EXCEPT !.legacy = legacy, !.dual = legacy /\ v2] \in Locals
      BY <1>l, <3>1, LocalsType
    <3>3. \E l \in Locked : Goto(p, l)
      BY <2>2
    <3> QED BY <1>29, <2>2, <3>2, <3>3, PcMoves, SetKeeps DEF publish
  <2> QED BY <1>29, <2>1, <2>2 DEF publish
<1>30. CASE writePoolAnthropicPlaceholder(p)
  BY <1>30, <1>g DEF writePoolAnthropicPlaceholder
<1>30a. CASE releaseAuthLock(p)
  <2>1. authLock = p
    BY <1>30a, WhoLocks DEF releaseAuthLock
  <2>2. authLock' # p
    BY <1>30a, ProcsAssumption DEF releaseAuthLock
  <2> QED BY <1>30a, <2>1, <2>2, GotoKeeps DEF releaseAuthLock, LocOK
<1>31. CASE rollbackLock(p)
  <2>1. [loc[p] EXCEPT !.whole = TRUE] \in Locals
    BY <1>l, LocalsType
  <2>2. CASE authLock = None /\ authLock' = p /\ Set(p, [loc[p] EXCEPT !.whole = TRUE]) /\ Goto(p, "intent")
    BY <2>1, <2>2, GotoKeeps, SetKeeps
  <2> QED BY <1>31, <1>f, <2>2 DEF rollbackLock
<1>32. CASE restoreNative(p)
  <2>1. CASE Finish(p)
    BY <1>f, <2>1
  <2>2. CASE Goto(p, AfterRestore(p)) /\ UNCHANGED <<authLock, loc>>
    <3>1. AfterRestore(p) \in (IF authLock' = p THEN Locked ELSE Unlocked)
      BY <2>2 DEF AfterRestore
    <3> QED BY <2>2, <3>1, GotoKeeps DEF LocOK
  <2> QED BY <1>32, <2>1, <2>2 DEF restoreNative
<1>33. CASE removeOwnerEntry(p)
  <2>1. (IF authLock = p THEN "rmBackup" ELSE "rmStaging") \in (IF authLock' = p THEN Locked ELSE Unlocked)
    BY <1>33 DEF removeOwnerEntry
  <2> QED BY <1>33, <2>1, GotoKeeps DEF removeOwnerEntry, LocOK
<1>34. CASE removeBackup(p)
  <2>1. authLock = p
    BY <1>34, WhoLocks DEF removeBackup
  <2> QED BY <1>34, <2>1, GotoKeeps DEF removeBackup, LocOK
<1>35. CASE deleteStagedKeychain(p)
  <2>1. CASE Goto(p, "preUnlink") /\ UNCHANGED <<keychain, loc>>
    BY <1>35, <1>g, <2>1 DEF deleteStagedKeychain
  <2>2. ASSUME NEW a \in loc[p].todo, Set(p, [loc[p] EXCEPT !.todo = @ \ {a}]), UNCHANGED pc
        PROVE  PcOK' /\ LocOK'
    <3>1. [loc[p] EXCEPT !.todo = loc[p].todo \ {a}] \in Locals
      BY <1>l, LocalsType
    <3> QED BY <1>35, <2>2, <3>1, SetKeeps DEF PcOK, deleteStagedKeychain
  <2> QED BY <1>35, <2>1, <2>2 DEF deleteStagedKeychain
<1>36. CASE crash(p)
  <2>1. authLock' # p
    BY <1>36, ProcsAssumption DEF crash
  <2> QED BY <1>36, <2>1, GotoKeeps, SetKeeps, NoLocalsType DEF crash
<1> QED BY <1>1, <1>2, <1>3, <1>4, <1>5, <1>6, <1>7, <1>8, <1>9, <1>10, <1>11, <1>12, <1>13, <1>14, <1>15, <1>16, <1>17, <1>18, <1>19, <1>20, <1>21, <1>22, <1>23, <1>24, <1>25, <1>26, <1>27, <1>28, <1>29, <1>30, <1>30a, <1>31, <1>32, <1>33, <1>34, <1>35, <1>36 DEF Step, Fault

-----------------------------------------------------------------------------
\* The row after a step.
Row(st, i, A) == journal' \in Journals /\ journal'.state = st /\ journal'.intent = i /\ journal'.accts = A

\* What the journalling steps write.
LEMMA JournalSteps ==
  ASSUME DataOK, LocOK, NEW p \in Procs
  PROVE  /\ stageJournal(p) => Row("MIRRORED", journal.intent, loc[p].todo)
         /\ rehearseDone(p) => Row("VALIDATED", journal.intent, journal.accts)
         /\ ensureAuthBackupCycle(p) => Row(journal.state, journal.intent, journal.accts)
         /\ journalOwned(p) => Row("QLB_OWNED", None, journal.accts)
         /\ rollbackIntent(p) => Row(journal.state, "rollback", journal.accts)
         /\ journalRolledBack(p) => Row("VALIDATED", None, journal.accts)
         /\ preCommitNative(p) => Row("NATIVE", None, journal.accts)
         /\ rehearseAccount(p) /\ journal' # journal => Row("MIRRORED", journal.intent, journal.accts)
         /\ publish(p) /\ journal' # journal => Row(loc[p].st, journal.intent, journal.accts)
         /\ preCommitIntent(p) /\ journal' # journal => Row(journal.state, "pre-commit-rollback", journal.accts)
<1>t. /\ journal \in Journals /\ journal.state \in States /\ loc[p].todo \in SUBSET Accounts
      /\ loc[p].st \in States /\ {"NATIVE", "MIRRORED", "VALIDATED", "QLB_OWNED"} \subseteq States
      /\ (cycles < MaxCycles => cycles + 1 \in Cycles)
  BY RowFields, LocFields, BoundsAssumption DEF DataOK, States, Cycles
<1>1. ASSUME stageJournal(p) PROVE Row("MIRRORED", journal.intent, loc[p].todo)
  <2>1. journal' = [[journal EXCEPT !.accts = loc[p].todo, !.cycle = cycles + 1, !.pub = FALSE] EXCEPT !.state = "MIRRORED"] /\ cycles + 1 \in Cycles
    BY <1>1, <1>t DEF stageJournal, Journal
  <2> QED BY ONLY <1>t, <2>1 DEF Row, Journals
<1>2. ASSUME rehearseDone(p) PROVE Row("VALIDATED", journal.intent, journal.accts)
  <2>1. journal' = [journal EXCEPT !.state = "VALIDATED"]
    BY <1>2, <1>t DEF rehearseDone, Journal
  <2> QED BY ONLY <1>t, <2>1 DEF Row, Journals
<1>3. ASSUME ensureAuthBackupCycle(p) PROVE Row(journal.state, journal.intent, journal.accts)
  <2>1. journal' = [[journal EXCEPT !.cycle = cycles + 1] EXCEPT !.state = journal.state] /\ cycles + 1 \in Cycles
    BY <1>3, <1>t DEF ensureAuthBackupCycle, Journal
  <2> QED BY ONLY <1>t, <2>1 DEF Row, Journals
<1>4. ASSUME journalOwned(p) PROVE Row("QLB_OWNED", None, journal.accts)
  <2>1. journal' = [[journal EXCEPT !.intent = None] EXCEPT !.state = "QLB_OWNED"]
    BY <1>4, <1>t DEF journalOwned, Journal
  <2> QED BY ONLY <1>t, <2>1 DEF Row, Journals
<1>5. ASSUME rollbackIntent(p) PROVE Row(journal.state, "rollback", journal.accts)
  <2>1. journal' = [[journal EXCEPT !.intent = "rollback"] EXCEPT !.state = journal.state]
    BY <1>5, <1>t DEF rollbackIntent, Journal
  <2> QED BY ONLY <1>t, <2>1 DEF Row, Journals
<1>6. ASSUME journalRolledBack(p) PROVE Row("VALIDATED", None, journal.accts)
  <2>1. journal' = [[journal EXCEPT !.intent = None, !.pub = FALSE] EXCEPT !.state = "VALIDATED"]
    BY <1>6, <1>t DEF journalRolledBack, Journal
  <2> QED BY ONLY <1>t, <2>1 DEF Row, Journals
<1>7. ASSUME preCommitNative(p) PROVE Row("NATIVE", None, journal.accts)
  <2>1. journal' = [[journal EXCEPT !.intent = None] EXCEPT !.state = "NATIVE"]
    BY <1>7, <1>t DEF preCommitNative, Journal
  <2> QED BY ONLY <1>t, <2>1 DEF Row, Journals
<1>8. ASSUME rehearseAccount(p), journal' # journal PROVE Row("MIRRORED", journal.intent, journal.accts)
  <2>1. journal' = [journal EXCEPT !.state = "MIRRORED"]
    BY <1>8, <1>t DEF rehearseAccount, Journal
  <2> QED BY ONLY <1>t, <2>1 DEF Row, Journals
<1>9. ASSUME publish(p), journal' # journal PROVE Row(loc[p].st, journal.intent, journal.accts)
  <2>1. journal' = [[journal EXCEPT !.pub = TRUE] EXCEPT !.state = loc[p].st]
    BY <1>9, <1>t DEF publish, Journal
  <2> QED BY ONLY <1>t, <2>1 DEF Row, Journals
<1>10. ASSUME preCommitIntent(p), journal' # journal PROVE Row(journal.state, "pre-commit-rollback", journal.accts)
  <2>1. journal' = [[journal EXCEPT !.intent = "pre-commit-rollback"] EXCEPT !.state = journal.state]
    BY <1>10, <1>t DEF preCommitIntent, Journal
  <2> QED BY ONLY <1>t, <2>1 DEF Row, Journals
<1> QED BY <1>1, <1>2, <1>3, <1>4, <1>5, <1>6, <1>7, <1>8, <1>9, <1>10

\* The steps of running commands keep the stores in their sets.
LEMMA StepData ==
  ASSUME DataOK, LocOK, PcOK, NEW p \in Procs, Step(p) \/ Fault(p)
  PROVE  DataOK'
<1>l. loc[p].todo \in SUBSET Accounts /\ loc[p].grants \in Pools
  BY LocFields
<1>b. legacy \in BOOLEAN /\ v2 \in BOOLEAN /\ custom \in BOOLEAN
  BY DEF DataOK
<1>z. 0 \in Tokens /\ cycles \in Nat /\ faults \in Nat
  BY BoundsAssumption DEF DataOK, Tokens, Cycles
<1>f. faults < MaxFaults => faults + 1 \in 0 .. MaxFaults
  BY BoundsAssumption DEF DataOK
<1>c. cycles < MaxCycles => cycles + 1 \in Cycles
  BY BoundsAssumption DEF DataOK, Cycles
<1>s. /\ staging \in (SUBSET Accounts) \cup {None} /\ aside \in (SUBSET Accounts) \cup {None}
      /\ None \in (SUBSET Accounts) \cup {None}
  BY Zenon DEF DataOK
<1>n. \A f : In(f) \in SUBSET Accounts
  BY DEF In
<1>1. CASE stageJournal(p)
  BY <1>1, <1>c, JournalSteps DEF stageJournal, DataOK, Row
<1>2. CASE rehearseDone(p)
  BY <1>2, <1>c, JournalSteps DEF rehearseDone, DataOK, Row
<1>3. CASE ensureAuthBackupCycle(p)
  BY <1>3, <1>c, JournalSteps DEF ensureAuthBackupCycle, DataOK, Row
<1>4. CASE journalOwned(p)
  BY <1>4, <1>c, JournalSteps DEF journalOwned, DataOK, Row
<1>5. CASE rollbackIntent(p)
  BY <1>5, <1>c, JournalSteps DEF rollbackIntent, DataOK, Row
<1>6. CASE journalRolledBack(p)
  BY <1>6, <1>c, JournalSteps DEF journalRolledBack, DataOK, Row
<1>7. CASE preCommitNative(p)
  BY <1>7, <1>c, JournalSteps DEF preCommitNative, DataOK, Row
<1>8. CASE publish(p)
  BY <1>8, <1>c, JournalSteps DEF publish, DataOK, Row
<1>9. CASE preCommitIntent(p)
  BY <1>9, <1>c, JournalSteps DEF preCommitIntent, DataOK, Row
<1>10. CASE rehearseAccount(p)
  <2>1. journal' \in Journals
    BY <1>10, JournalSteps DEF rehearseAccount, DataOK, Row
  <2>2. rehearsed' \subseteq Accounts \X Tokens
    BY <1>10, <1>l DEF rehearseAccount, DataOK, Pools
  <2> QED BY <1>10, <2>1, <2>2 DEF rehearseAccount, DataOK
<1>11. CASE commitLock(p)
  BY <1>11 DEF commitLock, DataOK
<1>12. CASE reconcileLock(p)
  BY <1>12 DEF reconcileLock, DataOK
<1>13. CASE rollbackLock(p)
  BY <1>13 DEF rollbackLock, DataOK
<1>14. CASE stageKey(p)
  <2>1. keychain' \in Pools
    BY <1>14, <1>l DEF stageKey, DataOK, Pools
  <2> QED BY <1>14, <2>1 DEF stageKey, DataOK
<1>15. CASE stageFile(p)
  BY <1>15, <1>n DEF stageFile, DataOK
<1>16. CASE deleteStagedKeychain(p)
  <2>1. keychain' \in Pools
    BY <1>16, <1>l, <1>z DEF deleteStagedKeychain, DataOK, Pools
  <2> QED BY <1>16, <2>1 DEF deleteStagedKeychain, DataOK
<1>17. CASE retireDual(p)
  <2>1. legacy' \in BOOLEAN /\ v2' \in BOOLEAN /\ custom' \in BOOLEAN
    BY <1>17, <1>b, Zenon DEF retireDual
  <2> QED BY <1>17, <2>1 DEF retireDual, DataOK
<1>18. CASE writeOwner(p)
  <2>1. legacy' \in BOOLEAN /\ v2' \in BOOLEAN /\ custom' \in BOOLEAN
    BY <1>18, <1>b, Zenon DEF writeOwner
  <2> QED BY <1>18, <2>1 DEF writeOwner, DataOK
<1>19. CASE unlinkLegacyDocument(p)
  <2>1. legacy' \in BOOLEAN /\ v2' \in BOOLEAN /\ custom' \in BOOLEAN
    BY <1>19, <1>b, Zenon DEF unlinkLegacyDocument
  <2> QED BY <1>19, <2>1 DEF unlinkLegacyDocument, DataOK
<1>20. CASE removeLegacyOwner(p)
  <2>1. legacy' \in BOOLEAN /\ v2' \in BOOLEAN /\ custom' \in BOOLEAN
    BY <1>20, <1>b, Zenon DEF removeLegacyOwner
  <2> QED BY <1>20, <2>1 DEF removeLegacyOwner, DataOK
<1>21. CASE removeOwnerEntry(p)
  <2>1. legacy' \in BOOLEAN /\ v2' \in BOOLEAN /\ custom' \in BOOLEAN
    BY <1>21, <1>b, Zenon DEF removeOwnerEntry
  <2> QED BY <1>21, <2>1 DEF removeOwnerEntry, DataOK
<1>22. CASE writePoolAnthropicBackupOnce(p)
  <2>1. backup' \in Backups \cup {None}
    <3>1. CASE backup' = backup
      BY <3>1 DEF DataOK
    <3>2. CASE ~HasPlaceholder /\ backup' = [cycle |-> journal.cycle, entry |-> auth]
      <4>1. journal.cycle \in Cycles /\ auth \in Entries
        BY <3>2, RowFields DEF DataOK, HasPlaceholder
      <4> QED BY <3>2, <4>1 DEF Backups
    <3> QED BY <1>22, <3>1, <3>2 DEF writePoolAnthropicBackupOnce
  <2> QED BY <1>22, <2>1 DEF writePoolAnthropicBackupOnce, DataOK
<1>23. CASE writePoolAnthropicPlaceholder(p)
  BY <1>23 DEF writePoolAnthropicPlaceholder, DataOK
<1>23a. CASE releaseAuthLock(p)
  BY <1>23a DEF releaseAuthLock, DataOK
<1>24. CASE restorePoolAnthropicAuthIfPlaceholder(p)
  <2>1. backup # None => backup.entry \in Entries
    BY DEF DataOK, Backups
  <2> QED BY <1>24, <2>1 DEF restorePoolAnthropicAuthIfPlaceholder, DataOK
<1>25. CASE unlinkStaging(p)
  <2>1. staging' \in (SUBSET Accounts) \cup {None} /\ aside' \in (SUBSET Accounts) \cup {None}
    BY <1>25, <1>s, Zenon DEF unlinkStaging
  <2> QED BY <1>25, <2>1 DEF unlinkStaging, DataOK
<1>26. CASE removeStaging(p)
  <2>1. staging' \in (SUBSET Accounts) \cup {None} /\ aside' \in (SUBSET Accounts) \cup {None}
    BY <1>26, <1>s, Zenon DEF removeStaging
  <2> QED BY <1>26, <2>1 DEF removeStaging, DataOK
<1>27. CASE preCommitRename(p)
  <2>1. staging' \in (SUBSET Accounts) \cup {None} /\ aside' \in (SUBSET Accounts) \cup {None}
    BY <1>27, <1>s, Zenon DEF preCommitRename
  <2> QED BY <1>27, <2>1 DEF preCommitRename, DataOK
<1>28. CASE preCommitPutBack(p)
  <2>1. staging' \in (SUBSET Accounts) \cup {None} /\ aside' \in (SUBSET Accounts) \cup {None}
    BY <1>28, <1>s, Zenon DEF preCommitPutBack
  <2> QED BY <1>28, <2>1 DEF preCommitPutBack, DataOK
<1>29. CASE preCommitUnlink(p)
  <2>1. staging' \in (SUBSET Accounts) \cup {None} /\ aside' \in (SUBSET Accounts) \cup {None}
    BY <1>29, <1>s, Zenon DEF preCommitUnlink
  <2> QED BY <1>29, <2>1 DEF preCommitUnlink, DataOK
<1>30. CASE renameNative(p)
  BY <1>30 DEF renameNative, DataOK
<1>31. CASE restoreNative(p)
  BY <1>31 DEF restoreNative, DataOK
<1>32. CASE removeBackup(p)
  BY <1>32 DEF removeBackup, DataOK
<1>33. CASE removeRetired(p)
  BY <1>33 DEF removeRetired, DataOK
<1>34. CASE stageKeyFails(p)
  BY <1>34, <1>f DEF stageKeyFails, DataOK
<1>35. CASE deleteStagedKeychainFails(p)
  BY <1>35, <1>f DEF deleteStagedKeychainFails, DataOK
<1>36. CASE crash(p)
  BY <1>36, <1>f DEF crash, DataOK
<1> QED BY <1>1, <1>2, <1>3, <1>4, <1>5, <1>6, <1>7, <1>8, <1>9, <1>10, <1>11, <1>12, <1>13, <1>14, <1>15, <1>16, <1>17, <1>18, <1>19, <1>20, <1>21, <1>22, <1>23, <1>23a, <1>24, <1>25, <1>26, <1>27, <1>28, <1>29, <1>30, <1>31, <1>32, <1>33, <1>34, <1>35, <1>36 DEF Step, Fault

\* So do Pi, QLB's refreshes and the lock's staleness.
LEMMA EnvTypes ==
  ASSUME DataOK, LocOK, PcOK, lockStale \/ Pi \/ \E a \in Accounts : qlbRefresh(a)
  PROVE  DataOK' /\ LocOK' /\ PcOK'
<1>b. MaxTokens \in Nat /\ MaxLogins \in Nat
  BY BoundsAssumption
<1>1. CASE lockStale
  BY <1>1, ProcsAssumption DEF lockStale, DataOK, LocOK, PcOK
<1>2. ASSUME NEW a \in Accounts, qlbRefresh(a) PROVE DataOK' /\ LocOK' /\ PcOK'
  <2>1. keychain[a] \in Tokens /\ issued[a] \in Tokens
    BY DEF DataOK, Pools
  <2>2. keychain[a] + 1 \in Tokens /\ issued[a] + 1 \in Tokens
    BY <1>2, <1>b, <2>1 DEF qlbRefresh, Tokens
  <2>3. keychain' \in Pools /\ issued' \in Pools
    BY <1>2, <2>2 DEF qlbRefresh, DataOK, Pools
  <2> QED BY <1>2, <2>3 DEF qlbRefresh, DataOK, LocOK, PcOK
<1>3. ASSUME NEW a \in Accounts, piRefresh(a) PROVE DataOK' /\ LocOK' /\ PcOK'
  <2>1. PICK m \in Pools : /\ m[a] = issued[a] /\ issued[a] < MaxTokens
                           /\ pool' = [m EXCEPT ![a] = @ + 1]
    BY <1>3 DEF piRefresh, DataOK
  <2>2. m[a] \in Tokens /\ issued[a] \in Tokens
    BY DEF DataOK, Pools
  <2>3. m[a] + 1 \in Tokens /\ issued[a] + 1 \in Tokens
    BY <1>b, <2>1, <2>2 DEF Tokens
  <2>4. pool' \in Pools /\ issued' \in Pools
    BY <1>3, <2>1, <2>3 DEF piRefresh, DataOK, Pools
  <2> QED BY <1>3, <2>4 DEF piRefresh, DataOK, LocOK, PcOK
<1>4. ASSUME NEW a \in Accounts, piAddAccount(a) PROVE DataOK' /\ LocOK' /\ PcOK'
  <2>1. issued[a] \in Tokens /\ pool \in Pools
    BY <1>4 DEF DataOK, Pools, piAddAccount
  <2>2. issued[a] + 1 \in Tokens
    BY <1>4, <1>b, <2>1 DEF piAddAccount, Tokens
  <2>3. pool' \in Pools /\ issued' \in Pools
    BY <1>4, <2>1, <2>2 DEF piAddAccount, DataOK, Pools
  <2> QED BY <1>4, <2>3 DEF piAddAccount, DataOK, LocOK, PcOK
<1>5. ASSUME NEW a \in Accounts, piRemoveAccount(a) PROVE DataOK' /\ LocOK' /\ PcOK'
  <2>1. 0 \in Tokens /\ pool \in Pools
    BY <1>5, <1>b DEF DataOK, Tokens, piRemoveAccount
  <2>2. pool' \in Pools
    BY <1>5, <2>1 DEF piRemoveAccount, Pools
  <2> QED BY <1>5, <2>2 DEF piRemoveAccount, DataOK, LocOK, PcOK
<1>6. CASE piLogin
  <2>1. login + 1 \in Entries
    BY <1>6, <1>b DEF piLogin, DataOK, Entries
  <2> QED BY <1>6, <2>1 DEF piLogin, DataOK, LocOK, PcOK
<1> QED BY <1>1, <1>2, <1>3, <1>4, <1>5, <1>6 DEF Pi

\* The initial states have their types.
LEMMA TypeInit == Init => TypeOK
<1> SUFFICES ASSUME Init PROVE DataOK /\ LocOK /\ PcOK
  BY TypeParts
<1>1. LocOK
  BY NoLocalsType DEF Init, LocOK
<1>2. PcOK
  BY ProcsAssumption DEF Init, PcOK, Unlocked
<1>3. PICK S \in (SUBSET Accounts) \ {{}} :
        LET f == [a \in Accounts |-> IF a \in S THEN 1 ELSE 0]
            J(st, accts) == [state |-> st, intent |-> None, accts |-> accts, cycle |-> 0, pub |-> FALSE]
        IN  /\ issued = f
            /\ \/ /\ journal = J("NATIVE", {}) /\ keychain = NoGrants
                  /\ pool = f /\ retired = None /\ legacy = FALSE
               \/ /\ journal = J("QLB_OWNED", S) /\ keychain = f
                  /\ pool = None /\ retired = f /\ legacy = TRUE
  BY DEF Init
<1>4. 0 \in Cycles /\ 0 \in Tokens /\ 1 \in Tokens /\ 0 \in 0 .. MaxFaults /\ login \in Entries
  BY BoundsAssumption DEF Init, Cycles, Tokens, Entries
<1>5. issued \in Pools
  BY <1>3, <1>4 DEF Pools
<1>6. ASSUME NEW st \in States, NEW A \in SUBSET Accounts
      PROVE  [state |-> st, intent |-> None, accts |-> A, cycle |-> 0, pub |-> FALSE] \in Journals
  BY <1>4 DEF Journals
<1>7. journal \in Journals
  <2>1. "NATIVE" \in States /\ "QLB_OWNED" \in States /\ {} \in SUBSET Accounts /\ S \in SUBSET Accounts
    BY DEF States
  <2> QED BY <1>3, <1>6, <2>1
<1>8. keychain \in Pools /\ pool \in Pools \cup {None} /\ retired \in Pools \cup {None}
  BY <1>3, <1>5, NoLocalsType
<1>9. legacy \in BOOLEAN
  BY <1>3
<1>10. {legacy, v2, custom} \subseteq BOOLEAN
  BY <1>9 DEF Init
<1>11. staging \in (SUBSET Accounts) \cup {None} /\ aside \in (SUBSET Accounts) \cup {None}
  BY Zenon DEF Init
<1>12. auth \in Entries \cup {Placeholder} /\ rehearsed \subseteq Accounts \X Tokens
  BY <1>4 DEF Init
<1> QED BY <1>1, <1>2, <1>4, <1>5, <1>7, <1>8, <1>10, <1>11, <1>12 DEF Init, DataOK

\* Every step keeps the types.
LEMMA TypeStep == TypeOK /\ [Next]_vars => TypeOK'
<1> SUFFICES ASSUME DataOK, LocOK, PcOK, [Next]_vars PROVE DataOK' /\ LocOK' /\ PcOK'
  BY DEF TypeOK, DataOK, LocOK, PcOK
<1>1. CASE UNCHANGED vars
  BY <1>1 DEF DataOK, LocOK, PcOK
<1> QED BY <1>1, CommandTypes, StepControl, StepData, EnvTypes DEF Next

\* The stores, the process variables and the auth.json lock of any number of terminals
\* keep their types: the lock is held only by a process inside its section.
THEOREM TypeCorrect == Spec => []TypeOK
  BY TypeInit, TypeStep, PTL DEF Spec

-----------------------------------------------------------------------------
\* One terminal.

Pre == "pre-commit-rollback"

\* QLB holds an item of every account of the journal, and a rehearsal accepted each.
Keyed == journal.accts # {} /\ journal.accts \subseteq In(keychain)
Tested == \A a \in journal.accts : <<a, keychain[a]>> \in rehearsed

\* The row: a staging file set aside belongs to a rollback before the commit, which is
\* never one of an owned pool; a row that says QLB_OWNED without a claim is a rollback's;
\* and a staging file that commit would accept stands for rehearsed items.
RowInv ==
  /\ aside # None => journal.intent = Pre
  /\ journal.intent = Pre => ~Owned /\ journal.state # "QLB_OWNED"
  /\ ~Owned /\ journal.state = "QLB_OWNED" => journal.intent = "rollback"
  /\ journal.intent = None /\ StagingValid /\ journal.state = "VALIDATED" => Keyed /\ Tested

\* Staging and rehearsing.
StageInv(p) ==
  /\ pc[p] \in {"stage", "stageKeys", "stageFile"} =>
       ~Owned /\ journal.intent = None /\ journal.state # "QLB_OWNED"
  /\ pc[p] \in {"stageKeys", "stageFile"} => journal.state = "MIRRORED"
  /\ pc[p] = "rehearse" =>
       /\ Keyed /\ journal.state \in {"MIRRORED", "VALIDATED"}
       /\ \A a \in journal.accts : /\ loc[p].grants[a] = keychain[a]
                                   /\ a \notin loc[p].todo => <<a, keychain[a]>> \in rehearsed

\* A commit publishes what was rehearsed, the backup of the last login first, and the
\* placeholder after the claim.
CommitInv(p) ==
  /\ pc[p] \in {"commit", "publish", "dual", "backup", "cycle", "owner"} =>
       /\ journal.intent = None /\ Keyed
       /\ ~Owned => Tested /\ journal.state = "VALIDATED"
  /\ pc[p] \in {"commit", "publish"} => loc[p].st = journal.state
  /\ pc[p] = "dual" => loc[p].dual
  /\ pc[p] \in {"dual", "backup", "cycle"} /\ loc[p].dual => v2
  /\ pc[p] \in {"unlinkV1", "placeholder"} => v2
  /\ pc[p] \in {"owner", "unlinkV1", "placeholder"} => backup # None /\ backup.entry = login
  /\ pc[p] \in {"unlock", "unstage", "hygiene", "rename"} => Owned

\* A rollback takes the claim away once the native file and Pi's entry are back.
RollbackInv(p) ==
  /\ pc[p] \in {"rollback", "intent"} => journal.intent = None
  /\ pc[p] \in {"restore", "relock", "reconcile", "unown", "unownV2", "rmBackup", "rmStaging", "rmRetired",
                "native"} => journal.intent = "rollback"
  /\ pc[p] \in {"relock", "reconcile", "unown", "unownV2"} => pool # None
  /\ pc[p] \in {"unown", "unownV2"} => ~HasPlaceholder
  /\ pc[p] = "unownV2" => ~legacy
  /\ pc[p] \in {"rmBackup", "rmStaging", "rmRetired", "native"} => ~Owned
  /\ pc[p] \in {"rmRetired", "native"} => staging = None

\* A rollback before the commit deletes items that nothing stands on.
PreInv(p) ==
  /\ pc[p] \in {"preIntent", "preRename", "preDelete", "prePutBack", "preUnlink", "preNative"} =>
       ~Owned /\ journal.state # "QLB_OWNED" /\ journal.intent # "rollback"
  /\ pc[p] = "preRename" => journal.intent = Pre
  /\ pc[p] \in {"preDelete", "prePutBack", "preUnlink", "preNative"} => staging = None
  /\ pc[p] = "preNative" => aside = None

LoginInv == LoginKept /\ PlaceholderOwned /\ (backup # None => backup.entry <= login)

Safe == RowInv /\ NeverNeither /\ LoginInv
AtInv(p) == StageInv(p) /\ CommitInv(p) /\ RollbackInv(p) /\ PreInv(p)

OneTerminal == \A p, q \in Procs : p = q

\* A process that is at its prompt again owes nothing.
LEMMA IdleOwesNothing ==
  ASSUME NEW p \in Procs, pc'[p] = "idle"
  PROVE  AtInv(p)'
  BY DEF AtInv, StageInv, CommitInv, RollbackInv, PreInv

\* Beginning a command: its guards establish what its first step needs.
LEMMA CommandInv ==
  ASSUME DataOK, LocOK, PcOK, Safe, NEW p \in Procs, Command(p)
  PROVE  Safe' /\ AtInv(p)'
<1>d. UNCHANGED <<journal, keychain, files, authLock, env, cycles, faults>>
  BY DEF Command, stage, rehearse, rollback, commit, resume
<1>s. Safe'
  BY <1>d DEF Safe, RowInv, NeverNeither, LoginInv, LoginKept, PlaceholderOwned, Owned, HasPlaceholder,
              StagingValid, Keyed, Tested, In
<1>g. \A l : Goto(p, l) => pc'[p] = l
  BY DEF Goto, PcOK
<1>v. \A v : Set(p, v) => loc'[p] = v
  BY DEF Set, LocOK
<1> USE DEF Safe, AtInv, StageInv, CommitInv, RollbackInv, PreInv, RowInv, NeverNeither, Keyed, Tested, Owned,
            HasPlaceholder, StagingValid, Pre
<1>1. CASE stage(p)
  BY <1>1, <1>d, <1>g, <1>s DEF stage
<1>2. CASE rehearse(p)
  <2>1. pc'[p] = "rehearse" /\ loc'[p] = [NoLocals EXCEPT !.grants = keychain, !.todo = journal.accts]
    BY <1>2, <1>g, <1>v DEF rehearse
  <2>2. loc'[p].grants = keychain /\ loc'[p].todo = journal.accts
    BY <2>1 DEF NoLocals
  <2> QED BY <1>2, <1>d, <1>s, <2>1, <2>2 DEF rehearse, In
<1>3. CASE rollback(p)
  BY <1>3, <1>d, <1>g, <1>s, RowFields DEF rollback
<1>4. ASSUME NEW b \in BOOLEAN, commitPoolV2(p, b), journal.intent = None \/ Owned, journal.intent # "rollback"
      PROVE  AtInv(p)'
  <2>0. journal.intent = None
    BY <1>4, RowFields
  <2>1. CASE Goto(p, "hygiene")
    <3>1. pc'[p] = "hygiene"
      BY <1>g, <2>1
    <3>2. CASE v2
      BY <1>d, <3>1, <3>2
    <3>3. CASE Goto(p, "commit")
      BY <1>g, <3>1, <3>3
    <3> QED BY <1>4, <3>2, <3>3 DEF commitPoolV2
  <2>2. CASE /\ Goto(p, "commit") /\ Set(p, [NoLocals EXCEPT !.st = journal.state, !.staged = staging # None])
             /\ \/ StagingValid /\ journal.state \in {"VALIDATED", "QLB_OWNED"}
                \/ legacy \/ v2
    <3>1. pc'[p] = "commit" /\ loc'[p] = [NoLocals EXCEPT !.st = journal.state, !.staged = staging # None]
      BY <1>g, <1>v, <2>2
    <3>2. loc'[p].st = journal.state
      BY <3>1 DEF NoLocals
    <3>3. Keyed /\ (~Owned => Tested /\ journal.state = "VALIDATED")
      <4>1. CASE Owned
        BY <4>1
      <4>2. CASE ~Owned
        BY <2>0, <2>2, <4>2, NoneAssumption
      <4> QED BY <4>1, <4>2
    <3> QED BY <1>d, <2>0, <3>1, <3>2, <3>3 DEF In
  <2> QED BY <1>4, <2>1, <2>2 DEF commitPoolV2
<1>5. ASSUME NEW b \in BOOLEAN, commit(p, b) PROVE AtInv(p)'
  BY <1>4, <1>5, NoneAssumption DEF commit
<1>6. ASSUME NEW b \in BOOLEAN, resume(p, b) PROVE AtInv(p)'
  <2>1. CASE journal.intent = "rollback" /\ Goto(p, "restore")
    BY <1>d, <1>g, <2>1
  <2>2. CASE journal.intent # "rollback" /\ Owned /\ Goto(p, "hygiene")
    BY <1>d, <1>g, <2>2
  <2>3. CASE journal.intent # "rollback" /\ ~Owned /\ journal.state = "QLB_OWNED"
    BY <2>3
  <2>4. CASE /\ journal.intent # "rollback" /\ ~Owned /\ journal.state # "QLB_OWNED"
             /\ Goto(p, IF staging = None THEN "preDelete" ELSE "preIntent")
    BY <1>d, <1>g, <2>4
  <2>5. CASE journal.intent # "rollback" /\ commitPoolV2(p, b) /\ (journal.intent = None \/ Owned)
    BY <1>4, <2>5
  <2> QED BY <1>6, <2>1, <2>2, <2>3, <2>4, <2>5 DEF resume, poolNeedsV2Publication
<1> QED BY <1>s, <1>1, <1>2, <1>3, <1>5, <1>6 DEF Command

\* A step of the running command, or its fault.
LEMMA StepInv ==
  ASSUME DataOK, LocOK, PcOK, Safe, NEW p \in Procs, AtInv(p), Step(p) \/ Fault(p)
  PROVE  Safe' /\ AtInv(p)'
<1>g. \A l : Goto(p, l) => pc'[p] = l
  BY DEF Goto, PcOK
<1>v. \A v : Set(p, v) => loc'[p] = v
  BY DEF Set, LocOK
<1>f. Finish(p) => AtInv(p)'
  BY <1>g, IdleOwesNothing DEF Finish
<1>n. None # "rollback" /\ None # Pre /\ Pre # "rollback"
  BY NoneAssumption DEF Pre
<1>r. journal.intent \in {None, "rollback", Pre}
  BY RowFields DEF Pre
<1> USE DEF Safe, RowInv, NeverNeither, LoginInv, LoginKept, PlaceholderOwned, Keyed, Tested, Owned,
            HasPlaceholder, StagingValid
<1>a. AtInv(p) <=> StageInv(p) /\ CommitInv(p) /\ RollbackInv(p) /\ PreInv(p)
  BY DEF AtInv
<1>1. CASE stageJournal(p)
  BY <1>1, <1>g, <1>f, <1>n, <1>r, JournalSteps DEF stageJournal, AtInv, StageInv, CommitInv, RollbackInv, PreInv, In, Row
<1>2. CASE stageKey(p)
  BY <1>2, <1>g, <1>f, <1>n, <1>r DEF stageKey, AtInv, StageInv, CommitInv, RollbackInv, PreInv, In
<1>3. CASE stageFile(p)
  BY <1>3, <1>g, <1>f, <1>n, <1>r DEF stageFile, AtInv, StageInv, CommitInv, RollbackInv, PreInv, In
<1>4. CASE rehearseAccount(p)
  <2>u. UNCHANGED <<keychain, files, issued, login, cycles, faults>>
    BY <1>4 DEF rehearseAccount
  <2>j. ASSUME Journal("MIRRORED", journal) PROVE Row("MIRRORED", journal.intent, journal.accts)
    <3>1. journal \in Journals /\ "MIRRORED" \in States /\ journal' = [journal EXCEPT !.state = "MIRRORED"]
      BY <2>j DEF Journal, DataOK, States
    <3> QED BY ONLY <3>1 DEF Row, Journals
  <2>p. pc[p] = "rehearse"
    BY <1>4 DEF rehearseAccount
  <2>1. CASE Finish(p) /\ UNCHANGED <<journal, rehearsed>>
    BY <1>f, <2>u, <2>1 DEF In
  <2>2. CASE Finish(p) /\ Journal("MIRRORED", journal) /\ UNCHANGED rehearsed
    BY <1>f, <1>n, <2>u, <2>p, <2>j, <2>2 DEF In, Row, AtInv, StageInv
  <2>3. ASSUME NEW a \in loc[p].todo,
               rehearsed' = rehearsed \cup {<<a, loc[p].grants[a]>>},
               Set(p, [loc[p] EXCEPT !.todo = @ \ {a}]), UNCHANGED <<journal, authLock, pc>>
        PROVE  Safe' /\ AtInv(p)'
    <3>1. loc'[p] = [loc[p] EXCEPT !.todo = @ \ {a}] /\ loc[p] \in Locals
      BY <1>v, <2>3, LocFields
    <3>2. loc'[p].grants = loc[p].grants /\ loc'[p].todo = loc[p].todo \ {a}
      BY ONLY <3>1 DEF Locals
    <3>3. Safe'
      BY <2>u, <2>3 DEF In
    <3>4. \A b \in journal.accts : /\ loc'[p].grants[b] = keychain[b]
                                   /\ b \notin loc'[p].todo => <<b, keychain[b]>> \in rehearsed'
      BY <2>p, <2>3, <3>2 DEF AtInv, StageInv
    <3> QED BY <2>u, <2>p, <2>3, <3>3, <3>4 DEF In, AtInv, StageInv, CommitInv, RollbackInv, PreInv
  <2> QED BY <1>4, <2>1, <2>2, <2>3 DEF rehearseAccount
<1>5. CASE rehearseDone(p)
  BY <1>5, <1>g, <1>f, <1>n, <1>r, JournalSteps DEF rehearseDone, AtInv, StageInv, CommitInv, RollbackInv, PreInv, In, Row
<1>6. CASE commitLock(p)
  BY <1>6, <1>g, <1>f, <1>n, <1>r DEF commitLock, AuthLock, AtInv, StageInv, CommitInv, RollbackInv, PreInv, In
<1>7. CASE publish(p)
  <2>u. UNCHANGED <<keychain, files, env, cycles, faults>> /\ pc[p] = "publish"
    BY <1>7 DEF publish
  <2>1. CASE Finish(p) /\ UNCHANGED journal
    BY <1>f, <2>u, <2>1 DEF In
  <2>2. CASE /\ Journal(loc[p].st, [journal EXCEPT !.pub = TRUE])
             /\ Set(p, [loc[p] EXCEPT !.legacy = legacy, !.dual = legacy /\ v2])
             /\ Goto(p, IF legacy /\ v2 THEN "dual" ELSE "backup")
    <3>1. Row(loc[p].st, journal.intent, journal.accts)
      <4>1. /\ journal \in Journals /\ loc[p].st \in States
            /\ journal' = [[journal EXCEPT !.pub = TRUE] EXCEPT !.state = loc[p].st]
        BY <2>2, LocFields DEF Journal, DataOK
      <4> QED BY ONLY <4>1 DEF Row, Journals
    <3>2. loc'[p] = [loc[p] EXCEPT !.legacy = legacy, !.dual = legacy /\ v2] /\ loc[p] \in Locals
      BY <1>v, <2>2, LocFields
    <3>3. loc'[p].dual = (legacy /\ v2)
      BY ONLY <3>2 DEF Locals
    <3>4. pc'[p] = (IF legacy /\ v2 THEN "dual" ELSE "backup")
      BY <1>g, <2>2
    <3>5. loc[p].st = journal.state
      BY <2>u DEF AtInv, CommitInv
    <3>6. Safe'
      BY <2>u, <3>1, <3>5 DEF Row, In
    <3> QED BY <2>u, <3>1, <3>3, <3>4, <3>5, <3>6 DEF Row, In, AtInv, StageInv, CommitInv, RollbackInv, PreInv
  <2> QED BY <1>7, <2>1, <2>2 DEF publish
<1>8. CASE retireDual(p)
  BY <1>8, <1>g, <1>f, <1>n, <1>r DEF retireDual, AtInv, StageInv, CommitInv, RollbackInv, PreInv, In
<1>9. CASE writePoolAnthropicBackupOnce(p)
  <2>u. /\ UNCHANGED <<journal, keychain, staging, aside, claims, pool, retired, auth, env, cycles, faults>>
        /\ pc[p] = "backup"
    BY <1>9 DEF writePoolAnthropicBackupOnce
  <2>1. CASE Finish(p) /\ UNCHANGED backup
    BY <1>f, <2>u, <2>1 DEF In
  <2>2. CASE Goto(p, "cycle") /\ UNCHANGED <<backup, authLock, loc>>
    BY <1>g, <2>u, <2>2 DEF In, AtInv, StageInv, CommitInv, RollbackInv, PreInv
  <2>3. CASE /\ PlaceholderLineage /\ (HasPlaceholder \/ (journal.cycle # 0 /\ backup # None /\ backup.cycle = journal.cycle))
             /\ HasPlaceholder \/ ~poolNativeEntryChangedSinceStage
             /\ Goto(p, AfterBackup(p)) /\ UNCHANGED <<backup, authLock, loc>>
    <3>1. backup # None /\ backup.entry = login
      <4>1. CASE HasPlaceholder
        BY <2>3, <4>1
      <4>2. CASE ~HasPlaceholder
        BY <2>3, <4>2, PlaceholderAssumption DEF poolNativeEntryChangedSinceStage
      <4> QED BY <4>1, <4>2
    <3>2. pc'[p] = AfterBackup(p)
      BY <1>g, <2>3
    <3> QED BY <2>u, <2>3, <3>1, <3>2 DEF AfterBackup, In, AtInv, StageInv, CommitInv, RollbackInv, PreInv
  <2>4. CASE /\ ~HasPlaceholder /\ backup' = [cycle |-> journal.cycle, entry |-> auth]
             /\ Goto(p, AfterBackup(p)) /\ UNCHANGED <<authLock, loc>>
    <3>1. backup' \in Backups /\ backup'.entry = login
      BY <2>4, RowFields DEF DataOK, Backups
    <3>2. backup' # None /\ backup'.entry = login /\ login \in Nat
      BY <3>1, NoneAssumption, BoundsAssumption DEF DataOK, Entries
    <3>3. pc'[p] = AfterBackup(p)
      BY <1>g, <2>4
    <3>4. Safe'
      BY <2>u, <2>4, <3>2 DEF In
    <3> QED BY <2>u, <2>4, <3>2, <3>3, <3>4 DEF AfterBackup, In, AtInv, StageInv, CommitInv, RollbackInv, PreInv
  <2> QED BY <1>9, <2>1, <2>2, <2>3, <2>4 DEF writePoolAnthropicBackupOnce
<1>10. CASE ensureAuthBackupCycle(p)
  BY <1>10, <1>g, <1>f, <1>n, <1>r, JournalSteps DEF ensureAuthBackupCycle, AtInv, StageInv, CommitInv, RollbackInv, PreInv, In, Row
<1>11. CASE writeOwner(p)
  BY <1>11, <1>g, <1>f, <1>n, <1>r DEF writeOwner, AtInv, StageInv, CommitInv, RollbackInv, PreInv, In
<1>12. CASE unlinkLegacyDocument(p)
  BY <1>12, <1>g, <1>f, <1>n, <1>r DEF unlinkLegacyDocument, AtInv, StageInv, CommitInv, RollbackInv, PreInv, In
<1>13. CASE writePoolAnthropicPlaceholder(p)
  BY <1>13, <1>g, <1>f, <1>n, <1>r DEF writePoolAnthropicPlaceholder, AtInv, StageInv, CommitInv, RollbackInv, PreInv, In
<1>13a. CASE releaseAuthLock(p)
  BY <1>13a, <1>g, <1>f, <1>n, <1>r DEF releaseAuthLock, AtInv, StageInv, CommitInv, RollbackInv, PreInv, In
<1>14. CASE unlinkStaging(p)
  BY <1>14, <1>g, <1>f, <1>n, <1>r DEF unlinkStaging, AtInv, StageInv, CommitInv, RollbackInv, PreInv, In
<1>15. CASE journalOwned(p)
  BY <1>15, <1>g, <1>f, <1>n, <1>r, JournalSteps DEF journalOwned, AtInv, StageInv, CommitInv, RollbackInv, PreInv, In, Row
<1>16. CASE renameNative(p)
  BY <1>16, <1>g, <1>f, <1>n, <1>r DEF renameNative, AtInv, StageInv, CommitInv, RollbackInv, PreInv, In
<1>17. CASE rollbackLock(p)
  BY <1>17, <1>g, <1>f, <1>n, <1>r DEF rollbackLock, AtInv, StageInv, CommitInv, RollbackInv, PreInv, In
<1>18. CASE rollbackIntent(p)
  BY <1>18, <1>g, <1>f, <1>n, <1>r, JournalSteps DEF rollbackIntent, AtInv, StageInv, CommitInv, RollbackInv, PreInv, In, Row
<1>19. CASE restoreNative(p)
  <2>u. UNCHANGED <<journal, keychain, staging, aside, claims, auth, backup, env, cycles, faults>> /\ pc[p] = "restore"
    BY <1>19 DEF restoreNative
  <2>s. ~Owned => pool' # None
    BY <1>19 DEF restoreNative
  <2>1. CASE Finish(p)
    BY <1>f, <2>u, <2>s, <2>1 DEF In
  <2>2. CASE pool' # None /\ Goto(p, AfterRestore(p)) /\ UNCHANGED <<authLock, loc>>
    <3>1. pc'[p] = AfterRestore(p)
      BY <1>g, <2>2
    <3>2. ~v2 /\ backup = None => ~HasPlaceholder
      OBVIOUS
    <3> QED BY <2>u, <2>2, <3>1, <3>2 DEF AfterRestore, poolRollbackNeedsAuthReconciliation, In, AtInv, StageInv,
                                          CommitInv, RollbackInv, PreInv
  <2> QED BY <1>19, <2>1, <2>2 DEF restoreNative
<1>20. CASE reconcileLock(p)
  BY <1>20, <1>g, <1>f, <1>n, <1>r DEF reconcileLock, AuthLock, AtInv, StageInv, CommitInv, RollbackInv, PreInv, In
<1>21. CASE restorePoolAnthropicAuthIfPlaceholder(p)
  <2>u. /\ UNCHANGED <<journal, keychain, staging, aside, claims, pool, retired, backup, env, cycles, faults>>
        /\ pc[p] = "reconcile"
    BY <1>21 DEF restorePoolAnthropicAuthIfPlaceholder
  <2>1. CASE Finish(p) /\ UNCHANGED auth
    BY <1>f, <2>u, <2>1 DEF In
  <2>e. \A e \in Entries : e \in Nat /\ e # Placeholder
    BY BoundsAssumption, PlaceholderAssumption DEF Entries
  <2>2. CASE auth \in Entries \ {0} /\ Goto(p, "unown") /\ UNCHANGED <<auth, authLock, loc>>
    BY <1>g, <2>u, <2>e, <2>2 DEF In, AtInv, StageInv, CommitInv, RollbackInv, PreInv
  <2>3. CASE /\ auth \in {0, Placeholder} /\ backup # None /\ auth' = backup.entry
             /\ Goto(p, "unown") /\ UNCHANGED <<authLock, loc>>
    <3>1. backup.entry \in Entries /\ login \in Nat
      BY <2>3, <2>e DEF DataOK, Backups
    <3>2. auth' = login /\ auth' # Placeholder
      <4>1. CASE HasPlaceholder
        BY <2>3, <2>e, <3>1, <4>1
      <4>2. CASE auth = 0 /\ ~HasPlaceholder
        BY <2>3, <2>e, <3>1, <4>2
      <4> QED BY <2>3, <4>1, <4>2
    <3>3. Safe'
      BY <2>u, <3>2 DEF In
    <3> QED BY <1>g, <2>u, <2>3, <3>2, <3>3 DEF In, AtInv, StageInv, CommitInv, RollbackInv, PreInv
  <2> QED BY <1>21, <2>1, <2>2, <2>3 DEF restorePoolAnthropicAuthIfPlaceholder
<1>22. CASE removeLegacyOwner(p)
  BY <1>22, <1>g, <1>f, <1>n, <1>r DEF removeLegacyOwner, AtInv, StageInv, CommitInv, RollbackInv, PreInv, In
<1>23. CASE removeOwnerEntry(p)
  BY <1>23, <1>g, <1>f, <1>n, <1>r DEF removeOwnerEntry, AtInv, StageInv, CommitInv, RollbackInv, PreInv, In
<1>24. CASE removeBackup(p)
  BY <1>24, <1>g, <1>f, <1>n, <1>r DEF removeBackup, AtInv, StageInv, CommitInv, RollbackInv, PreInv, In
<1>25. CASE removeStaging(p)
  BY <1>25, <1>g, <1>f, <1>n, <1>r DEF removeStaging, AtInv, StageInv, CommitInv, RollbackInv, PreInv, In
<1>26. CASE removeRetired(p)
  BY <1>26, <1>g, <1>f, <1>n, <1>r DEF removeRetired, AtInv, StageInv, CommitInv, RollbackInv, PreInv, In
<1>27. CASE journalRolledBack(p)
  <2>1. Row("VALIDATED", None, journal.accts)
    BY <1>27, JournalSteps
  <2>2. /\ UNCHANGED <<keychain, files, env, cycles, faults>> /\ pc[p] = "native"
        /\ Finish(p)
    BY <1>27 DEF journalRolledBack
  <2> QED BY <1>f, <1>n, <2>1, <2>2 DEF Row, AtInv, RollbackInv, In
<1>28. CASE preCommitIntent(p)
  <2>u. UNCHANGED <<keychain, files, env, cycles, faults>> /\ pc[p] = "preIntent"
    BY <1>28 DEF preCommitIntent
  <2>1. CASE Finish(p) /\ UNCHANGED journal
    BY <1>f, <2>u, <2>1 DEF In
  <2>2. CASE /\ aside = None /\ Journal(journal.state, [journal EXCEPT !.intent = Pre])
             /\ Goto(p, "preRename") /\ UNCHANGED <<authLock, loc>>
    <3>1. Row(journal.state, Pre, journal.accts)
      <4>1. /\ journal \in Journals /\ journal.state \in States
            /\ journal' = [[journal EXCEPT !.intent = "pre-commit-rollback"] EXCEPT !.state = journal.state]
        BY <2>2, RowFields DEF Journal, DataOK, Pre
      <4> QED BY ONLY <4>1 DEF Row, Journals, Pre
    <3> QED BY <1>g, <1>n, <2>u, <2>2, <3>1 DEF Row, In, AtInv, StageInv, CommitInv, RollbackInv, PreInv
  <2> QED BY <1>28, <2>1, <2>2 DEF preCommitIntent, Pre
<1>29. CASE preCommitRename(p)
  BY <1>29, <1>g, <1>f, <1>n, <1>r DEF preCommitRename, AtInv, StageInv, CommitInv, RollbackInv, PreInv, In
<1>30. CASE deleteStagedKeychain(p)
  BY <1>30, <1>g, <1>f, <1>n, <1>r DEF deleteStagedKeychain, AtInv, StageInv, CommitInv, RollbackInv, PreInv, In
<1>31. CASE preCommitPutBack(p)
  BY <1>31, <1>g, <1>f, <1>n, <1>r DEF preCommitPutBack, AtInv, StageInv, CommitInv, RollbackInv, PreInv, In
<1>32. CASE preCommitUnlink(p)
  BY <1>32, <1>g, <1>f, <1>n, <1>r DEF preCommitUnlink, AtInv, StageInv, CommitInv, RollbackInv, PreInv, In
<1>33. CASE preCommitNative(p)
  BY <1>33, <1>g, <1>f, <1>n, <1>r, JournalSteps DEF preCommitNative, AtInv, StageInv, CommitInv, RollbackInv, PreInv, In, Row
<1>34. CASE stageKeyFails(p)
  BY <1>34, <1>g, <1>f, <1>n, <1>r DEF stageKeyFails, AtInv, StageInv, CommitInv, RollbackInv, PreInv, In
<1>35. CASE deleteStagedKeychainFails(p)
  BY <1>35, <1>g, <1>f, <1>n, <1>r DEF deleteStagedKeychainFails, AtInv, StageInv, CommitInv, RollbackInv, PreInv, In
<1>36. CASE crash(p)
  BY <1>36, <1>g, <1>f, <1>n, <1>r DEF crash, AtInv, StageInv, CommitInv, RollbackInv, PreInv, In
<1> QED BY <1>1, <1>2, <1>3, <1>4, <1>5, <1>6, <1>7, <1>8, <1>9, <1>10, <1>11, <1>12, <1>13, <1>13a, <1>14, <1>15, <1>16, <1>17, <1>18, <1>19, <1>20, <1>21, <1>22, <1>23, <1>24, <1>25, <1>26, <1>27, <1>28, <1>29, <1>30, <1>31, <1>32, <1>33, <1>34, <1>35, <1>36 DEF Step, Fault

\* The rest of the machine leaves every command what it relies on: a login waits for
\* the auth.json lock, a refresh or an edit of the pool file never removes the file, and
\* QLB's own refresh needs an owned row and replaces an item without deleting it.
LEMMA EnvInv ==
  ASSUME DataOK, LocOK, PcOK, Safe, \A q \in Procs : AtInv(q),
         lockStale \/ Pi \/ \E a \in Accounts : qlbRefresh(a)
  PROVE  Safe' /\ \A q \in Procs : AtInv(q)'
<1> USE DEF Safe, RowInv, NeverNeither, LoginInv, LoginKept, PlaceholderOwned, Keyed, Tested, Owned,
            HasPlaceholder, StagingValid
<1>p. \A f : f \in Pools => f # None
  BY NoneAssumption
<1>1. CASE lockStale
  BY <1>1 DEF lockStale, AtInv, StageInv, CommitInv, RollbackInv, PreInv, In
<1>2. ASSUME UNCHANGED <<journal, keychain, staging, aside, claims, retired, auth, backup, authLock, pc, loc,
                         login, rehearsed>>, pool' # None
      PROVE  Safe' /\ \A q \in Procs : AtInv(q)'
  BY <1>2 DEF AtInv, StageInv, CommitInv, RollbackInv, PreInv, In
<1>3. ASSUME NEW a \in Accounts, piRefresh(a) PROVE pool' # None
  <2>1. PICK m \in Pools : pool' = [m EXCEPT ![a] = @ + 1] /\ m[a] = issued[a] /\ issued[a] < MaxTokens
    BY <1>3 DEF piRefresh, DataOK
  <2>2. m[a] + 1 \in Tokens
    BY <2>1, BoundsAssumption DEF DataOK, Pools, Tokens
  <2>3. pool' \in Pools
    BY <2>1, <2>2 DEF Pools
  <2> QED BY <1>p, <2>3
<1>4. ASSUME NEW a \in Accounts, piAddAccount(a) PROVE pool' # None
  <2>1. issued[a] + 1 \in Tokens /\ pool \in Pools
    BY <1>4, BoundsAssumption DEF piAddAccount, DataOK, Pools, Tokens
  <2>2. pool' \in Pools
    BY <1>4, <2>1 DEF piAddAccount, Pools
  <2> QED BY <1>p, <2>2
<1>5. ASSUME NEW a \in Accounts, piRemoveAccount(a) PROVE pool' # None
  <2>1. 0 \in Tokens /\ pool \in Pools
    BY <1>5, BoundsAssumption DEF piRemoveAccount, DataOK, Tokens
  <2>2. pool' \in Pools
    BY <1>5, <2>1 DEF piRemoveAccount, Pools
  <2> QED BY <1>p, <2>2
<1>6. CASE piLogin
  <2>1. login \in Nat /\ login + 1 # Placeholder /\ auth' = login + 1 /\ login' = login + 1
    BY <1>6, PlaceholderAssumption, BoundsAssumption DEF piLogin, DataOK, Entries
  <2>2. UNCHANGED <<journal, keychain, staging, aside, claims, pool, retired, backup, pc, loc, rehearsed>>
    BY <1>6 DEF piLogin
  <2>3. backup # None => backup.entry \in Nat
    BY BoundsAssumption DEF DataOK, Backups, Entries
  <2>4. Safe'
    BY <2>1, <2>2, <2>3 DEF In
  <2>5. ASSUME NEW q \in Procs PROVE AtInv(q)'
    <3>1. authLock # q
      BY <1>6, ProcsAssumption DEF piLogin
    <3>2. pc[q] \notin {"owner", "unlinkV1", "placeholder"}
      BY <3>1, WhoLocks DEF Locked, Unlocked
    <3> QED BY <2>1, <2>2, <3>2 DEF AtInv, StageInv, CommitInv, RollbackInv, PreInv, In
  <2> QED BY <2>4, <2>5
<1>7. ASSUME NEW a \in Accounts, qlbRefresh(a) PROVE Safe' /\ \A q \in Procs : AtInv(q)'
  <2>1. /\ UNCHANGED <<journal, files, authLock, pc, loc, login, rehearsed, cycles, faults>>
        /\ journal.state = "QLB_OWNED"
    BY <1>7 DEF qlbRefresh
  <2>2. \A b \in Accounts : keychain[b] # 0 => keychain'[b] # 0
    BY <1>7, BoundsAssumption DEF qlbRefresh, DataOK, Pools, Tokens
  <2>3. journal.accts \subseteq In(keychain) => journal'.accts \subseteq In(keychain')
    BY <2>1, <2>2 DEF In
  <2>4. Safe'
    BY <2>1, <2>3
  <2>5. ASSUME NEW q \in Procs PROVE AtInv(q)'
    BY <2>1, <2>3 DEF AtInv, StageInv, CommitInv, RollbackInv, PreInv
  <2> QED BY <2>4, <2>5
<1>8. ASSUME NEW a \in Accounts, piRefresh(a) \/ piAddAccount(a) \/ piRemoveAccount(a)
      PROVE  Safe' /\ \A q \in Procs : AtInv(q)'
  BY <1>2, <1>3, <1>4, <1>5, <1>8 DEF piRefresh, piAddAccount, piRemoveAccount
<1> QED BY <1>1, <1>6, <1>7, <1>8 DEF Pi

\* The first states.
LEMMA InvInit == Init => Safe /\ \A p \in Procs : AtInv(p)
<1> SUFFICES ASSUME Init PROVE Safe /\ \A p \in Procs : AtInv(p)
  OBVIOUS
<1>1. \A p \in Procs : pc[p] = "idle"
  BY DEF Init
<1>2. \A p \in Procs : AtInv(p)
  BY <1>1 DEF AtInv, StageInv, CommitInv, RollbackInv, PreInv
<1>3. PICK S \in (SUBSET Accounts) \ {{}} :
        LET f == [a \in Accounts |-> IF a \in S THEN 1 ELSE 0]
            J(st, accts) == [state |-> st, intent |-> None, accts |-> accts, cycle |-> 0, pub |-> FALSE]
        IN  /\ issued = f
            /\ \/ /\ journal = J("NATIVE", {}) /\ keychain = NoGrants
                  /\ pool = f /\ retired = None /\ legacy = FALSE
               \/ /\ journal = J("QLB_OWNED", S) /\ keychain = f
                  /\ pool = None /\ retired = f /\ legacy = TRUE
  BY DEF Init
<1>4. journal.intent = None /\ journal.state # "VALIDATED" /\ (~Owned => pool # None)
  <2>1. issued # None
    BY TypeInit, TypeParts, NoneAssumption DEF DataOK
  <2> QED BY <1>3, <2>1 DEF Owned
<1>5. Owned <=> journal.state = "QLB_OWNED"
  BY <1>3 DEF Init, Owned
<1>6. Owned => Keyed
  BY <1>3 DEF Init, Owned, Keyed, In
<1>7. login \in Nat /\ login # Placeholder
  BY PlaceholderAssumption DEF Init
<1>8. aside = None /\ backup = None /\ auth = login
  BY DEF Init
<1>9. None # Pre
  BY NoneAssumption DEF Pre
<1> QED BY <1>2, <1>4, <1>5, <1>6, <1>7, <1>8, <1>9
        DEF Safe, RowInv, NeverNeither, LoginInv, LoginKept, PlaceholderOwned, HasPlaceholder, Keyed

\* One terminal's migration keeps the invariant.
LEMMA InvStep ==
  ASSUME OneTerminal, TypeOK, Safe, \A p \in Procs : AtInv(p), [Next]_vars
  PROVE  Safe' /\ \A p \in Procs : AtInv(p)'
<1>t. DataOK /\ LocOK /\ PcOK
  BY TypeParts
<1>1. CASE UNCHANGED vars
  <2>1. Safe'
    BY <1>1 DEF Safe, RowInv, NeverNeither, LoginInv, LoginKept, PlaceholderOwned, Keyed, Tested, Owned,
                HasPlaceholder, StagingValid, In
  <2>2. ASSUME NEW p \in Procs PROVE AtInv(p)'
    BY <1>1 DEF AtInv, StageInv, CommitInv, RollbackInv, PreInv, Keyed, Tested, Owned, HasPlaceholder, In
  <2> QED BY <2>1, <2>2
<1>2. ASSUME NEW p \in Procs, Command(p) \/ Step(p) \/ Fault(p)
      PROVE  Safe' /\ \A q \in Procs : AtInv(q)'
  <2>1. Safe' /\ AtInv(p)'
    BY <1>t, <1>2, CommandInv, StepInv
  <2> QED BY <2>1 DEF OneTerminal
<1> QED BY <1>t, <1>1, <1>2, EnvInv DEF Next

\* Only the commit's write of the owner map makes a claim appear, and it stands for
\* rehearsed items.
LEMMA ClaimsAreRehearsed ==
  ASSUME DataOK, Safe, \A p \in Procs : AtInv(p), [Next]_vars, ~Owned, Owned'
  PROVE  Tested
<1> SUFFICES \E p \in Procs : writeOwner(p)
  BY DEF writeOwner, AtInv, CommitInv
<1>1. ~legacy /\ ~v2 /\ (legacy' \/ v2')
  BY DEF Owned
<1>2. ~ UNCHANGED <<legacy, v2>>
  BY <1>1
<1>3. ASSUME NEW p \in Procs, Command(p) PROVE FALSE
  BY <1>2, <1>3 DEF Command, stage, rehearse, rollback, commit, resume
<1>4. ASSUME NEW p \in Procs, Fault(p) PROVE FALSE
  BY <1>2, <1>4 DEF Fault, stageKeyFails, deleteStagedKeychainFails, crash
<1>5. ASSUME lockStale \/ Pi \/ \E a \in Accounts : qlbRefresh(a) PROVE FALSE
  BY <1>2, <1>5 DEF lockStale, Pi, piLogin, piRefresh, piAddAccount, piRemoveAccount, qlbRefresh
<1>6. ASSUME NEW p \in Procs, Step(p) PROVE writeOwner(p)
  BY <1>1, <1>2, <1>6
     DEF Step, stageJournal, stageKey, stageFile, rehearseAccount, rehearseDone, commitLock, publish, retireDual,
         writePoolAnthropicBackupOnce, ensureAuthBackupCycle, unlinkLegacyDocument,
         writePoolAnthropicPlaceholder, releaseAuthLock, unlinkStaging, journalOwned, renameNative, rollbackLock, rollbackIntent,
         restoreNative, reconcileLock, restorePoolAnthropicAuthIfPlaceholder, removeLegacyOwner, removeOwnerEntry,
         removeBackup, removeStaging, removeRetired, journalRolledBack, preCommitIntent, preCommitRename,
         deleteStagedKeychain, preCommitPutBack, preCommitUnlink, preCommitNative
<1>7. ~ UNCHANGED vars
  BY <1>2
<1> QED BY <1>3, <1>4, <1>5, <1>6, <1>7 DEF Next

\* Types and the invariant together.
IInv == TypeOK /\ Safe /\ \A p \in Procs : AtInv(p)

\* One terminal's migration keeps the types and the invariant.
LEMMA InvKept == OneTerminal /\ IInv /\ [Next]_vars => IInv'
  BY TypeStep, InvStep DEF IInv

\* With one terminal, whatever dies in between and whatever Pi does meanwhile: every
\* point resolves to "native works" or "QLB works", Pi is never left with QLB's
\* placeholder and nobody to serve it, and its last login is never lost.
THEOREM PoolRecoverableHolds == OneTerminal => (Spec => []PoolRecoverable)
<1> SUFFICES ASSUME OneTerminal PROVE Spec => []PoolRecoverable
  OBVIOUS
<1>1. Init => IInv
  BY TypeInit, InvInit DEF IInv
<1>2. IInv /\ [Next]_vars => IInv'
  BY InvKept
<1>3. IInv => PoolRecoverable
  BY DEF IInv, Safe, LoginInv, PoolRecoverable
<1> QED BY <1>1, <1>2, <1>3, PTL DEF Spec

\* With one terminal, a claim appears only over items that a rehearsal accepted.
THEOREM RehearsedBeforeOwnedHolds == OneTerminal => (Spec => RehearsedBeforeOwned)
<1> SUFFICES ASSUME OneTerminal PROVE Spec => RehearsedBeforeOwned
  OBVIOUS
<1>1. Init => IInv
  BY TypeInit, InvInit DEF IInv
<1>2. IInv /\ [Next]_vars => IInv'
  BY InvKept
<1>3. IInv /\ [Next]_vars => [~Owned /\ Owned' => \A a \in journal.accts : <<a, keychain[a]>> \in rehearsed]_vars
  BY TypeParts, ClaimsAreRehearsed DEF IInv, Tested
<1> QED BY <1>1, <1>2, <1>3, PTL DEF Spec, RehearsedBeforeOwned
=============================================================================
