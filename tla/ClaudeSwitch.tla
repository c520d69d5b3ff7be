---------------------------- MODULE ClaudeSwitch ----------------------------
(***************************************************************************)
(* The Claude account switch and its crash recovery (src/cc-switch.ts,     *)
(* src/cc-switch-journal.ts, src/journal.ts, src/cc-classify.ts and        *)
(* commitClaudeSwitch of src/store.ts).                                    *)
(*                                                                         *)
(* A switch moves three things that no transaction spans: the live         *)
(* Keychain credential, oauthAccount in Claude Code's config file, and     *)
(* active_login in SQLite.  A journal file written ahead of every effect   *)
(* and a staged copy of the outgoing credential let a later process undo   *)
(* (daemon, operator) or finish (operator) what a dead one began.          *)
(*                                                                         *)
(* The switch, credential and owner locks are always taken together and    *)
(* are one lock here; Claude Code itself takes the credential and config   *)
(* locks before it writes.  A dead holder's lock blocks until it is stale. *)
(***************************************************************************)
EXTENDS Naturals, FiniteSets

CONSTANTS
    Accounts,      \* accounts with a slot
    Alien,         \* an account QLB does not manage
    Switchers,     \* processes that run switchClaude once
    Daemons,       \* processes that run reconcileClaudeSwitch on every tick
    Operators,     \* processes that run resolveClaudeSwitchJournal once
    LoginAccounts, \* accounts the user may log in to with Claude Code itself
    MaxIssued,     \* bound: credentials issued while we watch
    MaxSettings,   \* bound: unrelated edits of the config file
    MaxFaults,     \* bound: effects that throw
    None, Dead     \* nobody; a lock directory whose holder died

Procs == Switchers \cup Daemons \cup Operators
People == Accounts \cup {Alien}

ASSUME AccountsAssumption == Accounts # {} /\ Alien \notin Accounts /\ None \notin People
ASSUME ProcsAssumption ==
    /\ {None, Dead} \cap Procs = {} /\ None # Dead
    /\ Switchers \cap Daemons = {} /\ Switchers \cap Operators = {} /\ Daemons \cap Operators = {}
ASSUME LoginAssumption == LoginAccounts \subseteq People
ASSUME BoundsAssumption == {MaxIssued, MaxSettings, MaxFaults} \subseteq Nat

VARIABLES
    live,        \* the Keychain item Claude Code reads
    config,      \* Claude Code's config file: oauthAccount and all the rest
    active,      \* active_login('anthropic')
    slot, prev,  \* the slot item of each account, and its ':prev' item
    stash,       \* unclaimed stash: credentials no slot may hold
    staged,      \* the staged rollback copy of each attempt
    journal,     \* the switch journal file
    committed,   \* attempts with an 'ok' row in switches
    lock,        \* switch, credential and owner lock
    configLock,  \* the config path lock
    pc, loc,     \* control state and local variables of each process
    newest,      \* provider: the last credential issued for each account
    misadopted,  \* history: an unresolved credential went into another account's slot
    gone,        \* credentials that others than QLB's storage steps discarded
    issued, settings, faults  \* how much of each bound is used

disk  == <<live, config, active, slot, prev, stash, staged, journal, committed>>
locks == <<lock, configLock>>
env   == <<newest, gone, issued, settings, misadopted>>
vars  == <<disk, locks, pc, loc, env, faults>>

\* A credential: its account, its refresh-token lineage and its number.  Fields
\* shared by the machine are carried over by every write and left out.
Creds == [acct : People, fam : Nat, n : Nat]
Wiped == [acct |-> None, fam |-> 0, n |-> 0]
Blobs == Creds \cup {Wiped}
First(a) == [acct |-> a, fam |-> 0, n |-> 0]
Configs == [oauth : People \cup {None}, rev : Nat]

sameCredentialLineage(c, d) == c.acct = d.acct /\ c.fam = d.fam

\* What a rollback goes by: rollbackJournal in memory, and part of the file.
Undos  == [credsStarted : BOOLEAN, cfgStarted : BOOLEAN, cfgText : Configs, cfgHash : Configs]
NoConfig == [oauth |-> None, rev |-> 0]
NoUndo == [credsStarted |-> FALSE, cfgStarted |-> FALSE, cfgText |-> NoConfig, cfgHash |-> NoConfig]

Journals ==
    [attempt : Switchers, from : Accounts, to : Accounts, republish : BOOLEAN, undo : Undos,
     credsHash : Blobs \cup {None}, credsWritten : BOOLEAN,
     closed : {"open", "rolled-back", "stage-failed"}, committed : BOOLEAN]
\* None stands for what is absent: no credential, no journal.
ASSUME NoneAssumption == None \notin Blobs \cup Journals

Prepared == [active : Accounts, live : Blobs, resolved : People \cup {None},
             slots : [Accounts -> Blobs], freshened : BOOLEAN, pre : Blobs]
NoPrep == [active |-> CHOOSE a \in Accounts : TRUE, live |-> Wiped, resolved |-> None,
           slots |-> [a \in Accounts |-> Wiped], freshened |-> FALSE, pre |-> Wiped]
Locals == [to : Accounts, republish : BOOLEAN, retried : BOOLEAN, verdict : BOOLEAN, prep : Prepared,
           from : Accounts, out : Blobs, tgt : Blobs, undo : Undos, failed : BOOLEAN, forward : BOOLEAN]
NoLocals == [to |-> NoPrep.active, republish |-> FALSE, retried |-> FALSE, verdict |-> TRUE,
             prep |-> NoPrep, from |-> NoPrep.active, out |-> Wiped, tgt |-> Wiped, undo |-> NoUndo,
             failed |-> FALSE, forward |-> FALSE]

LockFree == {"idle", "start", "prepare", "freshen", "persist", "lock", "done", "crashed"}
Locked   == {"step4", "unstage4", "remove4", "step5", "step6", "stage", "stagefail", "intent7",
             "write7", "mark7", "intent8", "write8", "commit9", "committed", "rollback", "rbConfig",
             "rbLive", "close", "unstage", "remove", "recheck", "recLive", "recConfig",
             "backConfig", "backLive", "fwdConfig", "fwdWrite", "fwdCommit"}

TypeOK ==
    /\ live \in Blobs /\ config \in Configs /\ active \in Accounts
    /\ slot \in [Accounts -> Blobs] /\ prev \in [Accounts -> Blobs]
    /\ stash \subseteq Blobs
    /\ staged \in [Switchers -> Blobs \cup {None}]
    /\ journal \in Journals \cup {None}
    /\ committed \subseteq Switchers
    /\ lock \in Procs \cup {None, Dead} /\ configLock \in Procs \cup {None, Dead}
    /\ pc \in [Procs -> LockFree \cup Locked]
    /\ loc \in [Procs -> Locals]
    /\ misadopted \in BOOLEAN
    /\ newest \in [People -> Creds] /\ gone \subseteq Blobs
    /\ issued \in 0 .. MaxIssued /\ settings \in 0 .. MaxSettings /\ faults \in 0 .. MaxFaults

Init ==
    /\ active \in Accounts
    /\ live = First(active)
    /\ config = [oauth |-> active, rev |-> 0]
    /\ slot = [a \in Accounts |-> First(a)]
    /\ prev = [a \in Accounts |-> Wiped]
    /\ stash = {}
    /\ staged = [s \in Switchers |-> None]
    /\ journal = None
    /\ committed = {}
    /\ lock = None /\ configLock = None
    /\ pc = [p \in Procs |-> IF p \in Switchers THEN "start" ELSE "idle"]
    /\ loc = [p \in Procs |-> NoLocals]
    /\ newest = [a \in People |-> First(a)]
    /\ gone = {First(Alien)}
    /\ misadopted = FALSE
    /\ issued = 0 /\ settings = 0 /\ faults = 0

-----------------------------------------------------------------------------
Goto(p, label) == pc' = [pc EXCEPT ![p] = label]
Set(p, l) == loc' = [loc EXCEPT ![p] = l]

\* The process leaves the locked section, or returns without having entered it.
Finish(p) ==
    /\ Goto(p, IF p \in Daemons THEN "idle" ELSE "done")
    /\ lock' = IF lock = p THEN None ELSE lock
    /\ Set(p, NoLocals)

\* An effect (a Keychain write, a journal rename with its fsync, a config write)
\* that takes place, or one that throws, having taken place or not.
Effect(p, next, error, Done, NotDone) ==
    \/ Done /\ Goto(p, next) /\ UNCHANGED faults
    \/ /\ faults < MaxFaults /\ faults' = faults + 1
       /\ Done \/ NotDone
       /\ Goto(p, error)

\* An effect whose failure ends the call with its locks released.
LastEffect(p, next, Done, NotDone) ==
    \/ Done /\ Goto(p, next) /\ UNCHANGED <<loc, lock, faults>>
    \/ /\ faults < MaxFaults /\ faults' = faults + 1
       /\ Done \/ NotDone
       /\ Finish(p)

\* Mutant: the switches table is not asked.
finishedByFile(j) == j.committed \/ j.closed # "open"

\* A journal whose switch is over: marked so in the file, or committed in SQLite.
finished(j) == j.committed \/ j.closed # "open" \/ j.attempt \in committed
Unfinished == journal # None /\ (journal # None => ~finished(journal))

\* The journal's owner by pid and start time.  A process whose call returned
\* ("done") may live on, like the daemon; crash is also its exit.
ownerIsLive == pc[journal.attempt] # "crashed"

\* writeSlot: what the slot item held moves to the ':prev' item.
writeSlot(a, c) ==
    /\ slot' = [slot EXCEPT ![a] = c]
    /\ prev' = IF slot[a] = c THEN prev ELSE [prev EXCEPT ![a] = slot[a]]

Issue(a, c) == /\ issued < MaxIssued /\ issued' = issued + 1
               /\ newest' = [newest EXCEPT ![a] = c]
Rotated(c) == [c EXCEPT !.fam = @ + 1, !.n = @ + 1]

-----------------------------------------------------------------------------
\* Phase A of a switch, without locks

\* The journal is looked at before anything else; the request is then fixed.
start(p) ==
    /\ pc[p] = "start"
    /\ ~(Unfinished /\ lock = None /\ ~ownerIsLive)
    /\ \E to \in Accounts, republish \in BOOLEAN, verdict \in BOOLEAN :
        /\ loc[p].retried => to = loc[p].to /\ republish = loc[p].republish /\ verdict = loc[p].verdict
        /\ republish => to = active
        /\ ~loc[p].retried /\ ~verdict => live.acct # active
        /\ Set(p, [loc[p] EXCEPT !.to = to, !.republish = republish, !.verdict = verdict])
    /\ Goto(p, "prepare")
    /\ UNCHANGED <<disk, locks, env, faults>>

\* prefetchLiveIdentity: the profile endpoint is asked only about bytes the
\* outgoing slot does not account for, and may fail or answer in part.
prefetchLiveIdentity ==
    IF sameCredentialLineage(slot[active], live) \/ live = Wiped THEN {None} ELSE {live.acct, None}

prepareClaudeSwitch(p) ==
    /\ pc[p] = "prepare"
    /\ \E who \in prefetchLiveIdentity :
        Set(p, [loc[p] EXCEPT !.prep = [active |-> active, live |-> live, resolved |-> who,
                                        slots |-> slot, freshened |-> FALSE, pre |-> slot[loc[p].to]]])
    /\ \/ Goto(p, "lock")
       \/ ~loc[p].republish /\ active # loc[p].to /\ Goto(p, "freshen")
    /\ UNCHANGED <<disk, locks, env, faults>>

\* consumeClaudeSlot, the POST: the provider rotates the target's grant.
postRefresh(p) ==
    /\ pc[p] = "freshen"
    /\ LET a == loc[p].to IN
        /\ sameCredentialLineage(slot[a], newest[a])
        /\ Issue(a, Rotated(newest[a]))
        /\ Set(p, [loc[p] EXCEPT !.tgt = Rotated(newest[a]), !.prep.slots[a] = slot[a]])
    /\ Goto(p, "persist")
    /\ UNCHANGED <<disk, locks, gone, settings, misadopted, faults>>

\* consumeClaudeSlot, nothing to spend: another process refreshed the slot first.
alreadyFresh(p) ==
    /\ pc[p] = "freshen"
    /\ slot[loc[p].to] # loc[p].prep.slots[loc[p].to]
    /\ Set(p, [loc[p] EXCEPT !.prep.slots[loc[p].to] = slot[loc[p].to]])
    /\ Goto(p, "lock")
    /\ UNCHANGED <<disk, locks, env, faults>>

\* consumeClaudeSlot under the switch lock: compare-and-swap on the slot, or
\* stash; without the lock, stash and refuse.
persistRefresh(p) ==
    /\ pc[p] = "persist"
    /\ LET a == loc[p].to
           spent == loc[p].prep.slots[a]
       IN \/ /\ lock = None
             /\ \/ sameCredentialLineage(slot[a], spent) /\ writeSlot(a, loc[p].tgt) /\ UNCHANGED stash
                \/ /\ ~sameCredentialLineage(slot[a], spent)
                   /\ stash' = stash \cup {loc[p].tgt} /\ UNCHANGED <<slot, prev>>
             /\ Set(p, [loc[p] EXCEPT !.prep.slots[a] = slot'[a], !.prep.freshened = TRUE, !.tgt = Wiped])
             /\ Goto(p, "lock")
             /\ UNCHANGED lock
          \/ /\ lock # None
             /\ stash' = stash \cup {loc[p].tgt}
             /\ Finish(p)
             /\ UNCHANGED <<slot, prev>>
    /\ UNCHANGED <<live, config, active, staged, journal, committed, configLock, env, faults>>

\* Refusals that change nothing: a journal left by a dead owner, admission, an
\* unreadable input, a freshen that failed, a lock not had in time.
refuse(p) ==
    /\ p \in Switchers
    /\ \/ pc[p] \in {"start", "prepare", "freshen"}
       \/ pc[p] = "lock" /\ lock # None
    /\ Finish(p)
    /\ UNCHANGED <<disk, configLock, env, faults>>

acquire(p) ==
    /\ pc[p] = "lock"
    /\ lock = None
    /\ lock' = p
    /\ Goto(p, IF p \in Switchers THEN "step4" ELSE "recheck")
    /\ UNCHANGED <<disk, configLock, loc, env, faults>>

-----------------------------------------------------------------------------
\* Phase B: steps 4 to 9

\* classifyOutgoingCredential
Kind(p, outgoing) ==
    LET prep == loc[p].prep
        out == outgoing.live
    IN IF slot[outgoing.acct] = out THEN "own-bytes"
       ELSE IF out # Wiped /\ sameCredentialLineage(slot[outgoing.acct], out) THEN "own-family"
       ELSE IF out = Wiped THEN "wiped"
       ELSE IF prep.resolved = None \/ prep.live # out
            THEN IF loc[p].verdict THEN "unresolved" ELSE "known-foreign"
       ELSE IF prep.resolved = outgoing.acct THEN "own-rotated"
       ELSE IF prep.resolved \notin Accounts THEN "alien"
       ELSE IF sameCredentialLineage(prep.slots[prep.resolved], out) THEN "foreign-synced"
       ELSE "foreign"

\* Phase A is void: the active login moved to or from the target meanwhile.
PhaseAStale(p) ==
    /\ loc[p].prep.active # active
    /\ ~(loc[p].prep.freshened /\ active = loc[p].to)

\* Self-target: the live head is the predecessor of the slot head this run made.
PublishesSlotHead(p) ==
    /\ loc[p].prep.freshened
    /\ loc[p].prep.pre = live
    /\ slot[loc[p].to] # live

\* Step 4: everything mutable is read again under the locks.
step4(p) ==
    /\ pc[p] = "step4"
    /\ \/ /\ Unfinished /\ Finish(p)
       \/ /\ journal # None /\ ~Unfinished
          /\ Goto(p, "unstage4") /\ UNCHANGED <<loc, lock>>
       \/ /\ journal = None
          /\ PhaseAStale(p)
          /\ loc[p].retried
          /\ Finish(p)
       \/ /\ journal = None
          /\ PhaseAStale(p)
          /\ ~loc[p].retried /\ loc[p].to \in {loc[p].prep.active, active}
          /\ lock' = None
          /\ Goto(p, "start")
          /\ Set(p, [NoLocals EXCEPT !.to = loc[p].to, !.republish = loc[p].republish,
                                     !.verdict = loc[p].verdict, !.retried = TRUE])
       \/ /\ journal = None
          /\ PhaseAStale(p) => ~loc[p].retried /\ loc[p].to \notin {loc[p].prep.active, active}
          /\ \/ Finish(p)  \* lockedCheck, an unreadable live item, the self-target's noop
             \/ /\ loc[p].republish \/ active # loc[p].to \/ PublishesSlotHead(p)
                /\ loc[p].republish => active = loc[p].to
                /\ Set(p, [loc[p] EXCEPT !.from = active, !.out = live,
                                         !.republish = @ \/ active = loc[p].to])
                /\ Goto(p, "step5")
                /\ UNCHANGED lock
    /\ UNCHANGED <<disk, configLock, env, faults>>

\* The self-target of a run that freshened counts as own bytes.
OutgoingKind(p) ==
    IF loc[p].republish /\ loc[p].prep.freshened THEN "own-bytes"
    ELSE Kind(p, [acct |-> loc[p].from, live |-> loc[p].out])

\* Step 5: the outgoing credential is put where it can be found again.
step5(p) ==
    /\ pc[p] = "step5"
    /\ LET kind == OutgoingKind(p)
           out == loc[p].out
       IN \/ Finish(p) /\ UNCHANGED <<slot, prev, stash, misadopted>>  \* republish-live-not-own, or a failed backup
          \/ /\ loc[p].republish => kind \in {"own-bytes", "own-family", "own-rotated"}
             /\ \/ /\ kind \in {"own-family", "own-rotated", "unresolved"}
                   /\ writeSlot(loc[p].from, out) /\ UNCHANGED stash
                \/ /\ \/ kind \in {"foreign", "alien", "known-foreign"}
                      \/ kind = "foreign-synced" /\ loc[p].prep.slots[out.acct] # out
                   /\ stash' = stash \cup {out} /\ UNCHANGED <<slot, prev>>
                \/ /\ \/ kind \in {"own-bytes", "wiped"}
                      \/ kind = "foreign-synced" /\ loc[p].prep.slots[out.acct] = out
                   /\ UNCHANGED <<slot, prev, stash>>
             /\ misadopted' = (misadopted \/ (kind = "unresolved" /\ out.acct # loc[p].from))
             /\ Goto(p, "step6")
             /\ UNCHANGED <<loc, lock>>
    /\ UNCHANGED <<live, config, active, staged, journal, committed, configLock,
                   newest, gone, issued, settings, faults>>

\* Step 6: the target is read, then the journal is created, never replaced.
step6(p) ==
    /\ pc[p] = "step6"
    /\ \/ Finish(p) /\ UNCHANGED journal  \* target-unreadable, target-invalid, journal present
       \/ /\ journal = None
          /\ slot[loc[p].to] # Wiped
          /\ Set(p, [loc[p] EXCEPT !.tgt = slot[loc[p].to]])
          /\ journal' = [attempt |-> p, from |-> loc[p].from, to |-> loc[p].to,
                         republish |-> loc[p].republish, undo |-> NoUndo, credsHash |-> None,
                         credsWritten |-> FALSE, closed |-> "open", committed |-> FALSE]
          /\ Goto(p, "stage")
          /\ UNCHANGED lock
    /\ UNCHANGED <<live, config, active, slot, prev, stash, staged, committed, configLock, env, faults>>

\* The outgoing bytes are copied before they are replaced.
writeStagedRollback(p) ==
    /\ pc[p] = "stage"
    /\ Effect(p, "intent7", "stagefail", staged' = [staged EXCEPT ![p] = loc[p].out], UNCHANGED staged)
    /\ UNCHANGED <<live, config, active, slot, prev, stash, journal, committed, locks, loc, env>>

stageFailed(p) ==
    /\ pc[p] = "stagefail"
    /\ LastEffect(p, "unstage", journal' = [journal EXCEPT !.closed = "stage-failed"], UNCHANGED journal)
    /\ UNCHANGED <<live, config, active, slot, prev, stash, staged, committed, configLock, env>>

\* Step 7: the hash of what will be written is durable before the write.
intent7(p) ==
    /\ pc[p] = "intent7"
    /\ Set(p, [loc[p] EXCEPT !.undo.credsStarted = TRUE])
    /\ Effect(p, "write7", "rollback",
              journal' = [journal EXCEPT !.undo.credsStarted = TRUE, !.credsHash = loc[p].tgt],
              UNCHANGED journal)
    /\ UNCHANGED <<live, config, active, slot, prev, stash, staged, committed, locks, env>>

write7(p) ==
    /\ pc[p] = "write7"
    /\ Effect(p, "mark7", "rollback", live' = loc[p].tgt, UNCHANGED live)
    /\ UNCHANGED <<config, active, slot, prev, stash, staged, journal, committed, locks, loc, env>>

mark7(p) ==
    /\ pc[p] = "mark7"
    /\ Effect(p, "intent8", "rollback", journal' = [journal EXCEPT !.credsWritten = TRUE], UNCHANGED journal)
    /\ UNCHANGED <<live, config, active, slot, prev, stash, staged, committed, locks, loc, env>>

\* Step 8: read, plan and journal under the config lock.
ConfigIntent(undo, to) ==
    [undo EXCEPT !.cfgStarted = TRUE, !.cfgText = config, !.cfgHash = [config EXCEPT !.oauth = to]]

intent8(p) ==
    /\ pc[p] = "intent8"
    /\ configLock = None
    /\ Set(p, [loc[p] EXCEPT !.undo = ConfigIntent(@, loc[p].to)])
    /\ Effect(p, "write8", "rollback",
              journal' = [journal EXCEPT !.undo = ConfigIntent(@, loc[p].to)], UNCHANGED journal)
    /\ configLock' = IF pc'[p] = "write8" THEN p ELSE None
    /\ UNCHANGED <<live, config, active, slot, prev, stash, staged, committed, lock, env>>

write8(p) ==
    /\ pc[p] = "write8"
    /\ Effect(p, "commit9", "rollback", config' = loc[p].undo.cfgHash, UNCHANGED config)
    /\ configLock' = None
    /\ UNCHANGED <<live, active, slot, prev, stash, staged, journal, committed, lock, loc, env>>

\* Step 9: commitClaudeSwitch, one SQLite transaction.
commitClaudeSwitch(j) ==
    /\ committed' = committed \cup {j.attempt}
    /\ active' = IF j.republish THEN active ELSE j.to

commit9(p) ==
    /\ pc[p] = "commit9"
    /\ \/ commitClaudeSwitch(journal) /\ Goto(p, "committed") /\ UNCHANGED faults
       \/ /\ faults < MaxFaults /\ faults' = faults + 1
          /\ UNCHANGED <<committed, active>> /\ Goto(p, "rollback")
    /\ UNCHANGED <<live, config, slot, prev, stash, staged, journal, locks, loc, env>>

\* The finished marker, then the staged copy, then the journal: each only after
\* the one before, and a failure leaves the rest to the next step 4.
markCommitted(p) ==
    /\ pc[p] = "committed"
    /\ LastEffect(p, "unstage", journal' = [journal EXCEPT !.committed = TRUE], UNCHANGED journal)
    /\ UNCHANGED <<live, config, active, slot, prev, stash, staged, committed, configLock, env>>

markClosed(p) ==
    /\ pc[p] = "close"
    /\ LastEffect(p, "unstage", journal' = [journal EXCEPT !.closed = "rolled-back"], UNCHANGED journal)
    /\ UNCHANGED <<live, config, active, slot, prev, stash, staged, committed, configLock, env>>

deleteStagedRollback(p) ==
    /\ pc[p] \in {"unstage", "unstage4"}
    /\ LastEffect(p, IF pc[p] = "unstage" THEN "remove" ELSE "remove4",
                  staged' = [staged EXCEPT ![journal.attempt] = None], UNCHANGED staged)
    /\ UNCHANGED <<live, config, active, slot, prev, stash, journal, committed, configLock, env>>

deleteClaudeSwitchJournal(p) ==
    /\ pc[p] \in {"remove", "remove4"}
    /\ \/ /\ journal' = None
          /\ IF pc[p] = "remove" THEN Finish(p) ELSE Goto(p, "step4") /\ UNCHANGED <<loc, lock>>
          /\ UNCHANGED faults
       \/ /\ faults < MaxFaults /\ faults' = faults + 1
          /\ UNCHANGED journal
          /\ Finish(p)
    /\ UNCHANGED <<live, config, active, slot, prev, stash, staged, committed, configLock, env>>

-----------------------------------------------------------------------------
\* rollbackClaudeSwitch, by the process that failed

\* The file is read again; when that fails, what the process remembers serves.
rollbackSource(p) ==
    /\ pc[p] = "rollback"
    /\ \/ Set(p, [loc[p] EXCEPT !.undo = journal.undo]) /\ UNCHANGED faults
       \/ faults < MaxFaults /\ faults' = faults + 1 /\ UNCHANGED loc
    /\ Goto(p, "rbConfig")
    /\ UNCHANGED <<disk, locks, env>>

\* restoreConfigFromJournal: put the text back if it is still the one written,
\* otherwise only the oauthAccount in whatever the file has become.
restoreConfigFromJournal(u) ==
    IF ~u.cfgStarted \/ config = u.cfgText THEN config
    ELSE IF config = u.cfgHash THEN u.cfgText
    ELSE [config EXCEPT !.oauth = u.cfgText.oauth]

rollbackConfig(p) ==
    /\ pc[p] = "rbConfig"
    /\ configLock = None
    /\ \/ /\ config' = restoreConfigFromJournal(loc[p].undo)
          /\ UNCHANGED <<loc, faults>>
       \/ /\ loc[p].undo.cfgStarted
          /\ faults < MaxFaults /\ faults' = faults + 1
          /\ Set(p, [loc[p] EXCEPT !.failed = TRUE])
          /\ UNCHANGED config
    /\ Goto(p, "rbLive")
    /\ UNCHANGED <<live, active, slot, prev, stash, staged, journal, committed, locks, env>>

\* The credential is restored whatever became of the config; both must have
\* worked for the journal to be closed.
rollbackLive(p) ==
    /\ pc[p] = "rbLive"
    /\ \/ /\ live' = IF loc[p].undo.credsStarted THEN loc[p].out ELSE live
          /\ IF loc[p].failed THEN Finish(p) ELSE Goto(p, "close") /\ UNCHANGED <<loc, lock>>
          /\ UNCHANGED faults
       \/ /\ loc[p].undo.credsStarted
          /\ faults < MaxFaults /\ faults' = faults + 1
          /\ Finish(p)
          /\ UNCHANGED live
    /\ UNCHANGED <<config, active, slot, prev, stash, staged, journal, committed, configLock, env>>

-----------------------------------------------------------------------------
\* Recovery by another process

\* What both recoveries look at first: an unfinished journal nobody is working on.
Orphan == Unfinished /\ (Unfinished => ~ownerIsLive)

beginRecovery(p) ==
    /\ pc[p] = "idle"
    /\ Orphan /\ lock = None
    /\ \E forward \in BOOLEAN :
        /\ p \in Daemons => ~forward
        /\ Set(p, [NoLocals EXCEPT !.forward = forward])
    /\ Goto(p, "lock")
    /\ UNCHANGED <<disk, locks, env, faults>>

giveUpRecovery(p) ==
    /\ p \notin Switchers
    /\ pc[p] = "lock" /\ lock # None
    /\ Finish(p)
    /\ UNCHANGED <<disk, configLock, env, faults>>

\* The same questions under the locks.
recheck(p) ==
    /\ pc[p] = "recheck"
    /\ \/ ~Orphan /\ Finish(p)
       \/ Orphan /\ p \in Daemons /\ Goto(p, "recLive") /\ UNCHANGED <<loc, lock>>
       \/ Orphan /\ p \in Operators /\ ~loc[p].forward /\ Goto(p, "backConfig") /\ UNCHANGED <<loc, lock>>
       \/ Orphan /\ p \in Operators /\ loc[p].forward /\ Goto(p, "fwdConfig") /\ UNCHANGED <<loc, lock>>
    /\ UNCHANGED <<disk, configLock, env, faults>>

StagedCopy == staged[journal.attempt]

\* Mutants: what is live is overwritten unseen; a write that never landed is
\* taken for one by Claude Code.
LiveNeverMoved == FALSE
LiveMovedUnlessWritten == live # journal.credsHash

\* restoreLiveFromStaged: only bytes the dead switch wrote are overwritten.
LiveMoved == live # StagedCopy /\ live # journal.credsHash

restoreLiveFromStaged(p) ==
    /\ pc[p] = "recLive"
    /\ \/ ~journal.undo.credsStarted /\ Goto(p, "recConfig") /\ UNCHANGED <<live, loc, lock, faults>>
       \/ /\ journal.undo.credsStarted /\ (StagedCopy = None \/ LiveMoved)
          /\ Finish(p) /\ UNCHANGED <<live, faults>>
       \/ /\ journal.undo.credsStarted /\ StagedCopy # None /\ ~LiveMoved
          /\ LastEffect(p, "recConfig", live' = StagedCopy, UNCHANGED live)
    /\ UNCHANGED <<config, active, slot, prev, stash, staged, journal, committed, configLock, env>>

reconcileConfig(p) ==
    /\ pc[p] = "recConfig"
    /\ configLock = None
    /\ LastEffect(p, "close", config' = restoreConfigFromJournal(journal.undo), UNCHANGED config)
    /\ UNCHANGED <<live, active, slot, prev, stash, staged, journal, committed, configLock, env>>

\* resolve --back also accepts a live credential of the outgoing slot's lineage.
BackAdmits ==
    \/ ~journal.undo.credsStarted
    \/ /\ StagedCopy # None
       /\ \/ ~LiveMoved
          \/ sameCredentialLineage(live, slot[journal.from])
          \/ sameCredentialLineage(live, prev[journal.from])

resolveBackConfig(p) ==
    /\ pc[p] = "backConfig"
    /\ \/ ~BackAdmits /\ Finish(p) /\ UNCHANGED <<config, faults>>
       \/ /\ BackAdmits
          /\ configLock = None
          /\ LastEffect(p, "backLive", config' = restoreConfigFromJournal(journal.undo), UNCHANGED config)
    /\ UNCHANGED <<live, active, slot, prev, stash, staged, journal, committed, configLock, env>>

resolveBackLive(p) ==
    /\ pc[p] = "backLive"
    /\ LastEffect(p, "close",
                  live' = IF journal.undo.credsStarted /\ live = journal.credsHash THEN StagedCopy ELSE live,
                  UNCHANGED live)
    /\ UNCHANGED <<config, active, slot, prev, stash, staged, journal, committed, configLock, env>>

\* resolve --forward: only from a live credential that is still the target's.
ForwardAdmits ==
    /\ journal.credsWritten
    /\ live = slot[journal.to]
    /\ journal.undo.cfgStarted => config \in {journal.undo.cfgHash, journal.undo.cfgText}

resolveForwardConfig(p) ==
    /\ pc[p] = "fwdConfig"
    /\ \/ ~ForwardAdmits /\ Finish(p) /\ UNCHANGED <<journal, configLock, faults>>
       \/ /\ ForwardAdmits
          /\ configLock = None
          /\ LastEffect(p, "fwdWrite",
                        journal' = IF journal.undo.cfgStarted THEN journal
                                   ELSE [journal EXCEPT !.undo = ConfigIntent(@, journal.to)],
                        UNCHANGED journal)
          /\ configLock' = IF pc'[p] = "fwdWrite" THEN p ELSE None
    /\ UNCHANGED <<live, config, active, slot, prev, stash, staged, committed, env>>

resolveForwardWrite(p) ==
    /\ pc[p] = "fwdWrite"
    /\ LastEffect(p, "fwdCommit", config' = journal.undo.cfgHash, UNCHANGED config)
    /\ configLock' = None
    /\ UNCHANGED <<live, active, slot, prev, stash, staged, journal, committed, env>>

resolveForwardCommit(p) ==
    /\ pc[p] = "fwdCommit"
    /\ \/ commitClaudeSwitch(journal) /\ Goto(p, "committed") /\ UNCHANGED <<loc, lock, faults>>
       \/ /\ faults < MaxFaults /\ faults' = faults + 1
          /\ UNCHANGED <<committed, active>> /\ Finish(p)
    /\ UNCHANGED <<live, config, slot, prev, stash, staged, journal, configLock, env>>

-----------------------------------------------------------------------------
\* The environment

\* A process dies where it stands; its lock directories stay.  A successor
\* credential it had not persisted yet dies with it.
crash(p) ==
    /\ pc[p] \notin {"idle", "crashed"}
    /\ \/ p \in Daemons /\ faults < MaxFaults /\ faults' = faults + 1 /\ Goto(p, "idle")
       \/ p \notin Daemons /\ Goto(p, "crashed") /\ UNCHANGED faults
    /\ lock' = IF lock = p THEN Dead ELSE lock
    /\ configLock' = IF configLock = p THEN Dead ELSE configLock
    /\ gone' = IF pc[p] = "persist" THEN gone \cup {loc[p].tgt} ELSE gone
    /\ Set(p, NoLocals)
    /\ UNCHANGED <<disk, newest, issued, settings, misadopted>>

\* removeIfStillStale takes a dead holder's directory away.
lockStale ==
    /\ Dead \in {lock, configLock}
    /\ lock' = IF lock = Dead THEN None ELSE lock
    /\ configLock' = IF configLock = Dead THEN None ELSE configLock
    /\ UNCHANGED <<disk, pc, loc, env, faults>>

\* External: Claude Code refreshes the token it uses, within its lineage or not.
ccRefresh ==
    /\ lock = None
    /\ live # Wiped
    /\ live = newest[live.acct]
    /\ \E c \in {[live EXCEPT !.n = @ + 1], Rotated(live)} : Issue(live.acct, c) /\ live' = c
    /\ UNCHANGED <<config, active, slot, prev, stash, staged, journal, committed,
                   locks, pc, loc, gone, settings, misadopted, faults>>

\* External: the user logs in to some account with Claude Code, or out.
ccLogin(a) ==
    /\ lock = None /\ configLock = None
    /\ Issue(a, Rotated(newest[a]))
    /\ live' = Rotated(newest[a])
    /\ gone' = gone \cup ({live} \ {Wiped})
    /\ config' = [oauth |-> a, rev |-> config.rev]
    /\ UNCHANGED <<active, slot, prev, stash, staged, journal, committed, locks, pc, loc, settings,
                   misadopted, faults>>

\* External: Claude Code edits an unrelated part of its config file.
ccSettings ==
    /\ configLock = None
    /\ settings < MaxSettings /\ settings' = settings + 1
    /\ config' = [config EXCEPT !.rev = @ + 1]
    /\ UNCHANGED <<live, active, slot, prev, stash, staged, journal, committed,
                   locks, pc, loc, newest, gone, issued, misadopted, faults>>

-----------------------------------------------------------------------------
SwitchStep(p) ==
    \/ start(p) \/ prepareClaudeSwitch(p) \/ postRefresh(p) \/ alreadyFresh(p) \/ persistRefresh(p) \/ refuse(p)
    \/ step4(p) \/ step5(p) \/ step6(p) \/ writeStagedRollback(p) \/ stageFailed(p)
    \/ intent7(p) \/ write7(p) \/ mark7(p) \/ intent8(p) \/ write8(p) \/ commit9(p)
    \/ rollbackSource(p) \/ rollbackConfig(p) \/ rollbackLive(p)

RecoveryStep(p) ==
    \/ beginRecovery(p) \/ giveUpRecovery(p) \/ recheck(p)
    \/ restoreLiveFromStaged(p) \/ reconcileConfig(p)
    \/ resolveBackConfig(p) \/ resolveBackLive(p)
    \/ resolveForwardConfig(p) \/ resolveForwardWrite(p) \/ resolveForwardCommit(p)

Step(p) ==
    \/ acquire(p)
    \/ p \in Switchers /\ SwitchStep(p)
    \/ p \notin Switchers /\ RecoveryStep(p)
    \/ markCommitted(p) \/ markClosed(p) \/ deleteStagedRollback(p) \/ deleteClaudeSwitchJournal(p)

Next ==
    \/ \E p \in Procs : Step(p) \/ crash(p)
    \/ lockStale \/ ccRefresh \/ ccSettings
    \/ \E a \in LoginAccounts : ccLogin(a)

Spec == Init /\ [][Next]_vars

\* Processes run, stale locks are broken; Claude Code need never write.
FairSpec == Spec /\ WF_vars(lockStale) /\ \A p \in Procs : WF_vars(Step(p))

-----------------------------------------------------------------------------
\* Properties

\* Whenever no switch is half done, the credential Claude Code uses and the
\* account its config file names are the same account, after any crash, fault
\* and recovery (restoreConfigFromJournal, restoreLiveFromStaged, rollback).
AtRestAligned == ~Unfinished /\ ~misadopted => live.acct = config.oauth

\* The newest credential of every account is stored somewhere, unless Claude
\* Code itself or the death of its only holder discarded it: neither a switch
\* nor a rollback nor a recovery overwrites the last copy.  An unresolved
\* credential of another account in the outgoing slot (step 5) can push the last
\* copy out of ':prev'.
Stored ==
    {live} \cup stash \cup {slot[a] : a \in Accounts} \cup {prev[a] : a \in Accounts}
    \cup {staged[s] : s \in Switchers} \cup {loc[p].tgt : p \in {q \in Procs : pc[q] = "persist"}}
NoCredentialLost == ~misadopted => \A a \in People : newest[a] \in Stored \cup gone

\* While a journal says that the live credential may have been replaced and the
\* switch is neither closed nor committed, the copy to restore exists.
RollbackCopyKept ==
    Unfinished => (journal.undo.credsStarted => staged[journal.attempt] # None)

\* A switch is atomic for whoever looks at the three stores through the journal.
Atomic == INSTANCE AtomicSwitch WITH
    published <- IF Unfinished /\ (Unfinished => journal.undo.credsStarted)
                 THEN staged[journal.attempt].acct ELSE live.acct,
    named <- IF Unfinished /\ (Unfinished => journal.undo.cfgStarted)
             THEN journal.undo.cfgText.oauth ELSE config.oauth

\* switchClaude with its recovery implements AtomicSwitch.
RefinesAtomicSwitch == Atomic!Spec

\* The daemon reconciles what a dead process left, unless the live credential
\* has moved on: no orphan blocks switching for ever.
OrphanReconciled == Orphan ~> ~Orphan

\* Claim of docs/CLI.md:80: an orphaned journal can be resolved forward or back.
\* Stated for the half-done switch whose credential is the target's while the
\* config still names the outgoing account; in the other cases a resync of the
\* slot whose account the config names makes the live lineage known again.
OperatorCanResolve ==
    Orphan /\ (Orphan => live.acct = journal.to /\ config.oauth = journal.from /\ journal.from # journal.to)
    => BackAdmits \/ ForwardAdmits

\* Whenever no switch is half done, the live credential and the config name one
\* account; the newest credential of every account is stored somewhere, unless Claude
\* Code or the death of its only holder discarded it (both unless an unresolved
\* credential was adopted into another account's slot); and while a journal may ask
\* for the copy to restore, it exists - after any crash, login, refresh and recovery.
SwitchSafe == AtRestAligned /\ NoCredentialLost /\ RollbackCopyKept
=============================================================================
