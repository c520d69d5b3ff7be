---- MODULE ClaudeSwitchProofs ----
\* Proofs about ClaudeSwitch, for all sets of accounts, switchers and daemons and all
\* bounds. The inductive invariant has five parts, each proved preserved on top of the
\* ones before it: TypeOK; Files, what the journal, the staged copy and the lock say of
\* each other; Ages, that no copy is newer than its account's newest credential; and, as
\* long as no unresolved credential was adopted into another account's slot, Aligned and
\* Kept.  Where nobody logs in with Claude Code itself, Steady comes on top of them for the
\* refinement of AtomicSwitch.
EXTENDS ClaudeSwitch, TLAPS

USE DEF disk, locks, env, vars

-----------------------------------------------------------------------------
\* Types of the operators that the actions are built from.

\* The bounds on issued credentials, settings writes and failing effects are numbers.
LEMMA Bounds == MaxIssued \in Nat /\ MaxSettings \in Nat /\ MaxFaults \in Nat
  BY BoundsAssumption, Zenon

\* What Goto leaves of the program counters.
LEMMA GotoPc ==
    ASSUME NEW p \in Procs, pc \in [Procs -> LockFree \cup Locked], NEW label \in LockFree \cup Locked, Goto(p, label)
    PROVE  /\ pc' \in [Procs -> LockFree \cup Locked]
           /\ pc'[p] = label
           /\ \A q \in Procs : q # p => pc'[q] = pc[q]
  BY SMT DEF Goto

\* What Set leaves of the locals.
LEMMA SetLoc ==
    ASSUME NEW p \in Procs, loc \in [Procs -> Locals], NEW l \in Locals, Set(p, l)
    PROVE  /\ loc' \in [Procs -> Locals]
           /\ loc'[p] = l
           /\ \A q \in Procs : q # p => loc'[q] = loc[q]
  BY SMT DEF Set

\* The empty records have their types.
LEMMA Constants ==
    /\ NoConfig \in Configs /\ NoUndo \in Undos
    /\ NoPrep \in Prepared /\ NoLocals \in Locals
  <1>1. NoPrep.active \in Accounts
    BY AccountsAssumption, Zenon DEF NoPrep
  <1>2. NoConfig \in Configs /\ NoUndo \in Undos
    BY SMT DEF NoConfig, NoUndo, Configs, Undos
  <1>3. NoPrep \in Prepared
    BY <1>1, SMT DEF NoPrep, Prepared, Wiped, Blobs
  <1> QED BY <1>1, <1>2, <1>3, SMT DEF NoLocals, Locals, Blobs

\* What Finish leaves: the end label, no locals, the lock released if held.
LEMMA FinishTyped ==
    ASSUME NEW p \in Procs, TypeOK, Finish(p)
    PROVE  /\ pc' \in [Procs -> LockFree \cup Locked] /\ loc' \in [Procs -> Locals]
           /\ lock' \in Procs \cup {None, Dead}
           /\ pc'[p] = IF p \in Daemons THEN "idle" ELSE "done"
           /\ loc'[p] = NoLocals
           /\ \A q \in Procs : q # p => pc'[q] = pc[q] /\ loc'[q] = loc[q]
           /\ lock' = IF lock = p THEN None ELSE lock
  BY Constants, GotoPc, SetLoc, SMT DEF Finish, LockFree, TypeOK

\* local records
LEMMA LocalFields ==
    ASSUME NEW l \in Locals
    PROVE  /\ l.to \in Accounts /\ l.from \in Accounts /\ l.prep \in Prepared
           /\ l.out \in Blobs /\ l.tgt \in Blobs /\ l.undo \in Undos
           /\ {l.republish, l.retried, l.verdict, l.failed, l.forward} \subseteq BOOLEAN
           /\ l.prep.slots \in [Accounts -> Blobs] /\ l.prep.pre \in Blobs /\ l.prep.active \in Accounts
           /\ l.prep.freshened \in BOOLEAN
  BY SMT DEF Locals, Prepared

\* The fields of an undo record rewritten with a config intent.
LEMMA CfgFields ==
    ASSUME NEW u \in Undos, NEW c \in Configs, NEW h \in Configs
    PROVE  /\ [u EXCEPT !.cfgStarted = TRUE, !.cfgText = c, !.cfgHash = h].cfgStarted
           /\ [u EXCEPT !.cfgStarted = TRUE, !.cfgText = c, !.cfgHash = h].credsStarted = u.credsStarted
           /\ [u EXCEPT !.cfgStarted = TRUE, !.cfgText = c, !.cfgHash = h].cfgText = c
           /\ [u EXCEPT !.cfgStarted = TRUE, !.cfgText = c, !.cfgHash = h].cfgHash = h
  <1>1. [u EXCEPT !.cfgStarted = TRUE, !.cfgText = c, !.cfgHash = h].cfgStarted
    BY SMT DEF Undos
  <1>2. [u EXCEPT !.cfgStarted = TRUE, !.cfgText = c, !.cfgHash = h].credsStarted = u.credsStarted
    BY SMT DEF Undos
  <1>3. [u EXCEPT !.cfgStarted = TRUE, !.cfgText = c, !.cfgHash = h].cfgText = c
    BY SMT DEF Undos
  <1>4. [u EXCEPT !.cfgStarted = TRUE, !.cfgText = c, !.cfgHash = h].cfgHash = h
    BY SMT DEF Undos
  <1> QED BY <1>1, <1>2, <1>3, <1>4

\* ConfigIntent remembers the present config and the one to be written.
LEMMA ConfigIntentTyped ==
    ASSUME NEW u \in Undos, NEW a \in Accounts, config \in Configs
    PROVE  /\ ConfigIntent(u, a) \in Undos
           /\ ConfigIntent(u, a).cfgStarted
           /\ ConfigIntent(u, a).credsStarted = u.credsStarted
           /\ ConfigIntent(u, a).cfgText = config
           /\ ConfigIntent(u, a).cfgHash.oauth = a
  <1>1. [config EXCEPT !.oauth = a] \in Configs /\ [config EXCEPT !.oauth = a].oauth = a
    BY SMT DEF Configs, People
  <1>2. ConfigIntent(u, a) \in Undos
    BY <1>1, Zenon DEF Undos, ConfigIntent
  <1> DEFINE h == [config EXCEPT !.oauth = a]
             i == [u EXCEPT !.cfgStarted = TRUE, !.cfgText = config, !.cfgHash = h]
  <1>4. ConfigIntent(u, a) = i
    BY Zenon DEF ConfigIntent
  <1>5. h \in Configs /\ h.oauth = a
    BY <1>1
  <1> HIDE DEF h
  <1>6. i.cfgStarted /\ i.credsStarted = u.credsStarted /\ i.cfgText = config /\ i.cfgHash = h
    BY CfgFields, <1>5, config \in Configs
  <1> HIDE DEF i
  <1> QED BY <1>2, <1>4, <1>5, <1>6, Zenon

\* The types of an undo record's fields.
LEMMA UndoFields ==
    ASSUME NEW u \in Undos
    PROVE  /\ u.cfgText \in Configs /\ u.cfgHash \in Configs
           /\ u.credsStarted \in BOOLEAN /\ u.cfgStarted \in BOOLEAN
  BY SMT DEF Undos

\* The types of a journal's fields.
LEMMA JournalFields ==
    ASSUME NEW j \in Journals
    PROVE  /\ j.attempt \in Switchers /\ j.from \in Accounts /\ j.to \in Accounts
           /\ j.undo \in Undos /\ j.credsHash \in Blobs \cup {None}
           /\ j.republish \in BOOLEAN /\ j.credsWritten \in BOOLEAN /\ j.committed \in BOOLEAN
  BY SMT DEF Journals

\* restoreConfigFromJournal leaves a config alone unless its write was started, and then restores its account.
LEMMA RestoreTyped ==
    ASSUME NEW u \in Undos, config \in Configs
    PROVE  /\ restoreConfigFromJournal(u) \in Configs
           /\ ~u.cfgStarted => restoreConfigFromJournal(u) = config
           /\ u.cfgStarted => restoreConfigFromJournal(u).oauth = u.cfgText.oauth
  BY SMT DEF restoreConfigFromJournal, Undos, Configs

\* writeSlot keeps the types of a slot and its previous copy.
LEMMA WriteSlotTyped ==
    ASSUME TypeOK, NEW a \in Accounts, NEW c \in Blobs, writeSlot(a, c)
    PROVE  slot' \in [Accounts -> Blobs] /\ prev' \in [Accounts -> Blobs]
  BY SMT DEF TypeOK, writeSlot

\* Issue keeps the types of the newest credentials and of the count of issued ones.
LEMMA IssueTyped ==
    ASSUME TypeOK, NEW a \in People, NEW c \in Creds, Issue(a, c)
    PROVE  newest' \in [People -> Creds] /\ issued' \in 0 .. MaxIssued
  BY Bounds, SMT DEF TypeOK, Issue

\* A rotated credential is the next of its account, in the next family.
LEMMA RotatedTyped ==
    ASSUME NEW c \in Creds
    PROVE  /\ Rotated(c) \in Creds /\ Rotated(c) \in Blobs
           /\ Rotated(c).acct = c.acct /\ Rotated(c).fam = c.fam + 1 /\ Rotated(c).n = c.n + 1
  <1>1. c.acct \in People /\ c.fam \in Nat /\ c.n \in Nat
    BY SMT DEF Creds
  <1> DEFINE f == c.fam + 1
             m == c.n + 1
  <1>2. Rotated(c) = [c EXCEPT !.fam = f, !.n = m]
    BY Zenon DEF Rotated
  <1>3. f \in Nat /\ m \in Nat
    BY <1>1, SMT
  <1> HIDE DEF f, m
  <1>4. [c EXCEPT !.fam = f, !.n = m] \in Creds
    BY <1>3, Zenon DEF Creds
  <1>5. /\ [c EXCEPT !.fam = f, !.n = m].acct = c.acct
        /\ [c EXCEPT !.fam = f, !.n = m].fam = f
        /\ [c EXCEPT !.fam = f, !.n = m].n = m
    BY SMT DEF Creds
  <1> QED BY <1>2, <1>4, <1>5, Zenon DEF f, m, Blobs

\* A failing effect stays within the bound on failures.
LEMMA FaultTyped ==
    ASSUME TypeOK, faults < MaxFaults, faults' = faults + 1
    PROVE  faults' \in 0 .. MaxFaults
  BY Bounds, SMT DEF TypeOK

-----------------------------------------------------------------------------

\* The labels before a switch has a journal of its own.
Before  == {"start", "prepare", "freshen", "persist", "lock", "step4", "unstage4", "remove4",
            "step5", "step6"}

\* A switcher's labels with the preparation in hand.
Prepped == {"freshen", "persist", "lock", "step4", "unstage4", "remove4", "step5"}

\* The labels of a switch that works on its own journal.
Own     == {"stage", "stagefail", "intent7", "write7", "mark7", "intent8", "write8", "commit9",
            "rollback", "rbConfig", "rbLive"}

\* The labels at which a journal is closed, committed and tidied away.
Closing    == {"close", "committed", "unstage", "remove"}

\* The labels of a recovery that works on another's journal.
Rec     == {"recLive", "recConfig", "backConfig", "backLive", "fwdConfig", "fwdWrite", "fwdCommit"}

\* The live credential may have been replaced by a switch that is not finished.
Pending == Unfinished /\ journal.undo.credsStarted

\* What the journal and the staged copy say together: the config is written after
\* the credential, and a pending switch has its staged copy.
FileSound ==
    journal # None =>
        /\ journal.undo.cfgStarted => journal.undo.credsStarted
        /\ journal.credsWritten => journal.undo.credsStarted
        /\ journal.undo.credsStarted => journal.credsHash \in Blobs
        /\ Pending => staged[journal.attempt] \in Blobs

\* Exactly the process in the locked section holds the lock, and each is at labels of its role.
LockHeld(p) ==
    /\ lock = p <=> pc[p] \in Locked
    /\ p \in Switchers => pc[p] \in Before \cup Own \cup Closing \cup {"done", "crashed"}
    /\ p \notin Switchers => pc[p] \in {"idle", "lock", "recheck", "done", "crashed"} \cup Rec \cup Closing

\* A switch that has not written its journal has left no trace of itself.
AttemptFresh(p) ==
    p \in Switchers /\ pc[p] \in Before =>
        p \notin committed /\ staged[p] = None /\ (journal # None => journal.attempt # p)

\* What the journal says at each label of the locked section: whose it is, whether it
\* is finished, and that the holder's copy of the outgoing credential is the staged one.
SectionFile(p) ==
    /\ pc[p] \in Own \cup Closing \cup Rec \cup {"unstage4", "remove4"} => journal # None
    /\ p \in Switchers /\ pc[p] \in Own \cup Closing => journal.attempt = p
    /\ pc[p] \in Own \cup Rec \cup {"close"} => ~finished(journal)
    /\ pc[p] \in {"committed", "unstage", "remove", "unstage4", "remove4"} => finished(journal)
    /\ pc[p] \in {"step5", "step6"} => journal = None
    /\ pc[p] \in Own \ {"stage", "stagefail"} => staged[p] = loc[p].out
    /\ pc[p] \in {"stage", "stagefail", "intent7"} => ~journal.undo.credsStarted
    /\ pc[p] \in {"write7", "mark7", "intent8", "write8", "commit9"} => journal.undo.credsStarted

\* The file part of the inductive invariant.
Files == FileSound /\ \A p \in Procs : LockHeld(p) /\ AttemptFresh(p) /\ SectionFile(p)

\* The locked section is exclusive.
LEMMA Solo ==
    ASSUME Files, NEW p \in Procs, NEW q \in Procs, pc[p] \in Locked, q # p
    PROVE  lock = p /\ pc[q] \notin Locked
  BY SMT DEF Files, LockHeld

\* The lock holder's steps leave the other processes' part of the invariant alone.
LEMMA OthersFiles ==
    ASSUME TypeOK, Files, NEW p \in Procs, pc[p] \in Locked,
           \A q \in Procs : q # p => pc'[q] = pc[q],
           lock' \in {p, None, Dead},
           journal' = None \/ journal'.attempt = p \/ (journal # None /\ journal'.attempt = journal.attempt),
           \A s \in Switchers : s # p => staged'[s] \in {staged[s], None},
           \A s \in committed' : s \in committed \/ (journal # None /\ s = journal.attempt),
           NEW q \in Procs, q # p
    PROVE  LockHeld(q)' /\ AttemptFresh(q)' /\ SectionFile(q)'
  <1>1. pc'[q] = pc[q] /\ pc[q] \notin Locked /\ lock' # q
    BY Solo, ProcsAssumption, SMT
  <1>2. LockHeld(q)'
    BY <1>1, SMT DEF Files, LockHeld
  <1>3. AttemptFresh(q)'
    BY <1>1, SMT DEF Files, AttemptFresh
  <1>4. SectionFile(q)'
    BY <1>1, SMT DEF SectionFile, Locked, Own, Closing, Rec
  <1> QED BY <1>2, <1>3, <1>4

\* Fields of a rewritten journal.
SameFile(j, k) ==
    /\ k \in Journals
    /\ k.attempt = j.attempt /\ k.from = j.from /\ k.to = j.to /\ k.republish = j.republish

\* k is journal j with the intent to replace the live credential by b.
CredsStarted(j, b, k) ==
    /\ SameFile(j, k)
    /\ k.committed = j.committed /\ k.closed = j.closed /\ k.credsWritten = j.credsWritten
    /\ k.credsHash = b
    /\ k.undo.credsStarted /\ k.undo.cfgStarted = j.undo.cfgStarted
    /\ k.undo.cfgText = j.undo.cfgText /\ k.undo.cfgHash = j.undo.cfgHash

\* The fields of a journal rewritten with step 7's intent.
LEMMA JournalStarted ==
    ASSUME NEW j \in Journals, NEW b \in Blobs, NEW k,
           k = [j EXCEPT !.undo.credsStarted = TRUE, !.credsHash = b]
    PROVE  CredsStarted(j, b, k)
  <1>1. k \in Journals
    BY Zenon DEF Journals, Undos
  <1>2. SameFile(j, k)
    BY <1>1, SMT DEF Journals, SameFile
  <1>3. k.committed = j.committed /\ k.closed = j.closed /\ k.credsWritten = j.credsWritten /\ k.credsHash = b
    BY SMT DEF Journals
  <1>4. k.undo = [j.undo EXCEPT !.credsStarted = TRUE] /\ j.undo \in Undos
    BY SMT DEF Journals
  <1>5. k.undo.credsStarted /\ k.undo.cfgStarted = j.undo.cfgStarted
        /\ k.undo.cfgText = j.undo.cfgText /\ k.undo.cfgHash = j.undo.cfgHash
    BY <1>4, SMT DEF Undos
  <1> QED BY <1>2, <1>3, <1>5 DEF CredsStarted

\* The fields of a journal rewritten with an undo record.
LEMMA JournalUndo ==
    ASSUME NEW j \in Journals, NEW u \in Undos, NEW k, k = [j EXCEPT !.undo = u]
    PROVE  /\ SameFile(j, k) /\ k.undo = u
           /\ k.committed = j.committed /\ k.closed = j.closed /\ k.credsWritten = j.credsWritten
           /\ k.credsHash = j.credsHash
  <1>1. k \in Journals
    BY Zenon DEF Journals
  <1> QED BY <1>1, SMT DEF Journals, SameFile

\* The fields of a journal marked as written.
LEMMA JournalWritten ==
    ASSUME NEW j \in Journals, NEW k, k = [j EXCEPT !.credsWritten = TRUE]
    PROVE  /\ SameFile(j, k) /\ k.undo = j.undo
           /\ k.committed = j.committed /\ k.closed = j.closed /\ k.credsHash = j.credsHash
  <1>1. k \in Journals
    BY Zenon DEF Journals
  <1> QED BY <1>1, SMT DEF Journals, SameFile

\* The fields of a journal marked as committed.
LEMMA JournalCommitted ==
    ASSUME NEW j \in Journals, NEW k, k = [j EXCEPT !.committed = TRUE]
    PROVE  /\ SameFile(j, k) /\ k.undo = j.undo /\ k.committed
           /\ k.credsWritten = j.credsWritten /\ k.credsHash = j.credsHash
  <1>1. k \in Journals
    BY Zenon DEF Journals
  <1> QED BY <1>1, SMT DEF Journals, SameFile

\* The fields of a closed journal.
LEMMA JournalClosed ==
    ASSUME NEW j \in Journals, NEW c \in {"rolled-back", "stage-failed"}, NEW k, k = [j EXCEPT !.closed = c]
    PROVE  /\ SameFile(j, k) /\ k.undo = j.undo /\ k.closed = c
           /\ k.credsWritten = j.credsWritten /\ k.credsHash = j.credsHash
  <1>1. k \in Journals
    BY Zenon DEF Journals
  <1> QED BY <1>1, SMT DEF Journals, SameFile

\* Leaving the locked section keeps the file part, once FileSound is known.
LEMMA FinishFiles ==
    ASSUME TypeOK, Files, NEW p \in Procs, pc[p] \in Locked, Finish(p), FileSound',
           journal' = None \/ journal'.attempt = p \/ (journal # None /\ journal'.attempt = journal.attempt),
           \A s \in Switchers : s # p => staged'[s] \in {staged[s], None},
           \A s \in committed' : s \in committed \/ (journal # None /\ s = journal.attempt)
    PROVE  Files'
  <1>1. /\ pc'[p] = IF p \in Daemons THEN "idle" ELSE "done"
        /\ \A q \in Procs : q # p => pc'[q] = pc[q]
        /\ lock' = IF lock = p THEN None ELSE lock
    BY FinishTyped
  <1>2. lock = p /\ lock' = None /\ p # None
    BY <1>1, ProcsAssumption, SMT DEF Files, LockHeld
  <1>3. ASSUME NEW q \in Procs, q # p PROVE LockHeld(q)' /\ AttemptFresh(q)' /\ SectionFile(q)'
    BY <1>1, <1>2, <1>3, OthersFiles
  <1>4. LockHeld(p)' /\ AttemptFresh(p)' /\ SectionFile(p)'
    BY <1>1, <1>2, ProcsAssumption, SMT
       DEF LockHeld, AttemptFresh, SectionFile, Locked, Before, Own, Closing, Rec, Procs
  <1> QED BY <1>3, <1>4, SMT DEF Files

\* A step of the lock's holder that stays in the locked section.
LEMMA StayFiles ==
    ASSUME TypeOK, Files, NEW p \in Procs, pc[p] \in Locked, NEW label \in Locked, Goto(p, label), lock' = lock, FileSound',
           journal' = None \/ journal'.attempt = p \/ (journal # None /\ journal'.attempt = journal.attempt),
           \A s \in Switchers : s # p => staged'[s] \in {staged[s], None},
           \A s \in committed' : s \in committed \/ (journal # None /\ s = journal.attempt),
           p \in Switchers => label \in Before \cup Own \cup Closing,
           p \notin Switchers => label \in {"recheck"} \cup Rec \cup Closing,
           AttemptFresh(p)', SectionFile(p)'
    PROVE  Files'
  <1>1. /\ pc'[p] = label /\ \A q \in Procs : q # p => pc'[q] = pc[q]
    BY GotoPc, SMT DEF TypeOK
  <1>2. lock = p /\ lock' = p
    BY SMT DEF Files, LockHeld
  <1>3. ASSUME NEW q \in Procs, q # p PROVE LockHeld(q)' /\ AttemptFresh(q)' /\ SectionFile(q)'
    BY <1>1, <1>2, <1>3, OthersFiles
  <1>4. LockHeld(p)'
    BY <1>1, <1>2, SMT DEF LockHeld
  <1> QED BY <1>3, <1>4, SMT DEF Files

-----------------------------------------------------------------------------
\* Types: the actions that touch no file.

\* A request keeps types.
LEMMA TypeStart == ASSUME TypeOK, NEW p \in Procs, start(p) PROVE TypeOK'
  <1>1. PICK to \in Accounts, republish \in BOOLEAN, verdict \in BOOLEAN :
          Set(p, [loc[p] EXCEPT !.to = to, !.republish = republish, !.verdict = verdict])
    BY Zenon DEF start
  <1>2. loc[p] \in Locals
    BY SMT DEF TypeOK
  <1>3. [loc[p] EXCEPT !.to = to, !.republish = republish, !.verdict = verdict] \in Locals
    BY <1>2, Zenon DEF Locals
  <1>4. loc' \in [Procs -> Locals]
    BY <1>1, <1>3, SetLoc, Zenon DEF TypeOK
  <1>5. pc' \in [Procs -> LockFree \cup Locked]
    BY GotoPc, SMT DEF start, TypeOK, LockFree
  <1> QED BY <1>4, <1>5, SMT DEF TypeOK, start

\* The preparation outside the lock keeps types.
LEMMA TypePrepare == ASSUME TypeOK, NEW p \in Procs, prepareClaudeSwitch(p) PROVE TypeOK'
  <1>1. PICK who \in prefetchLiveIdentity :
          Set(p, [loc[p] EXCEPT !.prep = [active |-> active, live |-> live, resolved |-> who,
                                          slots |-> slot, freshened |-> FALSE, pre |-> slot[loc[p].to]]])
    BY Zenon DEF prepareClaudeSwitch
  <1>2. loc[p] \in Locals
    BY SMT DEF TypeOK
  <1>3. who \in People \cup {None}
    BY SMT DEF prefetchLiveIdentity, TypeOK, Blobs, Creds, Wiped
  <1>4. [active |-> active, live |-> live, resolved |-> who,
         slots |-> slot, freshened |-> FALSE, pre |-> slot[loc[p].to]] \in Prepared
    BY <1>2, <1>3, LocalFields, SMT DEF Prepared, TypeOK
  <1>5. loc' \in [Procs -> Locals]
    <2>1. [loc[p] EXCEPT !.prep = [active |-> active, live |-> live, resolved |-> who,
              slots |-> slot, freshened |-> FALSE, pre |-> slot[loc[p].to]]] \in Locals
      BY <1>2, <1>4, Zenon DEF Locals
    <2> QED BY <1>1, <2>1, SetLoc, Zenon DEF TypeOK
  <1>6. pc' \in [Procs -> LockFree \cup Locked]
    BY GotoPc, SMT DEF prepareClaudeSwitch, TypeOK, LockFree
  <1> QED BY <1>5, <1>6, SMT DEF TypeOK, prepareClaudeSwitch

\* The provider's answer to a refresh keeps types.
LEMMA TypePost == ASSUME TypeOK, NEW p \in Procs, postRefresh(p) PROVE TypeOK'
  <1> DEFINE a == loc[p].to
             l == [loc[p] EXCEPT !.tgt = Rotated(newest[a]), !.prep.slots[a] = slot[a]]
  <1>1. loc[p] \in Locals /\ a \in Accounts /\ a \in People /\ newest[a] \in Creds /\ slot[a] \in Blobs
    BY LocalFields, SMT DEF TypeOK, People
  <1>2. Rotated(newest[a]) \in Creds /\ Rotated(newest[a]) \in Blobs
    BY <1>1, RotatedTyped
  <1>3. l \in Locals
    BY <1>1, <1>2, Zenon DEF Locals, Prepared
  <1>4. Issue(a, Rotated(newest[a])) /\ Set(p, l) /\ Goto(p, "persist")
    BY Zenon DEF postRefresh
  <1> HIDE DEF l
  <1>5. loc' \in [Procs -> Locals]
    BY <1>3, <1>4, SetLoc, Zenon DEF TypeOK
  <1>6. pc' \in [Procs -> LockFree \cup Locked]
    BY <1>4, GotoPc, SMT DEF TypeOK, LockFree
  <1>7. newest' \in [People -> Creds] /\ issued' \in 0 .. MaxIssued
    BY <1>1, <1>2, <1>4, IssueTyped
  <1> QED BY <1>5, <1>6, <1>7, SMT DEF TypeOK, postRefresh

\* A target that needs no refresh keeps types.
LEMMA TypeFresh == ASSUME TypeOK, NEW p \in Procs, alreadyFresh(p) PROVE TypeOK'
  <1> DEFINE a == loc[p].to
             l == [loc[p] EXCEPT !.prep.slots[a] = slot[a]]
  <1>1. loc[p] \in Locals /\ a \in Accounts /\ slot[a] \in Blobs
    BY LocalFields, SMT DEF TypeOK, People
  <1>3. l \in Locals
    BY <1>1, Zenon DEF Locals, Prepared
  <1>4. Set(p, l) /\ Goto(p, "lock")
    BY Zenon DEF alreadyFresh
  <1> HIDE DEF l
  <1>5. loc' \in [Procs -> Locals]
    BY <1>3, <1>4, SetLoc, Zenon DEF TypeOK
  <1>6. pc' \in [Procs -> LockFree \cup Locked]
    BY <1>4, GotoPc, SMT DEF TypeOK, LockFree
  <1> QED BY <1>5, <1>6, SMT DEF TypeOK, alreadyFresh

\* The write of a refreshed credential keeps types.
LEMMA TypePersist == ASSUME TypeOK, NEW p \in Procs, persistRefresh(p) PROVE TypeOK'
  <1> DEFINE a == loc[p].to
             l == [loc[p] EXCEPT !.prep.slots[a] = slot'[a], !.prep.freshened = TRUE, !.tgt = Wiped]
  <1>1. loc[p] \in Locals /\ a \in Accounts /\ loc[p].tgt \in Blobs
    BY LocalFields, SMT DEF TypeOK, People
  <1>2. slot' \in [Accounts -> Blobs] /\ prev' \in [Accounts -> Blobs] /\ stash' \subseteq Blobs
    <2>1. \/ writeSlot(a, loc[p].tgt) /\ UNCHANGED stash
          \/ stash' = stash \cup {loc[p].tgt} /\ UNCHANGED <<slot, prev>>
      BY Zenon DEF persistRefresh
    <2> QED BY <1>1, <2>1, WriteSlotTyped, SMT DEF TypeOK
  <1>3. CASE Set(p, l) /\ Goto(p, "lock") /\ UNCHANGED lock
    <2>1. l \in Locals
      BY <1>1, <1>2, Zenon DEF Locals, Prepared, Blobs
    <2> HIDE DEF l
    <2>2. loc' \in [Procs -> Locals]
      BY <2>1, <1>3, SetLoc, Zenon DEF TypeOK
    <2>3. pc' \in [Procs -> LockFree \cup Locked]
      BY <1>3, GotoPc, SMT DEF TypeOK, LockFree
    <2> QED BY <1>2, <1>3, <2>2, <2>3, SMT DEF TypeOK, persistRefresh
  <1>4. CASE Finish(p)
    <2>1. loc' \in [Procs -> Locals] /\ pc' \in [Procs -> LockFree \cup Locked] /\ lock' \in Procs \cup {None, Dead}
      BY <1>4, FinishTyped
    <2> QED BY <1>2, <2>1, SMT DEF TypeOK, persistRefresh
  <1> QED BY <1>3, <1>4, Zenon DEF persistRefresh

\* A refusal, an abandoned or a started recovery and the acquisition of the lock keeps types.
LEMMA TypeQuit == ASSUME TypeOK, NEW p \in Procs, refuse(p) \/ giveUpRecovery(p) PROVE TypeOK'
  <1>1. Finish(p) /\ UNCHANGED <<disk, configLock, env, faults>>
    BY Zenon DEF refuse, giveUpRecovery
  <1>2. loc' \in [Procs -> Locals] /\ pc' \in [Procs -> LockFree \cup Locked] /\ lock' \in Procs \cup {None, Dead}
    BY <1>1, FinishTyped
  <1> QED BY <1>1, <1>2, SMT DEF TypeOK

\* The acquisition of the lock keeps types.
LEMMA TypeAcquire == ASSUME TypeOK, NEW p \in Procs, acquire(p) PROVE TypeOK'
  <1>1. pc' \in [Procs -> LockFree \cup Locked]
    BY GotoPc, SMT DEF acquire, TypeOK, Locked
  <1> QED BY <1>1, SMT DEF TypeOK, acquire

\* Step 4 (the journal and active checks under the lock) keeps types.
LEMMA TypeStep4 == ASSUME TypeOK, NEW p \in Procs, step4(p) PROVE TypeOK'
  <1>0. loc[p] \in Locals
    BY SMT DEF TypeOK
  <1>1. UNCHANGED <<disk, configLock, env, faults>>
    BY Zenon DEF step4
  <1>2. CASE Finish(p)
    BY <1>1, <1>2, FinishTyped, SMT DEF TypeOK
  <1>3. CASE Goto(p, "unstage4") /\ UNCHANGED <<loc, lock>>
    <2>1. pc' \in [Procs -> LockFree \cup Locked]
      BY <1>3, GotoPc, SMT DEF TypeOK, Locked
    <2> QED BY <1>1, <1>3, <2>1, SMT DEF TypeOK
  <1>4. CASE /\ lock' = None /\ Goto(p, "start")
             /\ Set(p, [NoLocals EXCEPT !.to = loc[p].to, !.republish = loc[p].republish,
                                        !.verdict = loc[p].verdict, !.retried = TRUE])
    <2>1. [NoLocals EXCEPT !.to = loc[p].to, !.republish = loc[p].republish,
                           !.verdict = loc[p].verdict, !.retried = TRUE] \in Locals
      <3>1. loc[p].to \in Accounts /\ loc[p].republish \in BOOLEAN /\ loc[p].verdict \in BOOLEAN
        BY <1>0, SMT DEF Locals
      <3> QED BY <3>1, Constants, Zenon DEF Locals
    <2>2. pc' \in [Procs -> LockFree \cup Locked]
      BY <1>4, GotoPc, SMT DEF TypeOK, LockFree
    <2>3. loc' \in [Procs -> Locals]
      BY <1>4, <2>1, SetLoc, Zenon DEF TypeOK
    <2> QED BY <1>1, <1>4, <2>2, <2>3, SMT DEF TypeOK
  <1>5. CASE /\ Set(p, [loc[p] EXCEPT !.from = active, !.out = live, !.republish = @ \/ active = loc[p].to])
             /\ Goto(p, "step5") /\ UNCHANGED lock
    <2>1. [loc[p] EXCEPT !.from = active, !.out = live, !.republish = @ \/ active = loc[p].to] \in Locals
      <3>1. active \in Accounts /\ live \in Blobs
        BY SMT DEF TypeOK
      <3> QED BY <1>0, <3>1, Zenon DEF Locals
    <2>2. pc' \in [Procs -> LockFree \cup Locked]
      BY <1>5, GotoPc, SMT DEF TypeOK, Locked
    <2>3. loc' \in [Procs -> Locals]
      BY <1>5, <2>1, SetLoc, Zenon DEF TypeOK
    <2> QED BY <1>1, <1>5, <2>2, <2>3, SMT DEF TypeOK
  <1> QED BY <1>2, <1>3, <1>4, <1>5, Zenon DEF step4

\* Step 5 (the outgoing credential kept, stashed or refused) keeps types.
LEMMA TypeStep5 == ASSUME TypeOK, NEW p \in Procs, step5(p) PROVE TypeOK'
  <1>1. loc[p].from \in Accounts /\ loc[p].out \in Blobs
    BY LocalFields, SMT DEF TypeOK
  <1>2. CASE Finish(p) /\ UNCHANGED <<slot, prev, stash, misadopted>>
    BY <1>2, FinishTyped, SMT DEF TypeOK, step5
  <1>3. CASE /\ \/ writeSlot(loc[p].from, loc[p].out) /\ UNCHANGED stash
                \/ stash' = stash \cup {loc[p].out} /\ UNCHANGED <<slot, prev>>
                \/ UNCHANGED <<slot, prev, stash>>
             /\ misadopted' = (misadopted \/ (OutgoingKind(p) = "unresolved" /\ loc[p].out.acct # loc[p].from))
             /\ Goto(p, "step6") /\ UNCHANGED <<loc, lock>>
    <2>1. slot' \in [Accounts -> Blobs] /\ prev' \in [Accounts -> Blobs] /\ stash' \subseteq Blobs
      BY <1>1, <1>3, WriteSlotTyped, SMT DEF TypeOK
    <2>2. pc' \in [Procs -> LockFree \cup Locked]
      BY <1>3, GotoPc, SMT DEF TypeOK, Locked
    <2>3. misadopted' \in BOOLEAN
      BY <1>3, Zenon
    <2> QED BY <1>3, <2>1, <2>2, <2>3, SMT DEF TypeOK, step5
  <1> QED BY <1>2, <1>3, Zenon DEF step5

\* Step 6 (the target slot re-read and the journal written) keeps types.
LEMMA TypeStep6 == ASSUME TypeOK, NEW p \in Procs, p \in Switchers, step6(p) PROVE TypeOK'
  <1>0. loc[p] \in Locals
    BY SMT DEF TypeOK
  <1>1. CASE Finish(p) /\ UNCHANGED journal
    BY <1>1, FinishTyped, SMT DEF TypeOK, step6
  <1>2. CASE /\ Set(p, [loc[p] EXCEPT !.tgt = slot[loc[p].to]])
             /\ journal' = [attempt |-> p, from |-> loc[p].from, to |-> loc[p].to,
                            republish |-> loc[p].republish, undo |-> NoUndo, credsHash |-> None,
                            credsWritten |-> FALSE, closed |-> "open", committed |-> FALSE]
             /\ Goto(p, "stage") /\ UNCHANGED lock
    <2>1. loc[p].to \in Accounts /\ loc[p].from \in Accounts /\ loc[p].republish \in BOOLEAN
      BY <1>0, SMT DEF Locals
    <2>2. journal' \in Journals
      BY <1>2, <2>1, Constants, Zenon DEF Journals
    <2>3. slot[loc[p].to] \in Blobs
      BY <2>1, SMT DEF TypeOK
    <2>4. [loc[p] EXCEPT !.tgt = slot[loc[p].to]] \in Locals
      BY <1>0, <2>3, Zenon DEF Locals
    <2>5. loc' \in [Procs -> Locals]
      BY <1>2, <2>4, SetLoc, Zenon DEF TypeOK
    <2>6. pc' \in [Procs -> LockFree \cup Locked]
      BY <1>2, GotoPc, SMT DEF TypeOK, Locked
    <2> QED BY <1>2, <2>2, <2>5, <2>6, SMT DEF TypeOK, step6
  <1> QED BY <1>1, <1>2, Zenon DEF step6

-----------------------------------------------------------------------------
\* The file part: one lemma for each action.

\* Undoing is visible in the file: what FileSound needs of a file that is not rewritten.
LEMMA FileUnchanged ==
    ASSUME TypeOK, Files, journal' = journal,
           \A s \in Switchers : staged'[s] = staged[s] \/ (journal # None => finished(journal)),
           committed \subseteq committed'
    PROVE  FileSound'
  <1>1. journal # None => journal \in Journals /\ journal.attempt \in Switchers
    BY JournalFields, SMT DEF TypeOK
  <1>2. journal # None /\ finished(journal) => finished(journal)'
    BY SMT DEF finished
  <1> QED BY <1>1, <1>2, SMT DEF FileSound, Pending, Unfinished, Files

\* Inside the section a well-typed journal exists.
LEMMA InSection ==
    ASSUME TypeOK, Files, NEW p \in Procs, pc[p] \in Own \cup Closing \cup Rec \cup {"unstage4", "remove4"}
    PROVE  /\ journal # None /\ journal \in Journals /\ journal.attempt \in Switchers /\ journal.undo \in Undos
           /\ loc[p] \in Locals /\ pc[p] \in Locked
  <1>1. journal # None
    BY SMT DEF Files, SectionFile
  <1> QED BY <1>1, JournalFields, SMT DEF TypeOK, Own, Closing, Rec, Locked

\* Only switchers are at the labels of a switch.
LEMMA OwnRole ==
    ASSUME Files, NEW p \in Procs, pc[p] \in Own \cup (Before \ {"lock"})
    PROVE  p \in Switchers
  BY SMT DEF Files, LockHeld, Own, Before, Rec, Closing

\* The staged rollback copy keeps types and the file part of the invariant.
LEMMA StageFiles == ASSUME TypeOK, Files, NEW p \in Procs, writeStagedRollback(p) PROVE TypeOK' /\ Files'
  <1>1. pc[p] = "stage" /\ pc[p] \in Own /\ p \in Switchers
    BY OwnRole, SMT DEF writeStagedRollback, Own
  <1>2. /\ journal \in Journals /\ journal # None /\ journal.attempt = p /\ loc[p] \in Locals /\ pc[p] \in Locked
        /\ ~journal.undo.credsStarted /\ ~finished(journal)
    BY <1>1, InSection, SMT DEF Files, SectionFile, Own
  <1>3. staged' = [staged EXCEPT ![p] = loc[p].out] \/ staged' = staged
    BY Zenon DEF writeStagedRollback, Effect
  <1>4. loc[p].out \in Blobs
    BY <1>2, LocalFields
  <1>5. staged' \in [Switchers -> Blobs \cup {None}] /\ \A s \in Switchers : s # p => staged'[s] = staged[s]
    BY <1>1, <1>3, <1>4, SMT DEF TypeOK
  <1>6. FileSound'
    BY <1>2, SMT DEF writeStagedRollback, FileSound, Files, Pending
  <1>7. CASE Goto(p, "intent7") /\ staged' = [staged EXCEPT ![p] = loc[p].out] /\ UNCHANGED faults
    <2>1. pc' \in [Procs -> LockFree \cup Locked] /\ pc'[p] = "intent7"
      BY <1>7, GotoPc, SMT DEF TypeOK, Locked
    <2>2. TypeOK'
      BY <1>5, <1>7, <2>1, SMT DEF TypeOK, writeStagedRollback
    <2>3. staged'[p] = loc[p].out
      BY <1>1, <1>7, SMT DEF TypeOK
    <2>4. AttemptFresh(p)' /\ SectionFile(p)'
      BY <1>1, <1>2, <2>1, <2>3, SMT DEF AttemptFresh, SectionFile, Before, Own, Closing, Rec, writeStagedRollback, finished
    <2>5. Files'
      BY <1>1, <1>2, <1>5, <1>6, <1>7, <2>1, <2>4, StayFiles, SMT DEF writeStagedRollback, Locked, Own
    <2> QED BY <2>2, <2>5
  <1>8. CASE Goto(p, "stagefail") /\ faults < MaxFaults /\ faults' = faults + 1
    <2>1. pc' \in [Procs -> LockFree \cup Locked] /\ pc'[p] = "stagefail" /\ faults' \in 0 .. MaxFaults
      BY <1>8, GotoPc, FaultTyped, SMT DEF TypeOK, Locked
    <2>2. TypeOK'
      BY <1>5, <1>8, <2>1, SMT DEF TypeOK, writeStagedRollback
    <2>4. AttemptFresh(p)' /\ SectionFile(p)'
      BY <1>1, <1>2, <2>1, SMT DEF AttemptFresh, SectionFile, Before, Own, Closing, Rec, writeStagedRollback, finished
    <2>5. Files'
      BY <1>1, <1>2, <1>5, <1>6, <1>8, <2>1, <2>4, StayFiles, SMT DEF writeStagedRollback, Locked, Own
    <2> QED BY <2>2, <2>5
  <1> QED BY <1>7, <1>8, Zenon DEF writeStagedRollback, Effect

\* The close of a switch whose staging failed keeps types and the file part of the invariant.
LEMMA StageFailedFiles == ASSUME TypeOK, Files, NEW p \in Procs, stageFailed(p) PROVE TypeOK' /\ Files'
  <1>1. pc[p] = "stagefail" /\ pc[p] \in Own /\ p \in Switchers
    BY OwnRole, SMT DEF stageFailed, Own
  <1>2. /\ journal \in Journals /\ journal # None /\ journal.attempt = p /\ loc[p] \in Locals /\ pc[p] \in Locked
        /\ ~journal.undo.credsStarted
    BY <1>1, InSection, SMT DEF Files, SectionFile, Own
  <1>3. journal' = [journal EXCEPT !.closed = "stage-failed"] \/ journal' = journal
    BY Zenon DEF stageFailed, LastEffect
  <1>4. SameFile(journal, journal') /\ journal'.undo = journal.undo /\ journal' \in Journals
        /\ journal'.credsWritten = journal.credsWritten
    BY <1>2, <1>3, JournalClosed, SMT DEF SameFile
  <1>4a. journal' # None
    BY <1>4, NoneAssumption
  <1>5. FileSound'
    BY <1>2, <1>4, SMT DEF FileSound, Files, Pending
  <1>6. CASE Goto(p, "unstage") /\ journal' = [journal EXCEPT !.closed = "stage-failed"] /\ UNCHANGED <<loc, lock, faults>>
    <2>0. journal'.closed = "stage-failed"
      BY <1>2, <1>6, JournalClosed
    <2>1. pc' \in [Procs -> LockFree \cup Locked] /\ pc'[p] = "unstage"
      BY <1>6, GotoPc, SMT DEF TypeOK, Locked
    <2>2. TypeOK'
      BY <1>4, <1>6, <2>1, SMT DEF TypeOK, stageFailed
    <2>4. AttemptFresh(p)' /\ SectionFile(p)'
      BY <1>1, <1>2, <1>4, <1>4a, <2>0, <2>1, SMT DEF AttemptFresh, SectionFile, Before, Own, Closing, Rec, SameFile, finished
    <2>5. Files'
      BY <1>1, <1>2, <1>4, <1>5, <1>6, <2>1, <2>4, StayFiles, SMT DEF stageFailed, Locked, Closing, SameFile
    <2> QED BY <2>2, <2>5
  <1>7. CASE Finish(p) /\ faults < MaxFaults /\ faults' = faults + 1
    <2>1. TypeOK'
      BY <1>4, <1>7, FinishTyped, FaultTyped, SMT DEF TypeOK, stageFailed
    <2>2. Files'
      BY <1>1, <1>2, <1>4, <1>5, <1>7, FinishFiles, SMT DEF stageFailed, SameFile
    <2> QED BY <2>1, <2>2
  <1> QED BY <1>6, <1>7, Zenon DEF stageFailed, LastEffect

\* Step 7's intent in the journal keeps types and the file part of the invariant.
LEMMA Intent7Files == ASSUME TypeOK, Files, NEW p \in Procs, intent7(p) PROVE TypeOK' /\ Files'
  <1>1. pc[p] = "intent7" /\ pc[p] \in Own /\ p \in Switchers
    BY OwnRole, SMT DEF intent7, Own
  <1>2. /\ journal \in Journals /\ journal # None /\ journal.attempt = p /\ loc[p] \in Locals /\ pc[p] \in Locked
        /\ ~journal.undo.credsStarted /\ ~finished(journal) /\ staged[p] = loc[p].out
    BY <1>1, InSection, SMT DEF Files, SectionFile, Own
  <1>3. loc[p].tgt \in Blobs /\ loc[p].out \in Blobs /\ loc[p].undo \in Undos
    BY <1>2, LocalFields
  <1>4. /\ loc' \in [Procs -> Locals] /\ loc'[p].out = loc[p].out
        /\ \A q \in Procs : q # p => loc'[q] = loc[q]
    <2>1. [loc[p] EXCEPT !.undo.credsStarted = TRUE] \in Locals
      BY <1>2, Zenon DEF Locals, Undos
    <2>2. Set(p, [loc[p] EXCEPT !.undo.credsStarted = TRUE])
      BY Zenon DEF intent7
    <2>3. [loc[p] EXCEPT !.undo.credsStarted = TRUE].out = loc[p].out
      BY <1>2, SMT DEF Locals
    <2> QED BY <2>1, <2>2, <2>3, SetLoc, Zenon DEF TypeOK
  <1>5. CASE UNCHANGED journal
    <2>1. CASE Goto(p, "rollback") /\ faults < MaxFaults /\ faults' = faults + 1
      <3>1. pc' \in [Procs -> LockFree \cup Locked] /\ pc'[p] = "rollback" /\ faults' \in 0 .. MaxFaults
        BY <2>1, GotoPc, FaultTyped, SMT DEF TypeOK, Locked
      <3>2. TypeOK'
        BY <1>4, <1>5, <3>1, SMT DEF TypeOK, intent7
      <3>3. FileSound'
        BY <1>5, FileUnchanged, SMT DEF intent7
      <3>4. AttemptFresh(p)' /\ SectionFile(p)'
        BY <1>1, <1>2, <1>4, <1>5, <3>1, SMT DEF AttemptFresh, SectionFile, Before, Own, Closing, Rec, intent7, finished
      <3>5. Files'
        BY <1>1, <1>2, <1>5, <2>1, <3>3, <3>4, StayFiles, SMT DEF intent7, Locked, Own
      <3> QED BY <3>2, <3>5
    <2>2. CASE Goto(p, "write7") /\ UNCHANGED faults /\ journal' = [journal EXCEPT !.undo.credsStarted = TRUE, !.credsHash = loc[p].tgt]
      <3>1. journal'.undo.credsStarted
        BY <1>2, <1>3, <2>2, JournalStarted, Zenon DEF CredsStarted
      <3> QED BY <1>2, <1>5, <3>1
    <2> QED BY <1>5, <2>1, <2>2, Zenon DEF intent7, Effect
  <1>6. CASE journal' = [journal EXCEPT !.undo.credsStarted = TRUE, !.credsHash = loc[p].tgt]
    <2>0. CredsStarted(journal, loc[p].tgt, journal')
      BY <1>2, <1>3, <1>6, JournalStarted, Zenon
    <2>1. journal' \in Journals
      BY <2>0, Zenon DEF SameFile, CredsStarted
    <2>1a. journal' # None
      BY <2>1, NoneAssumption
    <2>2. FileSound'
      BY <1>1, <1>2, <1>3, <2>0, <2>1, SMT DEF FileSound, SameFile, CredsStarted, Pending, Unfinished, intent7
    <2>3. PICK label \in {"write7", "rollback"} : Goto(p, label) /\ faults' \in 0 .. MaxFaults
      <3>1. \/ Goto(p, "write7") /\ UNCHANGED faults
            \/ Goto(p, "rollback") /\ faults < MaxFaults /\ faults' = faults + 1
        BY Zenon DEF intent7, Effect
      <3> QED BY <3>1, FaultTyped, SMT DEF TypeOK
    <2>4. pc' \in [Procs -> LockFree \cup Locked] /\ pc'[p] = label
      BY <2>3, GotoPc, SMT DEF TypeOK, Locked
    <2>5. TypeOK'
      BY <1>4, <2>1, <2>3, <2>4, SMT DEF TypeOK, intent7
    <2>6. AttemptFresh(p)' /\ SectionFile(p)'
      BY <1>1, <1>2, <1>4, <2>0, <2>1, <2>1a, <2>4, SMT DEF AttemptFresh, SectionFile, Before, Own, Closing, Rec, intent7, finished, SameFile, CredsStarted
    <2>7. Files'
      BY <1>1, <1>2, <2>0, <2>2, <2>3, <2>4, <2>6, StayFiles, SMT DEF intent7, Locked, Own, SameFile, CredsStarted
    <2> QED BY <2>5, <2>7
  <1> QED BY <1>5, <1>6, Zenon DEF intent7, Effect

\* Step 7's write of the live credential keeps types and the file part of the invariant.
LEMMA Write7Files == ASSUME TypeOK, Files, NEW p \in Procs, write7(p) PROVE TypeOK' /\ Files'
  <1>1. pc[p] = "write7" /\ pc[p] \in Own /\ p \in Switchers
    BY OwnRole, SMT DEF write7, Own
  <1>2. /\ journal \in Journals /\ journal # None /\ journal.attempt = p /\ loc[p] \in Locals /\ pc[p] \in Locked
        /\ journal.undo.credsStarted /\ ~finished(journal) /\ staged[p] = loc[p].out
    BY <1>1, InSection, SMT DEF Files, SectionFile, Own
  <1>3. live' \in Blobs
    BY <1>2, LocalFields, SMT DEF write7, Effect, TypeOK
  <1>4. FileSound'
    BY FileUnchanged, SMT DEF write7
  <1>5. PICK label \in {"mark7", "rollback"} : Goto(p, label) /\ faults' \in 0 .. MaxFaults
    <2>1. \/ Goto(p, "mark7") /\ UNCHANGED faults
          \/ Goto(p, "rollback") /\ faults < MaxFaults /\ faults' = faults + 1
      BY Zenon DEF write7, Effect
    <2> QED BY <2>1, FaultTyped, SMT DEF TypeOK
  <1>6. pc' \in [Procs -> LockFree \cup Locked] /\ pc'[p] = label
    BY <1>5, GotoPc, SMT DEF TypeOK, Locked
  <1>7. TypeOK'
    BY <1>3, <1>5, <1>6, SMT DEF TypeOK, write7
  <1>8. AttemptFresh(p)' /\ SectionFile(p)'
    BY <1>1, <1>2, <1>6, SMT DEF AttemptFresh, SectionFile, Before, Own, Closing, Rec, write7, finished
  <1>9. Files'
    BY <1>1, <1>2, <1>4, <1>5, <1>6, <1>8, StayFiles, SMT DEF write7, Locked, Own
  <1> QED BY <1>7, <1>9

\* Step 7's mark after the write keeps types and the file part of the invariant.
LEMMA Mark7Files == ASSUME TypeOK, Files, NEW p \in Procs, mark7(p) PROVE TypeOK' /\ Files'
  <1>1. pc[p] = "mark7" /\ pc[p] \in Own /\ p \in Switchers
    BY OwnRole, SMT DEF mark7, Own
  <1>2. /\ journal \in Journals /\ journal # None /\ journal.attempt = p /\ loc[p] \in Locals /\ pc[p] \in Locked
        /\ journal.undo.credsStarted /\ ~finished(journal) /\ staged[p] = loc[p].out
    BY <1>1, InSection, SMT DEF Files, SectionFile, Own
  <1>3. /\ SameFile(journal, journal') /\ journal' \in Journals
        /\ journal'.committed = journal.committed /\ journal'.closed = journal.closed
        /\ journal'.undo = journal.undo /\ journal'.credsHash = journal.credsHash
    <2>1. journal' = journal \/ journal' = [journal EXCEPT !.credsWritten = TRUE]
      BY Zenon DEF mark7, Effect
    <2>2. CASE journal' = journal
      BY <1>2, <2>2, SMT DEF SameFile
    <2>3. CASE journal' = [journal EXCEPT !.credsWritten = TRUE]
      BY <1>2, <2>3, JournalWritten, SMT DEF SameFile
    <2> QED BY <2>1, <2>2, <2>3
  <1>3a. journal' # None
    BY <1>3, NoneAssumption
  <1>4. FileSound'
    BY <1>1, <1>2, <1>3, SMT DEF FileSound, SameFile, Pending, Unfinished, finished, mark7, Files
  <1>5. PICK label \in {"intent8", "rollback"} : Goto(p, label) /\ faults' \in 0 .. MaxFaults
    <2>1. \/ Goto(p, "intent8") /\ UNCHANGED faults
          \/ Goto(p, "rollback") /\ faults < MaxFaults /\ faults' = faults + 1
      BY Zenon DEF mark7, Effect
    <2> QED BY <2>1, FaultTyped, SMT DEF TypeOK
  <1>6. pc' \in [Procs -> LockFree \cup Locked] /\ pc'[p] = label
    BY <1>5, GotoPc, SMT DEF TypeOK, Locked
  <1>7. TypeOK'
    BY <1>3, <1>5, <1>6, SMT DEF TypeOK, mark7
  <1>8. AttemptFresh(p)' /\ SectionFile(p)'
    BY <1>1, <1>2, <1>3, <1>3a, <1>6, SMT DEF AttemptFresh, SectionFile, Before, Own, Closing, Rec, mark7, finished, SameFile
  <1>9. Files'
    BY <1>1, <1>2, <1>3, <1>4, <1>5, <1>6, <1>8, StayFiles, SMT DEF mark7, Locked, Own, SameFile
  <1> QED BY <1>7, <1>9

\* Step 8's intent in the journal keeps types and the file part of the invariant.
LEMMA Intent8Files == ASSUME TypeOK, Files, NEW p \in Procs, intent8(p) PROVE TypeOK' /\ Files'
  <1>1. pc[p] = "intent8" /\ pc[p] \in Own /\ p \in Switchers
    BY OwnRole, SMT DEF intent8, Own
  <1>2. /\ journal \in Journals /\ journal # None /\ journal.attempt = p /\ loc[p] \in Locals /\ pc[p] \in Locked
        /\ journal.undo.credsStarted /\ ~finished(journal) /\ staged[p] = loc[p].out
    BY <1>1, InSection, SMT DEF Files, SectionFile, Own
  <1>3. config \in Configs /\ loc[p].undo \in Undos /\ loc[p].to \in Accounts /\ journal.undo \in Undos
    BY <1>2, LocalFields, JournalFields, SMT DEF TypeOK
  <1>4. /\ loc' \in [Procs -> Locals] /\ loc'[p].out = loc[p].out
        /\ \A q \in Procs : q # p => loc'[q] = loc[q]
    <2>1. Set(p, [loc[p] EXCEPT !.undo = ConfigIntent(loc[p].undo, loc[p].to)])
      BY Zenon DEF intent8
    <2>2. ConfigIntent(loc[p].undo, loc[p].to) \in Undos
      BY <1>3, ConfigIntentTyped
    <2>3. ASSUME NEW u \in Undos
          PROVE  [loc[p] EXCEPT !.undo = u] \in Locals /\ [loc[p] EXCEPT !.undo = u].out = loc[p].out
      <3>1. [loc[p] EXCEPT !.undo = u] \in Locals
        BY <1>2, Zenon DEF Locals
      <3>2. [loc[p] EXCEPT !.undo = u].out = loc[p].out
        BY <1>2, SMT DEF Locals
      <3> QED BY <3>1, <3>2
    <2> QED BY <2>1, <2>2, <2>3, SetLoc, Zenon DEF TypeOK
  <1>5. /\ SameFile(journal, journal') /\ journal' \in Journals
        /\ journal'.committed = journal.committed /\ journal'.closed = journal.closed
        /\ journal'.credsWritten = journal.credsWritten
        /\ journal'.undo.credsStarted /\ journal'.credsHash = journal.credsHash
    <2>1. journal' = journal \/ journal' = [journal EXCEPT !.undo = ConfigIntent(journal.undo, loc[p].to)]
      BY Zenon DEF intent8, Effect
    <2>2. CASE journal' = journal
      BY <1>2, <2>2, SMT DEF SameFile
    <2>3. CASE journal' = [journal EXCEPT !.undo = ConfigIntent(journal.undo, loc[p].to)]
      <3>1. ConfigIntent(journal.undo, loc[p].to) \in Undos /\ ConfigIntent(journal.undo, loc[p].to).credsStarted
        BY <1>2, <1>3, ConfigIntentTyped
      <3> QED BY <1>2, <2>3, <3>1, JournalUndo, SMT DEF SameFile
    <2> QED BY <2>1, <2>2, <2>3
  <1>5a. journal' # None
    BY <1>5, NoneAssumption
  <1>6. FileSound'
    BY <1>1, <1>2, <1>5, SMT DEF FileSound, SameFile, Pending, Unfinished, finished, intent8, Files
  <1>7. PICK label \in {"write8", "rollback"} : Goto(p, label) /\ faults' \in 0 .. MaxFaults
    <2>1. \/ Goto(p, "write8") /\ UNCHANGED faults
          \/ Goto(p, "rollback") /\ faults < MaxFaults /\ faults' = faults + 1
      BY Zenon DEF intent8, Effect
    <2> QED BY <2>1, FaultTyped, SMT DEF TypeOK
  <1>8. pc' \in [Procs -> LockFree \cup Locked] /\ pc'[p] = label
    BY <1>7, GotoPc, SMT DEF TypeOK, Locked
  <1>9. TypeOK'
    BY <1>4, <1>5, <1>7, <1>8, SMT DEF TypeOK, intent8
  <1>10. AttemptFresh(p)' /\ SectionFile(p)'
    BY <1>1, <1>2, <1>4, <1>5, <1>5a, <1>8, SMT DEF AttemptFresh, SectionFile, Before, Own, Closing, Rec, intent8, finished, SameFile
  <1>11. Files'
    BY <1>1, <1>2, <1>5, <1>6, <1>7, <1>8, <1>10, StayFiles, SMT DEF intent8, Locked, Own, SameFile
  <1> QED BY <1>9, <1>11

\* Step 8's write of the config keeps types and the file part of the invariant.
LEMMA Write8Files == ASSUME TypeOK, Files, NEW p \in Procs, write8(p) PROVE TypeOK' /\ Files'
  <1>1. pc[p] = "write8" /\ pc[p] \in Own /\ p \in Switchers
    BY OwnRole, SMT DEF write8, Own
  <1>2. /\ journal \in Journals /\ journal # None /\ journal.attempt = p /\ loc[p] \in Locals /\ pc[p] \in Locked
        /\ journal.undo.credsStarted /\ ~finished(journal) /\ staged[p] = loc[p].out
    BY <1>1, InSection, SMT DEF Files, SectionFile, Own
  <1>3. config' \in Configs
    BY <1>2, LocalFields, UndoFields, SMT DEF write8, Effect, TypeOK
  <1>4. FileSound'
    BY FileUnchanged, SMT DEF write8
  <1>5. PICK label \in {"commit9", "rollback"} : Goto(p, label) /\ faults' \in 0 .. MaxFaults
    <2>1. \/ Goto(p, "commit9") /\ UNCHANGED faults
          \/ Goto(p, "rollback") /\ faults < MaxFaults /\ faults' = faults + 1
      BY Zenon DEF write8, Effect
    <2> QED BY <2>1, FaultTyped, SMT DEF TypeOK
  <1>6. pc' \in [Procs -> LockFree \cup Locked] /\ pc'[p] = label
    BY <1>5, GotoPc, SMT DEF TypeOK, Locked
  <1>7. TypeOK'
    BY <1>3, <1>5, <1>6, SMT DEF TypeOK, write8
  <1>8. AttemptFresh(p)' /\ SectionFile(p)'
    BY <1>1, <1>2, <1>6, SMT DEF AttemptFresh, SectionFile, Before, Own, Closing, Rec, write8, finished
  <1>9. Files'
    BY <1>1, <1>2, <1>4, <1>5, <1>6, <1>8, StayFiles, SMT DEF write8, Locked, Own
  <1> QED BY <1>7, <1>9

\* commitClaudeSwitch keeps the types of the committed set and the active account.
LEMMA CommitTyped ==
    ASSUME TypeOK, journal \in Journals, commitClaudeSwitch(journal)
    PROVE  committed' \subseteq Switchers /\ active' \in Accounts
  BY JournalFields, SMT DEF commitClaudeSwitch, TypeOK

\* Step 9's commit keeps types and the file part of the invariant.
LEMMA Commit9Files == ASSUME TypeOK, Files, NEW p \in Procs, commit9(p) PROVE TypeOK' /\ Files'
  <1>1. pc[p] = "commit9" /\ pc[p] \in Own /\ p \in Switchers
    BY OwnRole, SMT DEF commit9, Own
  <1>2. /\ journal \in Journals /\ journal # None /\ journal.attempt = p /\ loc[p] \in Locals /\ pc[p] \in Locked
        /\ journal.undo.credsStarted /\ ~finished(journal) /\ staged[p] = loc[p].out
    BY <1>1, InSection, SMT DEF Files, SectionFile, Own
  <1>4. committed \subseteq committed' /\ committed' \subseteq committed \cup {journal.attempt}
    BY SMT DEF commit9, commitClaudeSwitch
  <1>4a. FileSound'
    BY <1>4, FileUnchanged, SMT DEF commit9
  <1>5. CASE commitClaudeSwitch(journal) /\ Goto(p, "committed") /\ UNCHANGED faults
    <2>1. pc' \in [Procs -> LockFree \cup Locked] /\ pc'[p] = "committed"
      BY <1>5, GotoPc, SMT DEF TypeOK, Locked
    <2>2. TypeOK'
      BY <1>2, <1>5, <2>1, CommitTyped, SMT DEF TypeOK, commit9
    <2>3. finished(journal)'
      BY <1>5, SMT DEF commit9, commitClaudeSwitch, finished
    <2>4. AttemptFresh(p)' /\ SectionFile(p)'
      BY <1>1, <1>2, <2>1, <2>3, SMT DEF AttemptFresh, SectionFile, Before, Own, Closing, Rec, commit9
    <2>5. Files'
      BY <1>1, <1>2, <1>4, <1>4a, <1>5, <2>1, <2>4, StayFiles, SMT DEF commit9, Locked, Closing
    <2> QED BY <2>2, <2>5
  <1>6. CASE Goto(p, "rollback") /\ faults < MaxFaults /\ faults' = faults + 1 /\ UNCHANGED <<committed, active>>
    <2>1. pc' \in [Procs -> LockFree \cup Locked] /\ pc'[p] = "rollback" /\ faults' \in 0 .. MaxFaults
      BY <1>6, GotoPc, FaultTyped, SMT DEF TypeOK, Locked
    <2>2. TypeOK'
      BY <1>6, <2>1, SMT DEF TypeOK, commit9
    <2>4. AttemptFresh(p)' /\ SectionFile(p)'
      BY <1>1, <1>2, <1>6, <2>1, SMT DEF AttemptFresh, SectionFile, Before, Own, Closing, Rec, commit9, finished
    <2>5. Files'
      BY <1>1, <1>2, <1>4, <1>4a, <1>6, <2>1, <2>4, StayFiles, SMT DEF commit9, Locked, Own
    <2> QED BY <2>2, <2>5
  <1> QED BY <1>5, <1>6, Zenon DEF commit9

\* The role of a process is visible in its label.
LEMMA RoleStays ==
    ASSUME Files, NEW p \in Procs
    PROVE  /\ pc[p] \in Closing /\ p \in Switchers => journal.attempt = p
           /\ pc[p] \in Rec \cup {"recheck"} => p \notin Switchers
           /\ pc[p] \in {"unstage4", "remove4", "step4", "step5", "step6"} => p \in Switchers
  BY SMT DEF Files, LockHeld, SectionFile, Own, Before, Rec, Closing

\* The mark of a committed journal keeps types and the file part of the invariant.
LEMMA MarkCommittedFiles == ASSUME TypeOK, Files, NEW p \in Procs, markCommitted(p) PROVE TypeOK' /\ Files'
  <1>1. pc[p] = "committed" /\ pc[p] \in Closing
    BY SMT DEF markCommitted, Closing
  <1>2. /\ journal \in Journals /\ journal # None /\ pc[p] \in Locked /\ finished(journal)
        /\ p \in Switchers => journal.attempt = p
    BY <1>1, InSection, SMT DEF Files, SectionFile, Closing
  <1>3. journal' = [journal EXCEPT !.committed = TRUE] \/ journal' = journal
    BY Zenon DEF markCommitted, LastEffect
  <1>4. SameFile(journal, journal') /\ journal'.undo = journal.undo /\ journal'.credsHash = journal.credsHash
        /\ journal' \in Journals /\ journal'.credsWritten = journal.credsWritten
    BY <1>2, <1>3, JournalCommitted, SMT DEF SameFile
  <1>5. journal' # None /\ finished(journal)'
    <2>1. CASE journal' = journal
      BY <1>2, <2>1, SMT DEF finished, markCommitted
    <2>2. CASE journal' = [journal EXCEPT !.committed = TRUE]
      <3>1. journal'.committed
        BY <1>2, <2>2, JournalCommitted, Zenon
      <3> QED BY <1>4, <3>1, NoneAssumption, SMT DEF finished
    <2> QED BY <1>3, <2>1, <2>2
  <1>6. FileSound'
    BY <1>2, <1>4, <1>5, SMT DEF FileSound, Files, Pending, Unfinished
  <1>7. CASE Goto(p, "unstage") /\ UNCHANGED <<loc, lock, faults>>
    <2>1. pc' \in [Procs -> LockFree \cup Locked] /\ pc'[p] = "unstage"
      BY <1>7, GotoPc, SMT DEF TypeOK, Locked
    <2>2. TypeOK'
      BY <1>4, <1>7, <2>1, SMT DEF TypeOK, markCommitted
    <2>3. AttemptFresh(p)' /\ SectionFile(p)'
      BY <1>2, <1>4, <1>5, <2>1, SMT DEF AttemptFresh, SectionFile, Before, Own, Closing, Rec, SameFile
    <2>4. Files'
      BY <1>1, <1>2, <1>4, <1>6, <1>7, <2>1, <2>3, StayFiles, SMT DEF markCommitted, Locked, Closing, SameFile
    <2> QED BY <2>2, <2>4
  <1>8. CASE Finish(p) /\ faults < MaxFaults /\ faults' = faults + 1
    <2>1. TypeOK'
      BY <1>4, <1>8, FinishTyped, FaultTyped, SMT DEF TypeOK, markCommitted
    <2>2. Files'
      BY <1>2, <1>4, <1>6, <1>8, FinishFiles, SMT DEF markCommitted, SameFile
    <2> QED BY <2>1, <2>2
  <1> QED BY <1>7, <1>8, Zenon DEF markCommitted, LastEffect

\* The mark of a rolled-back journal keeps types and the file part of the invariant.
LEMMA MarkClosedFiles == ASSUME TypeOK, Files, NEW p \in Procs, markClosed(p) PROVE TypeOK' /\ Files'
  <1>1. pc[p] = "close" /\ pc[p] \in Closing
    BY SMT DEF markClosed, Closing
  <1>2. /\ journal \in Journals /\ journal # None /\ pc[p] \in Locked /\ ~finished(journal)
        /\ p \in Switchers => journal.attempt = p
    BY <1>1, InSection, SMT DEF Files, SectionFile, Closing
  <1>3. journal' = [journal EXCEPT !.closed = "rolled-back"] \/ journal' = journal
    BY Zenon DEF markClosed, LastEffect
  <1>4. SameFile(journal, journal') /\ journal'.undo = journal.undo /\ journal'.credsHash = journal.credsHash
        /\ journal' \in Journals /\ journal'.credsWritten = journal.credsWritten
    BY <1>2, <1>3, JournalClosed, SMT DEF SameFile
  <1>6. FileSound'
    <2>1. CASE journal' = journal
      BY <2>1, FileUnchanged, SMT DEF markClosed
    <2>2. CASE journal' = [journal EXCEPT !.closed = "rolled-back"]
      <3>1. journal'.closed = "rolled-back"
        BY <1>2, <2>2, JournalClosed, Zenon
      <3> QED BY <1>2, <1>4, <3>1, SMT DEF FileSound, Files, Pending, Unfinished, finished
    <2> QED BY <1>3, <2>1, <2>2
  <1>7. CASE Goto(p, "unstage") /\ journal' = [journal EXCEPT !.closed = "rolled-back"] /\ UNCHANGED <<loc, lock, faults>>
    <2>0. journal' # None /\ finished(journal)'
      <3>1. journal'.closed = "rolled-back"
        BY <1>2, <1>7, JournalClosed, Zenon
      <3> QED BY <1>4, <3>1, NoneAssumption, SMT DEF finished
    <2>1. pc' \in [Procs -> LockFree \cup Locked] /\ pc'[p] = "unstage"
      BY <1>7, GotoPc, SMT DEF TypeOK, Locked
    <2>2. TypeOK'
      BY <1>4, <1>7, <2>1, SMT DEF TypeOK, markClosed
    <2>3. AttemptFresh(p)' /\ SectionFile(p)'
      BY <1>2, <1>4, <2>0, <2>1, SMT DEF AttemptFresh, SectionFile, Before, Own, Closing, Rec, SameFile
    <2>4. Files'
      BY <1>1, <1>2, <1>4, <1>6, <1>7, <2>1, <2>3, StayFiles, SMT DEF markClosed, Locked, Closing, SameFile
    <2> QED BY <2>2, <2>4
  <1>8. CASE Finish(p) /\ faults < MaxFaults /\ faults' = faults + 1
    <2>1. TypeOK'
      BY <1>4, <1>8, FinishTyped, FaultTyped, SMT DEF TypeOK, markClosed
    <2>2. Files'
      BY <1>2, <1>4, <1>6, <1>8, FinishFiles, SMT DEF markClosed, SameFile
    <2> QED BY <2>1, <2>2
  <1> QED BY <1>7, <1>8, Zenon DEF markClosed, LastEffect

\* The removal of the staged copy keeps types and the file part of the invariant.
LEMMA UnstageFiles == ASSUME TypeOK, Files, NEW p \in Procs, deleteStagedRollback(p) PROVE TypeOK' /\ Files'
  <1>1. pc[p] \in {"unstage", "unstage4"}
    BY SMT DEF deleteStagedRollback
  <1>2. /\ journal \in Journals /\ journal # None /\ journal.attempt \in Switchers /\ pc[p] \in Locked
        /\ finished(journal)
        /\ pc[p] = "unstage" /\ p \in Switchers => journal.attempt = p
        /\ pc[p] = "unstage4" => p \in Switchers /\ AttemptFresh(p)
    BY <1>1, InSection, RoleStays, SMT DEF Files, SectionFile, Closing
  <1>3. staged' = [staged EXCEPT ![journal.attempt] = None] \/ staged' = staged
    BY Zenon DEF deleteStagedRollback, LastEffect
  <1>4. /\ staged' \in [Switchers -> Blobs \cup {None}]
        /\ \A s \in Switchers : staged'[s] \in {staged[s], None}
        /\ \A s \in Switchers : s # journal.attempt => staged'[s] = staged[s]
    BY <1>2, <1>3, SMT DEF TypeOK
  <1>5. FileSound'
    BY <1>2, FileUnchanged, SMT DEF deleteStagedRollback
  <1>6. CASE Goto(p, IF pc[p] = "unstage" THEN "remove" ELSE "remove4") /\ UNCHANGED <<loc, lock, faults>>
    <2>1. /\ pc' \in [Procs -> LockFree \cup Locked]
          /\ pc'[p] = IF pc[p] = "unstage" THEN "remove" ELSE "remove4"
      BY <1>6, GotoPc, SMT DEF TypeOK, Locked
    <2>2. TypeOK'
      BY <1>4, <1>6, <2>1, SMT DEF TypeOK, deleteStagedRollback
    <2>3. AttemptFresh(p)' /\ SectionFile(p)'
      BY <1>1, <1>2, <1>4, <2>1, SMT DEF AttemptFresh, SectionFile, Before, Own, Closing, Rec, deleteStagedRollback, finished
    <2>4. Files'
      BY <1>1, <1>2, <1>4, <1>5, <1>6, <2>1, <2>3, StayFiles, SMT DEF deleteStagedRollback, Locked, Closing, Before
    <2> QED BY <2>2, <2>4
  <1>7. CASE Finish(p) /\ faults < MaxFaults /\ faults' = faults + 1
    <2>1. TypeOK'
      BY <1>4, <1>7, FinishTyped, FaultTyped, SMT DEF TypeOK, deleteStagedRollback
    <2>2. Files'
      BY <1>2, <1>4, <1>5, <1>7, FinishFiles, SMT DEF deleteStagedRollback
    <2> QED BY <2>1, <2>2
  <1> QED BY <1>6, <1>7, Zenon DEF deleteStagedRollback, LastEffect

\* The removal of the journal keeps types and the file part of the invariant.
LEMMA RemoveFiles == ASSUME TypeOK, Files, NEW p \in Procs, deleteClaudeSwitchJournal(p) PROVE TypeOK' /\ Files'
  <1>1. pc[p] \in {"remove", "remove4"}
    BY SMT DEF deleteClaudeSwitchJournal
  <1>2. /\ journal \in Journals /\ journal # None /\ pc[p] \in Locked
        /\ pc[p] = "remove4" => p \in Switchers /\ AttemptFresh(p)
    BY <1>1, InSection, RoleStays, SMT DEF Files, SectionFile, Closing
  <1>3. journal' = None \/ journal' = journal
    BY Zenon DEF deleteClaudeSwitchJournal
  <1>4. FileSound'
    <2>1. CASE journal' = None
      BY <2>1 DEF FileSound
    <2>2. CASE journal' = journal
      BY <2>2, FileUnchanged, SMT DEF deleteClaudeSwitchJournal
    <2> QED BY <1>3, <2>1, <2>2
  <1>5. CASE Finish(p) /\ faults' \in 0 .. MaxFaults
    <2>1. TypeOK'
      BY <1>3, <1>5, FinishTyped, SMT DEF TypeOK, deleteClaudeSwitchJournal
    <2>2. Files'
      BY <1>2, <1>3, <1>4, <1>5, FinishFiles, SMT DEF deleteClaudeSwitchJournal
    <2> QED BY <2>1, <2>2
  <1>6. CASE pc[p] = "remove4" /\ journal' = None /\ Goto(p, "step4") /\ UNCHANGED <<loc, lock, faults>>
    <2>1. pc' \in [Procs -> LockFree \cup Locked] /\ pc'[p] = "step4"
      BY <1>6, GotoPc, SMT DEF TypeOK, Locked
    <2>2. TypeOK'
      BY <1>6, <2>1, SMT DEF TypeOK, deleteClaudeSwitchJournal
    <2>3. AttemptFresh(p)' /\ SectionFile(p)'
      BY <1>2, <1>6, <2>1, SMT DEF AttemptFresh, SectionFile, Before, Own, Closing, Rec, deleteClaudeSwitchJournal
    <2>4. Files'
      BY <1>2, <1>4, <1>6, <2>1, <2>3, StayFiles, SMT DEF deleteClaudeSwitchJournal, Locked, Before
    <2> QED BY <2>2, <2>4
  <1>7. faults' \in 0 .. MaxFaults
    BY FaultTyped, SMT DEF deleteClaudeSwitchJournal, TypeOK
  <1> QED BY <1>1, <1>5, <1>6, <1>7, Zenon DEF deleteClaudeSwitchJournal

\* The choice of what a rollback undoes keeps types and the file part of the invariant.
LEMMA RollbackSourceFiles == ASSUME TypeOK, Files, NEW p \in Procs, rollbackSource(p) PROVE TypeOK' /\ Files'
  <1>1. pc[p] = "rollback" /\ pc[p] \in Own /\ p \in Switchers
    BY OwnRole, SMT DEF rollbackSource, Own
  <1>2. /\ journal \in Journals /\ journal # None /\ journal.attempt = p /\ loc[p] \in Locals /\ pc[p] \in Locked
        /\ ~finished(journal) /\ staged[p] = loc[p].out /\ journal.undo \in Undos
    BY <1>1, InSection, SMT DEF Files, SectionFile, Own
  <1>3. loc' \in [Procs -> Locals] /\ loc'[p].out = loc[p].out
    <2>1. CASE Set(p, [loc[p] EXCEPT !.undo = journal.undo])
      <3>1. [loc[p] EXCEPT !.undo = journal.undo] \in Locals
        BY <1>2, Zenon DEF Locals
      <3>2. [loc[p] EXCEPT !.undo = journal.undo].out = loc[p].out
        BY <1>2, SMT DEF Locals
      <3> QED BY <2>1, <3>1, <3>2, SetLoc, Zenon DEF TypeOK
    <2>2. CASE UNCHANGED loc
      BY <2>2, SMT DEF TypeOK
    <2> QED BY <2>1, <2>2, Zenon DEF rollbackSource
  <1>4. FileSound'
    BY FileUnchanged, SMT DEF rollbackSource
  <1>5. Goto(p, "rbConfig") /\ UNCHANGED <<disk, locks, env>> /\ faults' \in 0 .. MaxFaults
    BY FaultTyped, SMT DEF rollbackSource, TypeOK
  <1>6. pc' \in [Procs -> LockFree \cup Locked] /\ pc'[p] = "rbConfig"
    BY <1>5, GotoPc, SMT DEF TypeOK, Locked
  <1>7. TypeOK'
    BY <1>3, <1>5, <1>6, SMT DEF TypeOK
  <1>8. AttemptFresh(p)' /\ SectionFile(p)'
    BY <1>1, <1>2, <1>3, <1>5, <1>6, SMT DEF AttemptFresh, SectionFile, Before, Own, Closing, Rec, finished
  <1>9. Files'
    BY <1>1, <1>2, <1>4, <1>5, <1>6, <1>8, StayFiles, SMT DEF Locked, Own
  <1> QED BY <1>7, <1>9

\* The rollback's config write keeps types and the file part of the invariant.
LEMMA RollbackConfigFiles == ASSUME TypeOK, Files, NEW p \in Procs, rollbackConfig(p) PROVE TypeOK' /\ Files'
  <1>1. pc[p] = "rbConfig" /\ pc[p] \in Own /\ p \in Switchers
    BY OwnRole, SMT DEF rollbackConfig, Own
  <1>2. /\ journal \in Journals /\ journal # None /\ journal.attempt = p /\ loc[p] \in Locals /\ pc[p] \in Locked
        /\ ~finished(journal) /\ staged[p] = loc[p].out
    BY <1>1, InSection, SMT DEF Files, SectionFile, Own
  <1>3. loc' \in [Procs -> Locals] /\ loc'[p].out = loc[p].out
    <2>1. CASE Set(p, [loc[p] EXCEPT !.failed = TRUE])
      <3>1. [loc[p] EXCEPT !.failed = TRUE] \in Locals
        BY <1>2, Zenon DEF Locals
      <3>2. [loc[p] EXCEPT !.failed = TRUE].out = loc[p].out
        BY <1>2, SMT DEF Locals
      <3> QED BY <2>1, <3>1, <3>2, SetLoc, Zenon DEF TypeOK
    <2>2. CASE UNCHANGED loc
      BY <2>2, SMT DEF TypeOK
    <2> QED BY <2>1, <2>2, Zenon DEF rollbackConfig
  <1>4. FileSound'
    BY FileUnchanged, SMT DEF rollbackConfig
  <1>4a. config' \in Configs
    BY <1>2, LocalFields, RestoreTyped, SMT DEF rollbackConfig, TypeOK
  <1>5. /\ Goto(p, "rbLive") /\ faults' \in 0 .. MaxFaults
        /\ UNCHANGED <<live, active, slot, prev, stash, staged, journal, committed, locks, env>>
    BY FaultTyped, SMT DEF rollbackConfig, TypeOK
  <1>6. pc' \in [Procs -> LockFree \cup Locked] /\ pc'[p] = "rbLive"
    BY <1>5, GotoPc, SMT DEF TypeOK, Locked
  <1>7. TypeOK'
    BY <1>3, <1>4a, <1>5, <1>6, SMT DEF TypeOK
  <1>8. AttemptFresh(p)' /\ SectionFile(p)'
    BY <1>1, <1>2, <1>3, <1>5, <1>6, SMT DEF AttemptFresh, SectionFile, Before, Own, Closing, Rec, finished
  <1>9. Files'
    BY <1>1, <1>2, <1>4, <1>5, <1>6, <1>8, StayFiles, SMT DEF Locked, Own
  <1> QED BY <1>7, <1>9

\* The rollback's write of the live credential keeps types and the file part of the invariant.
LEMMA RollbackLiveFiles == ASSUME TypeOK, Files, NEW p \in Procs, rollbackLive(p) PROVE TypeOK' /\ Files'
  <1>1. pc[p] = "rbLive" /\ pc[p] \in Own /\ p \in Switchers
    BY OwnRole, SMT DEF rollbackLive, Own
  <1>2. /\ journal \in Journals /\ journal # None /\ journal.attempt = p /\ loc[p] \in Locals /\ pc[p] \in Locked
        /\ ~finished(journal) /\ loc[p].out \in Blobs
    BY <1>1, InSection, LocalFields, SMT DEF Files, SectionFile, Own
  <1>3. live' \in Blobs /\ faults' \in 0 .. MaxFaults
    BY <1>2, FaultTyped, SMT DEF rollbackLive, TypeOK
  <1>4. FileSound'
    BY FileUnchanged, SMT DEF rollbackLive
  <1>5. CASE Finish(p)
    BY <1>2, <1>3, <1>4, <1>5, FinishTyped, FinishFiles, SMT DEF rollbackLive, TypeOK
  <1>6. CASE Goto(p, "close") /\ UNCHANGED <<loc, lock>>
    <2>1. pc' \in [Procs -> LockFree \cup Locked] /\ pc'[p] = "close"
      BY <1>6, GotoPc, SMT DEF TypeOK, Locked
    <2>2. TypeOK'
      BY <1>3, <1>6, <2>1, SMT DEF TypeOK, rollbackLive
    <2>3. AttemptFresh(p)' /\ SectionFile(p)'
      BY <1>1, <1>2, <2>1, SMT DEF AttemptFresh, SectionFile, Before, Own, Closing, Rec, rollbackLive, finished
    <2>4. Files'
      BY <1>1, <1>2, <1>4, <1>6, <2>1, <2>3, StayFiles, SMT DEF rollbackLive, Locked, Closing
    <2> QED BY <2>2, <2>4
  <1> QED BY <1>5, <1>6, Zenon DEF rollbackLive

\* The recovery's second look at the journal under the lock keeps types and the file part of the invariant.
LEMMA RecheckFiles == ASSUME TypeOK, Files, NEW p \in Procs, recheck(p) PROVE TypeOK' /\ Files'
  <1>1. pc[p] = "recheck" /\ pc[p] \in Locked /\ p \notin Switchers
    BY RoleStays, SMT DEF recheck, Locked
  <1>2. FileSound' /\ UNCHANGED <<disk, configLock, env, faults>>
    BY FileUnchanged, SMT DEF recheck
  <1>3. CASE Finish(p)
    BY <1>1, <1>2, <1>3, FinishTyped, FinishFiles, SMT DEF TypeOK
  <1>4. CASE Orphan /\ UNCHANGED <<loc, lock>> /\ \E label \in {"recLive", "backConfig", "fwdConfig"} : Goto(p, label)
    <2>1. PICK label \in {"recLive", "backConfig", "fwdConfig"} : Goto(p, label)
      BY <1>4
    <2>2. pc' \in [Procs -> LockFree \cup Locked] /\ pc'[p] = label
      BY <2>1, GotoPc, SMT DEF TypeOK, Locked
    <2>3. TypeOK'
      BY <1>2, <1>4, <2>2, SMT DEF TypeOK
    <2>4. journal # None /\ ~finished(journal)
      BY <1>4, Zenon DEF Orphan, Unfinished
    <2>5. AttemptFresh(p)' /\ SectionFile(p)'
      BY <1>1, <1>2, <2>2, <2>4, SMT DEF AttemptFresh, SectionFile, Before, Own, Closing, Rec, finished
    <2>6. Files'
      BY <1>1, <1>2, <1>4, <2>1, <2>4, <2>5, StayFiles, SMT DEF Locked, Rec
    <2> QED BY <2>3, <2>6
  <1> QED BY <1>3, <1>4, Zenon DEF recheck

\* What a recovery inside the section may assume of the journal it found.
LEMMA RecoveryAt ==
    ASSUME TypeOK, Files, NEW p \in Procs, pc[p] \in Rec
    PROVE  /\ journal \in Journals /\ journal # None /\ journal.attempt \in Switchers /\ journal.undo \in Undos
           /\ pc[p] \in Locked /\ p \notin Switchers /\ ~finished(journal)
           /\ journal.undo.credsStarted => Pending /\ StagedCopy \in Blobs /\ journal.credsHash \in Blobs
           /\ journal.from \in Accounts /\ journal.to \in Accounts
           /\ journal.undo.cfgStarted => journal.undo.credsStarted
           /\ journal.credsWritten => journal.undo.credsStarted
  <1>1. /\ journal \in Journals /\ journal # None /\ journal.attempt \in Switchers /\ journal.undo \in Undos
        /\ pc[p] \in Locked /\ p \notin Switchers /\ ~finished(journal)
    BY InSection, RoleStays, SMT DEF Files, SectionFile
  <1> QED BY <1>1, JournalFields, SMT DEF Files, FileSound, Pending, Unfinished, StagedCopy

\* Recovery's write of the staged credential keeps types and the file part of the invariant.
LEMMA RecLiveFiles == ASSUME TypeOK, Files, NEW p \in Procs, restoreLiveFromStaged(p) PROVE TypeOK' /\ Files'
  <1>1. pc[p] = "recLive" /\ pc[p] \in Rec
    BY SMT DEF restoreLiveFromStaged, Rec
  <1>2. /\ journal \in Journals /\ journal # None /\ pc[p] \in Locked /\ p \notin Switchers /\ ~finished(journal)
    BY <1>1, RecoveryAt
  <1>3. /\ live' \in Blobs /\ faults' \in 0 .. MaxFaults
        /\ UNCHANGED <<config, active, slot, prev, stash, staged, journal, committed, configLock, env>>
    BY <1>1, RecoveryAt, FaultTyped, SMT DEF restoreLiveFromStaged, LastEffect, TypeOK
  <1>4. FileSound'
    BY <1>3, FileUnchanged, SMT
  <1>5. CASE Finish(p)
    BY <1>2, <1>3, <1>4, <1>5, FinishTyped, FinishFiles, SMT DEF TypeOK
  <1>6. CASE Goto(p, "recConfig") /\ UNCHANGED <<loc, lock>>
    <2>1. pc' \in [Procs -> LockFree \cup Locked] /\ pc'[p] = "recConfig"
      BY <1>6, GotoPc, SMT DEF TypeOK, Locked
    <2>2. TypeOK'
      BY <1>3, <1>6, <2>1, SMT DEF TypeOK
    <2>3. AttemptFresh(p)' /\ SectionFile(p)'
      BY <1>2, <1>3, <2>1, SMT DEF AttemptFresh, SectionFile, Before, Own, Closing, Rec, finished
    <2>4. Files'
      BY <1>2, <1>3, <1>4, <1>6, <2>1, <2>3, StayFiles, SMT DEF Locked, Rec
    <2> QED BY <2>2, <2>4
  <1> QED BY <1>5, <1>6, Zenon DEF restoreLiveFromStaged, LastEffect

\* Recovery's reconciliation of the config keeps types and the file part of the invariant.
LEMMA RecConfigFiles == ASSUME TypeOK, Files, NEW p \in Procs, reconcileConfig(p) PROVE TypeOK' /\ Files'
  <1>1. pc[p] = "recConfig" /\ pc[p] \in Rec
    BY SMT DEF reconcileConfig, Rec
  <1>2. /\ journal \in Journals /\ journal # None /\ pc[p] \in Locked /\ p \notin Switchers /\ ~finished(journal)
    BY <1>1, RecoveryAt
  <1>3. /\ config' \in Configs /\ faults' \in 0 .. MaxFaults
        /\ UNCHANGED <<live, active, slot, prev, stash, staged, journal, committed, configLock, env>>
    BY <1>1, RecoveryAt, RestoreTyped, FaultTyped, SMT DEF reconcileConfig, LastEffect, TypeOK
  <1>4. FileSound'
    BY <1>3, FileUnchanged, SMT
  <1>5. CASE Finish(p)
    BY <1>2, <1>3, <1>4, <1>5, FinishTyped, FinishFiles, SMT DEF TypeOK
  <1>6. CASE Goto(p, "close") /\ UNCHANGED <<loc, lock>>
    <2>1. pc' \in [Procs -> LockFree \cup Locked] /\ pc'[p] = "close"
      BY <1>6, GotoPc, SMT DEF TypeOK, Locked
    <2>2. TypeOK'
      BY <1>3, <1>6, <2>1, SMT DEF TypeOK
    <2>3. AttemptFresh(p)' /\ SectionFile(p)'
      BY <1>2, <1>3, <2>1, SMT DEF AttemptFresh, SectionFile, Before, Own, Closing, Rec, finished
    <2>4. Files'
      BY <1>2, <1>3, <1>4, <1>6, <2>1, <2>3, StayFiles, SMT DEF Locked, Closing
    <2> QED BY <2>2, <2>4
  <1> QED BY <1>5, <1>6, Zenon DEF reconcileConfig, LastEffect

\* resolve --back's config write keeps types and the file part of the invariant.
LEMMA BackConfigFiles == ASSUME TypeOK, Files, NEW p \in Procs, resolveBackConfig(p) PROVE TypeOK' /\ Files'
  <1>1. pc[p] = "backConfig" /\ pc[p] \in Rec
    BY SMT DEF resolveBackConfig, Rec
  <1>2. /\ journal \in Journals /\ journal # None /\ pc[p] \in Locked /\ p \notin Switchers /\ ~finished(journal)
    BY <1>1, RecoveryAt
  <1>3. /\ config' \in Configs /\ faults' \in 0 .. MaxFaults
        /\ UNCHANGED <<live, active, slot, prev, stash, staged, journal, committed, configLock, env>>
    BY <1>1, RecoveryAt, RestoreTyped, FaultTyped, SMT DEF resolveBackConfig, LastEffect, TypeOK
  <1>4. FileSound'
    BY <1>3, FileUnchanged, SMT
  <1>5. CASE Finish(p)
    BY <1>2, <1>3, <1>4, <1>5, FinishTyped, FinishFiles, SMT DEF TypeOK
  <1>6. CASE Goto(p, "backLive") /\ UNCHANGED <<loc, lock>>
    <2>1. pc' \in [Procs -> LockFree \cup Locked] /\ pc'[p] = "backLive"
      BY <1>6, GotoPc, SMT DEF TypeOK, Locked
    <2>2. TypeOK'
      BY <1>3, <1>6, <2>1, SMT DEF TypeOK
    <2>3. AttemptFresh(p)' /\ SectionFile(p)'
      BY <1>2, <1>3, <2>1, SMT DEF AttemptFresh, SectionFile, Before, Own, Closing, Rec, finished
    <2>4. Files'
      BY <1>2, <1>3, <1>4, <1>6, <2>1, <2>3, StayFiles, SMT DEF Locked, Rec
    <2> QED BY <2>2, <2>4
  <1> QED BY <1>5, <1>6, Zenon DEF resolveBackConfig, LastEffect

\* resolve --back's write of the live credential keeps types and the file part of the invariant.
LEMMA BackLiveFiles == ASSUME TypeOK, Files, NEW p \in Procs, resolveBackLive(p) PROVE TypeOK' /\ Files'
  <1>1. pc[p] = "backLive" /\ pc[p] \in Rec
    BY SMT DEF resolveBackLive, Rec
  <1>2. /\ journal \in Journals /\ journal # None /\ pc[p] \in Locked /\ p \notin Switchers /\ ~finished(journal)
    BY <1>1, RecoveryAt
  <1>3. /\ live' \in Blobs /\ faults' \in 0 .. MaxFaults
        /\ UNCHANGED <<config, active, slot, prev, stash, staged, journal, committed, configLock, env>>
    BY <1>1, RecoveryAt, FaultTyped, SMT DEF resolveBackLive, LastEffect, TypeOK
  <1>4. FileSound'
    BY <1>3, FileUnchanged, SMT
  <1>5. CASE Finish(p)
    BY <1>2, <1>3, <1>4, <1>5, FinishTyped, FinishFiles, SMT DEF TypeOK
  <1>6. CASE Goto(p, "close") /\ UNCHANGED <<loc, lock>>
    <2>1. pc' \in [Procs -> LockFree \cup Locked] /\ pc'[p] = "close"
      BY <1>6, GotoPc, SMT DEF TypeOK, Locked
    <2>2. TypeOK'
      BY <1>3, <1>6, <2>1, SMT DEF TypeOK
    <2>3. AttemptFresh(p)' /\ SectionFile(p)'
      BY <1>2, <1>3, <2>1, SMT DEF AttemptFresh, SectionFile, Before, Own, Closing, Rec, finished
    <2>4. Files'
      BY <1>2, <1>3, <1>4, <1>6, <2>1, <2>3, StayFiles, SMT DEF Locked, Closing
    <2> QED BY <2>2, <2>4
  <1> QED BY <1>5, <1>6, Zenon DEF resolveBackLive, LastEffect

\* What an admitted resolve --forward makes of the journal.
Forwarded ==
    /\ SameFile(journal, journal') /\ journal' \in Journals /\ journal' # None
    /\ journal'.committed = journal.committed /\ journal'.closed = journal.closed
    /\ journal'.credsWritten = journal.credsWritten
    /\ journal'.undo.credsStarted /\ journal.undo.credsStarted /\ journal'.credsHash = journal.credsHash

\* resolve --forward's intent is the only change it makes to the journal.
LEMMA ForwardJournal ==
    ASSUME TypeOK, Files, NEW p \in Procs, pc[p] = "fwdConfig", ForwardAdmits,
           \/ UNCHANGED journal
           \/ journal' = IF journal.undo.cfgStarted THEN journal
                         ELSE [journal EXCEPT !.undo = ConfigIntent(@, journal.to)]
    PROVE  /\ Forwarded
           /\ journal' = journal \/ journal'.undo = ConfigIntent(journal.undo, journal.to)
  <1>1. /\ journal \in Journals /\ journal # None /\ journal.undo \in Undos
        /\ journal.undo.credsStarted /\ journal.to \in Accounts
    BY RecoveryAt, SMT DEF Rec, ForwardAdmits
  <1>2. ConfigIntent(journal.undo, journal.to) \in Undos /\ ConfigIntent(journal.undo, journal.to).credsStarted
    BY <1>1, ConfigIntentTyped, SMT DEF TypeOK
  <1>3. CASE journal' = journal
    BY <1>1, <1>3, SMT DEF Forwarded, SameFile
  <1>4. CASE journal' = [journal EXCEPT !.undo = ConfigIntent(journal.undo, journal.to)]
    <2>1. /\ SameFile(journal, journal') /\ journal'.undo = ConfigIntent(journal.undo, journal.to)
          /\ journal'.committed = journal.committed /\ journal'.closed = journal.closed
          /\ journal'.credsWritten = journal.credsWritten /\ journal'.credsHash = journal.credsHash
      BY <1>1, <1>2, <1>4, JournalUndo
    <2>2. journal' \in Journals /\ journal' # None
      BY <2>1, NoneAssumption, Zenon DEF SameFile
    <2> QED BY <1>1, <1>2, <2>1, <2>2, Zenon DEF Forwarded
  <1> QED BY <1>3, <1>4, Zenon

\* resolve --forward's config intent keeps types and the file part of the invariant.
LEMMA FwdConfigFiles == ASSUME TypeOK, Files, NEW p \in Procs, resolveForwardConfig(p) PROVE TypeOK' /\ Files'
  <1>1. pc[p] = "fwdConfig" /\ pc[p] \in Rec
    BY SMT DEF resolveForwardConfig, Rec
  <1>2. /\ journal \in Journals /\ journal # None /\ pc[p] \in Locked /\ p \notin Switchers /\ ~finished(journal)
    BY <1>1, RecoveryAt
  <1>3. UNCHANGED <<live, config, active, slot, prev, stash, staged, committed, env>>
    BY Zenon DEF resolveForwardConfig
  <1>4. CASE Finish(p) /\ UNCHANGED <<journal, configLock, faults>>
    <2>1. FileSound'
      BY <1>3, <1>4, FileUnchanged, SMT
    <2> QED BY <1>2, <1>3, <1>4, <2>1, FinishTyped, FinishFiles, SMT DEF TypeOK
  <1>5. CASE ForwardAdmits /\ (\/ Goto(p, "fwdWrite") /\ UNCHANGED <<loc, lock, faults>>
                               \/ faults < MaxFaults /\ faults' = faults + 1 /\ Finish(p))
             /\ configLock' = IF pc'[p] = "fwdWrite" THEN p ELSE None
    <2>1. Forwarded
      <3>1. \/ UNCHANGED journal
            \/ journal' = IF journal.undo.cfgStarted THEN journal
                          ELSE [journal EXCEPT !.undo = ConfigIntent(@, journal.to)]
        BY <1>5, Zenon DEF resolveForwardConfig, LastEffect
      <3> QED BY <1>1, <1>5, <3>1, ForwardJournal, Zenon
    <2>2. FileSound'
      BY <1>1, <1>2, <1>3, <2>1, RecoveryAt, SMT DEF Forwarded, FileSound, SameFile, Pending, Unfinished, finished, StagedCopy
    <2>3. CASE Finish(p) /\ faults < MaxFaults /\ faults' = faults + 1
      <3>1. TypeOK'
        BY <1>3, <1>5, <2>1, <2>3, FinishTyped, FaultTyped, SMT DEF TypeOK, Forwarded
      <3>2. Files'
        BY <1>2, <1>3, <2>1, <2>2, <2>3, FinishFiles, SMT DEF Forwarded, SameFile
      <3> QED BY <3>1, <3>2
    <2>4. CASE Goto(p, "fwdWrite") /\ UNCHANGED <<loc, lock, faults>>
      <3>1. pc' \in [Procs -> LockFree \cup Locked] /\ pc'[p] = "fwdWrite"
        BY <2>4, GotoPc, SMT DEF TypeOK, Locked
      <3>2. TypeOK'
        BY <1>3, <1>5, <2>1, <2>4, <3>1, SMT DEF TypeOK, Forwarded
      <3>3. AttemptFresh(p)' /\ SectionFile(p)'
        BY <1>2, <1>3, <2>1, <3>1, SMT DEF AttemptFresh, SectionFile, Before, Own, Closing, Rec, finished, Forwarded, SameFile
      <3>4. Files'
        BY <1>2, <1>3, <2>1, <2>2, <2>4, <3>1, <3>3, StayFiles, SMT DEF Locked, Rec, Forwarded, SameFile
      <3> QED BY <3>2, <3>4
    <2> QED BY <1>5, <2>3, <2>4
  <1> QED BY <1>4, <1>5, Zenon DEF resolveForwardConfig, LastEffect

\* resolve --forward's config write keeps types and the file part of the invariant.
LEMMA FwdWriteFiles == ASSUME TypeOK, Files, NEW p \in Procs, resolveForwardWrite(p) PROVE TypeOK' /\ Files'
  <1>1. pc[p] = "fwdWrite" /\ pc[p] \in Rec
    BY SMT DEF resolveForwardWrite, Rec
  <1>2. /\ journal \in Journals /\ journal # None /\ pc[p] \in Locked /\ p \notin Switchers /\ ~finished(journal)
    BY <1>1, RecoveryAt
  <1>3. /\ config' \in Configs /\ faults' \in 0 .. MaxFaults /\ configLock' = None
        /\ UNCHANGED <<live, active, slot, prev, stash, staged, journal, committed, env>>
    BY <1>1, RecoveryAt, UndoFields, FaultTyped, SMT DEF resolveForwardWrite, LastEffect, TypeOK
  <1>4. FileSound'
    BY <1>3, FileUnchanged, SMT
  <1>5. CASE Finish(p)
    BY <1>2, <1>3, <1>4, <1>5, FinishTyped, FinishFiles, SMT DEF TypeOK
  <1>6. CASE Goto(p, "fwdCommit") /\ UNCHANGED <<loc, lock>>
    <2>1. pc' \in [Procs -> LockFree \cup Locked] /\ pc'[p] = "fwdCommit"
      BY <1>6, GotoPc, SMT DEF TypeOK, Locked
    <2>2. TypeOK'
      BY <1>3, <1>6, <2>1, SMT DEF TypeOK
    <2>3. AttemptFresh(p)' /\ SectionFile(p)'
      BY <1>2, <1>3, <2>1, SMT DEF AttemptFresh, SectionFile, Before, Own, Closing, Rec, finished
    <2>4. Files'
      BY <1>2, <1>3, <1>4, <1>6, <2>1, <2>3, StayFiles, SMT DEF Locked, Rec
    <2> QED BY <2>2, <2>4
  <1> QED BY <1>5, <1>6, Zenon DEF resolveForwardWrite, LastEffect

\* resolve --forward's commit keeps types and the file part of the invariant.
LEMMA FwdCommitFiles == ASSUME TypeOK, Files, NEW p \in Procs, resolveForwardCommit(p) PROVE TypeOK' /\ Files'
  <1>1. pc[p] = "fwdCommit" /\ pc[p] \in Rec
    BY SMT DEF resolveForwardCommit, Rec
  <1>2. /\ journal \in Journals /\ journal # None /\ pc[p] \in Locked /\ p \notin Switchers /\ ~finished(journal)
    BY <1>1, RecoveryAt
  <1>3. committed \subseteq committed' /\ committed' \subseteq committed \cup {journal.attempt}
    BY SMT DEF resolveForwardCommit, commitClaudeSwitch
  <1>4. FileSound'
    BY <1>3, FileUnchanged, SMT DEF resolveForwardCommit
  <1>5. CASE commitClaudeSwitch(journal) /\ Goto(p, "committed") /\ UNCHANGED <<loc, lock, faults>>
    <2>1. pc' \in [Procs -> LockFree \cup Locked] /\ pc'[p] = "committed"
      BY <1>5, GotoPc, SMT DEF TypeOK, Locked
    <2>2. TypeOK'
      BY <1>2, <1>5, <2>1, CommitTyped, SMT DEF TypeOK, resolveForwardCommit
    <2>3. finished(journal)'
      BY <1>5, SMT DEF resolveForwardCommit, commitClaudeSwitch, finished
    <2>4. AttemptFresh(p)' /\ SectionFile(p)'
      BY <1>1, <1>2, <2>1, <2>3, SMT DEF AttemptFresh, SectionFile, Before, Own, Closing, Rec, resolveForwardCommit
    <2>5. Files'
      BY <1>1, <1>2, <1>3, <1>4, <1>5, <2>1, <2>4, StayFiles, SMT DEF resolveForwardCommit, Locked, Closing
    <2> QED BY <2>2, <2>5
  <1>6. CASE Finish(p) /\ faults < MaxFaults /\ faults' = faults + 1 /\ UNCHANGED <<committed, active>>
    <2>1. TypeOK'
      BY <1>6, FinishTyped, FaultTyped, SMT DEF TypeOK, resolveForwardCommit
    <2>2. Files'
      BY <1>2, <1>3, <1>4, <1>6, FinishFiles, SMT DEF resolveForwardCommit
    <2> QED BY <2>1, <2>2
  <1> QED BY <1>5, <1>6, Zenon DEF resolveForwardCommit

\* A step of one process that leaves the files alone.
LEMMA FreeFiles ==
    ASSUME TypeOK, Files, NEW p \in Procs, UNCHANGED <<journal, staged, committed>>,
           \A q \in Procs : q # p => pc'[q] = pc[q] /\ loc'[q] = loc[q],
           \A q \in Procs : q # p => (lock' = q <=> lock = q),
           LockHeld(p)', AttemptFresh(p)', SectionFile(p)'
    PROVE  Files'
  <1>1. FileSound'
    BY FileUnchanged
  <1>2. ASSUME NEW q \in Procs, q # p PROVE LockHeld(q)' /\ AttemptFresh(q)' /\ SectionFile(q)'
    <2>1. LockHeld(q) /\ AttemptFresh(q) /\ SectionFile(q) /\ pc'[q] = pc[q] /\ loc'[q] = loc[q]
      BY <1>2 DEF Files
    <2>2. LockHeld(q)'
      BY <1>2, <2>1, SMT DEF LockHeld
    <2>3. AttemptFresh(q)' /\ SectionFile(q)'
      BY <2>1, SMT DEF AttemptFresh, SectionFile, finished
    <2> QED BY <2>2, <2>3
  <1> QED BY <1>1, <1>2, SMT DEF Files

\* A step of one process outside the locked section, to another such point.
LEMMA OutsideFiles ==
    ASSUME TypeOK, Files, NEW p \in Procs, UNCHANGED <<journal, staged, committed>>, pc[p] \notin Locked,
           \A q \in Procs : q # p => pc'[q] = pc[q] /\ loc'[q] = loc[q],
           lock' = lock \/ (lock = None /\ lock' = None),
           p \in Switchers => pc'[p] \in {"done", "crashed"} \/ (pc[p] \in Before /\ pc'[p] \in {"prepare", "freshen", "persist", "lock"}),
           p \notin Switchers => pc'[p] \in {"idle", "lock", "done", "crashed"}
    PROVE  Files'
  <1>1. LockHeld(p)'
    BY SMT DEF Files, LockHeld, Locked, Before
  <1>2. AttemptFresh(p)' /\ SectionFile(p)'
    BY SMT DEF Files, AttemptFresh, SectionFile, Before, Own, Closing, Rec
  <1> QED BY <1>1, <1>2, FreeFiles, SMT

\* A switch's steps before the lock keep types and the file part of the invariant.
LEMMA SwitchOutsideFiles ==
    ASSUME TypeOK, Files, NEW p \in Procs, p \in Switchers,
           start(p) \/ prepareClaudeSwitch(p) \/ postRefresh(p) \/ alreadyFresh(p) \/ persistRefresh(p) \/ refuse(p)
    PROVE  TypeOK' /\ Files'
  <1>1. TypeOK'
    BY TypeStart, TypePrepare, TypePost, TypeFresh, TypePersist, TypeQuit, Zenon
  <1>2. pc[p] \in {"start", "prepare", "freshen", "persist", "lock"} /\ pc[p] \notin Locked /\ pc[p] \in Before /\ p \notin Daemons
    <2>1. pc[p] \in {"start", "prepare", "freshen", "persist", "lock"}
      BY Zenon DEF start, prepareClaudeSwitch, postRefresh, alreadyFresh, persistRefresh, refuse
    <2> QED BY <2>1, ProcsAssumption, SMT DEF Locked, Before
  <1>3. UNCHANGED <<journal, staged, committed>>
    BY Zenon DEF start, prepareClaudeSwitch, postRefresh, alreadyFresh, persistRefresh, refuse
  <1>4. lock # p
    BY <1>2, SMT DEF Files, LockHeld
  <1>5. \/ Finish(p)
        \/ /\ lock' = lock /\ \E label \in {"prepare", "freshen", "persist", "lock"} : Goto(p, label)
           /\ \E l : Set(p, l)
    BY Zenon DEF start, prepareClaudeSwitch, postRefresh, alreadyFresh, persistRefresh, refuse
  <1>6. \A q \in Procs : q # p => pc'[q] = pc[q] /\ loc'[q] = loc[q]
    BY <1>5, SMT DEF Finish, Goto, Set, TypeOK
  <1>7. lock' = lock /\ pc'[p] \in {"done", "prepare", "freshen", "persist", "lock"}
    BY <1>2, <1>4, <1>5, SMT DEF Finish, Goto, TypeOK
  <1>8. Files'
    BY <1>2, <1>3, <1>6, <1>7, OutsideFiles, SMT
  <1> QED BY <1>1, <1>8

\* The start of a recovery keeps types and the file part of the invariant.
LEMMA BeginFiles == ASSUME TypeOK, Files, NEW p \in Procs, p \notin Switchers, beginRecovery(p) PROVE TypeOK' /\ Files'
  <1>1. PICK forward \in BOOLEAN : Set(p, [NoLocals EXCEPT !.forward = forward])
    BY Zenon DEF beginRecovery
  <1>2. [NoLocals EXCEPT !.forward = forward] \in Locals
    BY Constants, Zenon DEF Locals
  <1>3. loc' \in [Procs -> Locals] /\ \A q \in Procs : q # p => loc'[q] = loc[q]
    BY <1>1, <1>2, SetLoc, Zenon DEF TypeOK
  <1>4. pc' \in [Procs -> LockFree \cup Locked] /\ pc'[p] = "lock" /\ \A q \in Procs : q # p => pc'[q] = pc[q]
    BY GotoPc, SMT DEF beginRecovery, TypeOK, LockFree
  <1>5. TypeOK'
    BY <1>3, <1>4, SMT DEF TypeOK, beginRecovery
  <1>6. pc[p] \notin Locked
    BY SMT DEF beginRecovery, Locked
  <1>7. Files'
    BY <1>3, <1>4, <1>6, OutsideFiles, SMT DEF beginRecovery
  <1> QED BY <1>5, <1>7

\* An abandoned recovery keeps types and the file part of the invariant.
LEMMA GiveUpFiles == ASSUME TypeOK, Files, NEW p \in Procs, p \notin Switchers, giveUpRecovery(p) PROVE TypeOK' /\ Files'
  <1>1. TypeOK'
    BY TypeQuit
  <1>2. pc[p] = "lock" /\ Finish(p) /\ UNCHANGED <<disk, configLock, env, faults>>
    BY Zenon DEF giveUpRecovery
  <1>3. /\ pc'[p] \in {"idle", "done"} /\ lock' = IF lock = p THEN None ELSE lock
        /\ \A q \in Procs : q # p => pc'[q] = pc[q] /\ loc'[q] = loc[q]
    BY <1>2, FinishTyped, SMT
  <1>4. lock # p
    BY <1>2, SMT DEF Files, LockHeld, Locked
  <1>5. Files'
    BY <1>2, <1>3, <1>4, OutsideFiles, SMT DEF Locked
  <1> QED BY <1>1, <1>5

\* The acquisition of the lock keeps types and the file part of the invariant.
LEMMA AcquireFiles == ASSUME TypeOK, Files, NEW p \in Procs, acquire(p) PROVE TypeOK' /\ Files'
  <1>1. TypeOK'
    BY TypeAcquire
  <1>2. /\ pc[p] = "lock" /\ lock = None /\ lock' = p
        /\ pc'[p] = IF p \in Switchers THEN "step4" ELSE "recheck"
        /\ \A q \in Procs : q # p => pc'[q] = pc[q]
        /\ UNCHANGED <<journal, staged, committed, loc>>
    BY GotoPc, SMT DEF acquire, TypeOK, Locked
  <1>3. \A q \in Procs : q # p => (lock' = q <=> lock = q)
    BY <1>2, ProcsAssumption, SMT
  <1>4. LockHeld(p)' /\ AttemptFresh(p)' /\ SectionFile(p)'
    BY <1>2, SMT DEF Files, LockHeld, AttemptFresh, SectionFile, Before, Own, Closing, Rec, Locked
  <1>5. Files'
    BY <1>2, <1>3, <1>4, FreeFiles, SMT
  <1> QED BY <1>1, <1>5

\* Step 4 (the journal and active checks under the lock) keeps types and the file part of the invariant.
LEMMA Step4Files == ASSUME TypeOK, Files, NEW p \in Procs, step4(p) PROVE TypeOK' /\ Files'
  <1>1. TypeOK' /\ pc[p] = "step4" /\ pc[p] \in Locked /\ p \in Switchers /\ AttemptFresh(p) /\ lock = p
    <2>1. pc[p] = "step4"
      BY Zenon DEF step4
    <2> QED BY <2>1, TypeStep4, RoleStays, SMT DEF Locked, Files, LockHeld
  <1>2. UNCHANGED <<disk, configLock, env, faults>> /\ FileSound'
    BY FileUnchanged, SMT DEF step4
  <1>3. CASE Finish(p)
    BY <1>1, <1>2, <1>3, FinishFiles, SMT
  <1>4. CASE journal # None /\ ~Unfinished /\ Goto(p, "unstage4") /\ UNCHANGED <<loc, lock>>
    <2>1. pc'[p] = "unstage4"
      BY <1>4, GotoPc, SMT DEF TypeOK, Locked
    <2>2. AttemptFresh(p)' /\ SectionFile(p)'
      BY <1>1, <1>2, <1>4, <2>1, SMT DEF AttemptFresh, SectionFile, Before, Own, Closing, Rec, finished, Unfinished
    <2> QED BY <1>1, <1>2, <1>4, <2>1, <2>2, StayFiles, SMT DEF Locked, Before
  <1>5. CASE /\ lock' = None /\ Goto(p, "start")
             /\ Set(p, [NoLocals EXCEPT !.to = loc[p].to, !.republish = loc[p].republish,
                                        !.verdict = loc[p].verdict, !.retried = TRUE])
    <2>1. pc'[p] = "start" /\ \A q \in Procs : q # p => pc'[q] = pc[q] /\ loc'[q] = loc[q]
      BY <1>5, SMT DEF TypeOK, Goto, Set
    <2>2. \A q \in Procs : q # p => (lock' = q <=> lock = q)
      BY <1>1, <1>5, ProcsAssumption, SMT
    <2>3. LockHeld(p)' /\ AttemptFresh(p)' /\ SectionFile(p)'
      BY <1>1, <1>2, <1>5, <2>1, ProcsAssumption, SMT
         DEF LockHeld, AttemptFresh, SectionFile, Before, Own, Closing, Rec, Locked
    <2> QED BY <1>1, <1>2, <2>1, <2>2, <2>3, FreeFiles, SMT
  <1>6. CASE journal = None /\ Goto(p, "step5") /\ UNCHANGED lock
    <2>1. pc'[p] = "step5"
      BY <1>6, GotoPc, SMT DEF TypeOK, Locked
    <2>2. AttemptFresh(p)' /\ SectionFile(p)'
      BY <1>1, <1>2, <1>6, <2>1, SMT DEF AttemptFresh, SectionFile, Before, Own, Closing, Rec
    <2> QED BY <1>1, <1>2, <1>6, <2>1, <2>2, StayFiles, SMT DEF Locked, Before
  <1> QED BY <1>3, <1>4, <1>5, <1>6, Zenon DEF step4

\* Step 5 (the outgoing credential kept, stashed or refused) keeps types and the file part of the invariant.
LEMMA Step5Files == ASSUME TypeOK, Files, NEW p \in Procs, step5(p) PROVE TypeOK' /\ Files'
  <1>1. TypeOK' /\ pc[p] = "step5" /\ pc[p] \in Locked /\ p \in Switchers /\ AttemptFresh(p) /\ journal = None
    BY TypeStep5, RoleStays, SMT DEF step5, Locked, Files, SectionFile
  <1>2. UNCHANGED <<journal, staged, committed>> /\ FileSound'
    BY FileUnchanged, SMT DEF step5
  <1>3. CASE Finish(p)
    BY <1>1, <1>2, <1>3, FinishFiles, SMT
  <1>4. CASE Goto(p, "step6") /\ UNCHANGED <<loc, lock>>
    <2>1. pc'[p] = "step6"
      BY <1>4, GotoPc, SMT DEF TypeOK, Locked
    <2>2. AttemptFresh(p)' /\ SectionFile(p)'
      BY <1>1, <1>2, <1>4, <2>1, SMT DEF AttemptFresh, SectionFile, Before, Own, Closing, Rec
    <2> QED BY <1>1, <1>2, <1>4, <2>1, <2>2, StayFiles, SMT DEF Locked, Before
  <1> QED BY <1>3, <1>4, Zenon DEF step5

\* Step 6 (the target slot re-read and the journal written) keeps types and the file part of the invariant.
LEMMA Step6Files == ASSUME TypeOK, Files, NEW p \in Procs, step6(p) PROVE TypeOK' /\ Files'
  <1>1. pc[p] = "step6" /\ pc[p] \in Locked /\ p \in Switchers /\ AttemptFresh(p) /\ journal = None
    BY RoleStays, SMT DEF step6, Locked, Files, SectionFile
  <1>2. TypeOK' /\ UNCHANGED <<staged, committed>>
    BY <1>1, TypeStep6, SMT DEF step6
  <1>3. CASE Finish(p) /\ UNCHANGED journal
    <2>1. FileSound'
      BY <1>2, <1>3, FileUnchanged, SMT
    <2> QED BY <1>1, <1>2, <1>3, <2>1, FinishFiles, SMT
  <1>4. CASE /\ journal' = [attempt |-> p, from |-> loc[p].from, to |-> loc[p].to,
                            republish |-> loc[p].republish, undo |-> NoUndo, credsHash |-> None,
                            credsWritten |-> FALSE, closed |-> "open", committed |-> FALSE]
             /\ Goto(p, "stage") /\ UNCHANGED lock
    <2>1. /\ journal'.attempt = p /\ journal'.undo = NoUndo /\ ~journal'.credsWritten
          /\ journal'.closed = "open" /\ ~journal'.committed
      BY <1>4, SMT
    <2>2. journal' \in Journals
      <3>1. loc[p].to \in Accounts /\ loc[p].from \in Accounts /\ loc[p].republish \in BOOLEAN
        BY LocalFields, SMT DEF TypeOK
      <3> QED BY <1>1, <1>4, <3>1, Constants, Zenon DEF Journals
    <2>3. journal' # None /\ ~journal'.undo.credsStarted /\ ~journal'.undo.cfgStarted
      BY <2>1, <2>2, NoneAssumption, SMT DEF NoUndo
    <2>4. pc'[p] = "stage"
      BY <1>4, GotoPc, SMT DEF TypeOK, Locked
    <2>5. FileSound'
      BY <2>1, <2>3, SMT DEF FileSound, Pending
    <2>6. ~finished(journal)'
      BY <1>1, <1>2, <2>1, SMT DEF finished, AttemptFresh, Before
    <2>7. AttemptFresh(p)' /\ SectionFile(p)'
      BY <1>1, <1>2, <2>1, <2>3, <2>4, <2>6, SMT DEF AttemptFresh, SectionFile, Before, Own, Closing, Rec
    <2>8. Files'
      BY <1>1, <1>2, <1>4, <2>1, <2>4, <2>5, <2>7, StayFiles, SMT DEF Locked, Own
    <2> QED BY <1>2, <2>8
  <1> QED BY <1>3, <1>4, Zenon DEF step6

\* A crash keeps types and the file part of the invariant.
LEMMA CrashFiles == ASSUME TypeOK, Files, NEW p \in Procs, crash(p) PROVE TypeOK' /\ Files'
  <1>1. /\ UNCHANGED <<disk, newest, issued, settings, misadopted>> /\ Set(p, NoLocals)
        /\ lock' = IF lock = p THEN Dead ELSE lock
        /\ configLock' = IF configLock = p THEN Dead ELSE configLock
    BY Zenon DEF crash
  <1>2. PICK label \in {"idle", "crashed"} :
          Goto(p, label) /\ (label = "idle" <=> p \in Daemons) /\ faults' \in 0 .. MaxFaults
    BY FaultTyped, SMT DEF crash, TypeOK
  <1>3. /\ pc' \in [Procs -> LockFree \cup Locked] /\ loc' \in [Procs -> Locals] /\ pc'[p] = label
        /\ \A q \in Procs : q # p => pc'[q] = pc[q] /\ loc'[q] = loc[q]
    BY <1>1, <1>2, Constants, GotoPc, SetLoc, SMT DEF TypeOK, LockFree
  <1>4. gone' \subseteq Blobs
    BY LocalFields, SMT DEF crash, TypeOK
  <1>5. TypeOK'
    BY <1>1, <1>2, <1>3, <1>4, SMT DEF TypeOK
  <1>6. LockHeld(p)' /\ AttemptFresh(p)' /\ SectionFile(p)'
    BY <1>1, <1>2, <1>3, ProcsAssumption, SMT
       DEF LockHeld, AttemptFresh, SectionFile, Locked, Before, Own, Closing, Rec, Procs
  <1>7. \A q \in Procs : q # p => (lock' = q <=> lock = q)
    BY <1>1, ProcsAssumption, SMT
  <1>8. Files'
    BY <1>1, <1>3, <1>6, <1>7, FreeFiles, SMT
  <1> QED BY <1>5, <1>8

\* The file part survives when neither a file nor a process moves.
LEMMA Quiet ==
    ASSUME TypeOK, Files, UNCHANGED <<journal, staged, committed, pc, loc>>,
           \A q \in Procs : lock' = q <=> lock = q
    PROVE  Files'
  <1>1. FileSound'
    BY FileUnchanged
  <1>2. ASSUME NEW q \in Procs PROVE LockHeld(q)' /\ AttemptFresh(q)' /\ SectionFile(q)'
    BY SMT DEF Files, LockHeld, AttemptFresh, SectionFile, finished
  <1> QED BY <1>1, <1>2 DEF Files

\* The release of a dead holder's lock keeps types and the file part of the invariant.
LEMMA StaleFiles == ASSUME TypeOK, Files, lockStale PROVE TypeOK' /\ Files'
  <1>1. TypeOK'
    BY SMT DEF TypeOK, lockStale
  <1>2. Files'
    BY ProcsAssumption, Quiet, SMT DEF lockStale
  <1> QED BY <1>1, <1>2

\* External writes: what they issue.
LEMMA CcRefreshed ==
    ASSUME TypeOK, ccRefresh
    PROVE  \E c \in Creds :
             /\ Issue(live.acct, c) /\ live' = c /\ live.acct \in People /\ live \in Creds
             /\ c.acct = live.acct /\ c.n = live.n + 1 /\ c.fam \in {live.fam, live.fam + 1}
  <1>1. live \in Creds
    BY SMT DEF ccRefresh, TypeOK, Blobs
  <1>2. live.acct \in People /\ live.n \in Nat /\ live.fam \in Nat
    BY <1>1, SMT DEF Creds
  <1> DEFINE d == [live EXCEPT !.n = @ + 1]
  <1>3. d \in Creds /\ d.acct = live.acct /\ d.n = live.n + 1 /\ d.fam = live.fam
    <2> DEFINE m == live.n + 1
    <2>1. d = [live EXCEPT !.n = m] /\ m \in Nat
      BY <1>2, SMT
    <2> HIDE DEF m, d
    <2>2. [live EXCEPT !.n = m] \in Creds
      BY <1>1, <2>1, Zenon DEF Creds
    <2>3. [live EXCEPT !.n = m].acct = live.acct /\ [live EXCEPT !.n = m].n = m /\ [live EXCEPT !.n = m].fam = live.fam
      BY <1>1, SMT DEF Creds
    <2> QED BY <2>1, <2>2, <2>3, Zenon DEF m
  <1>4. PICK c \in {d, Rotated(live)} : Issue(live.acct, c) /\ live' = c
    BY Zenon DEF ccRefresh
  <1> HIDE DEF d
  <1>5. CASE c = d
    BY <1>1, <1>2, <1>3, <1>4, <1>5
  <1>6. CASE c = Rotated(live)
    BY <1>1, <1>2, <1>4, <1>6, RotatedTyped, SMT
  <1> QED BY <1>4, <1>5, <1>6

\* Claude Code's own refresh keeps types and the file part of the invariant.
LEMMA RefreshFiles == ASSUME TypeOK, Files, ccRefresh PROVE TypeOK' /\ Files'
  <1>1. PICK c \in Creds : Issue(live.acct, c) /\ live' = c /\ live.acct \in People
    BY CcRefreshed
  <1>2. newest' \in [People -> Creds] /\ issued' \in 0 .. MaxIssued /\ live' \in Blobs
    BY <1>1, IssueTyped, SMT DEF Blobs
  <1>3. TypeOK'
    BY <1>2, SMT DEF TypeOK, ccRefresh
  <1>4. Files'
    BY Quiet, SMT DEF ccRefresh
  <1> QED BY <1>3, <1>4

\* A login in Claude Code keeps types and the file part of the invariant.
LEMMA LoginFiles == ASSUME TypeOK, Files, NEW a \in LoginAccounts, ccLogin(a) PROVE TypeOK' /\ Files'
  <1>1. a \in People /\ newest[a] \in Creds
    BY LoginAssumption, SMT DEF TypeOK
  <1>2. Rotated(newest[a]) \in Creds /\ Rotated(newest[a]) \in Blobs
    BY <1>1, RotatedTyped
  <1>3. newest' \in [People -> Creds] /\ issued' \in 0 .. MaxIssued /\ live' \in Blobs
    BY <1>1, <1>2, IssueTyped, SMT DEF ccLogin
  <1>4. config' \in Configs /\ gone' \subseteq Blobs
    BY <1>1, SMT DEF ccLogin, TypeOK, Configs
  <1>5. TypeOK'
    BY <1>3, <1>4, SMT DEF TypeOK, ccLogin
  <1>6. Files'
    BY Quiet, SMT DEF ccLogin
  <1> QED BY <1>5, <1>6

\* Claude Code's settings write keeps the account the config names.
LEMMA SettingsKept ==
    ASSUME TypeOK, ccSettings
    PROVE  config' \in Configs /\ config'.oauth = config.oauth
  <1> DEFINE r == config.rev + 1
  <1>1. r \in Nat /\ config \in Configs
    BY SMT DEF TypeOK, Configs
  <1>2. config' = [config EXCEPT !.rev = r]
    BY Zenon DEF ccSettings
  <1> HIDE DEF r
  <1>3. [config EXCEPT !.rev = r] \in Configs
    BY <1>1, Zenon DEF Configs
  <1>4. [config EXCEPT !.rev = r].oauth = config.oauth
    BY <1>1, SMT DEF Configs
  <1> QED BY <1>2, <1>3, <1>4, Zenon

\* Claude Code's settings write keeps types and the file part of the invariant.
LEMMA SettingsFiles == ASSUME TypeOK, Files, ccSettings PROVE TypeOK' /\ Files'
  <1>1. TypeOK'
    BY SettingsKept, Bounds, SMT DEF TypeOK, ccSettings
  <1>2. Files'
    BY Quiet, SMT DEF ccSettings
  <1> QED BY <1>1, <1>2

\* Every step keeps types and the file part of the invariant.
LEMMA FilesStep ==
    ASSUME TypeOK, Files, Next
    PROVE  TypeOK' /\ Files'
  <1>1. ASSUME NEW p \in Procs, Step(p) PROVE TypeOK' /\ Files'
    <2>1. CASE acquire(p)
      BY <2>1, AcquireFiles
    <2>2. CASE p \in Switchers /\ SwitchStep(p)
      <3>1. CASE start(p) \/ prepareClaudeSwitch(p) \/ postRefresh(p) \/ alreadyFresh(p) \/ persistRefresh(p) \/ refuse(p)
        BY <2>2, <3>1, SwitchOutsideFiles
      <3>2. CASE step4(p) \/ step5(p) \/ step6(p) \/ writeStagedRollback(p) \/ stageFailed(p)
        BY <3>2, Step4Files, Step5Files, Step6Files, StageFiles, StageFailedFiles
      <3>3. CASE intent7(p) \/ write7(p) \/ mark7(p) \/ intent8(p) \/ write8(p) \/ commit9(p)
        BY <3>3, Intent7Files, Write7Files, Mark7Files, Intent8Files, Write8Files, Commit9Files
      <3>4. CASE rollbackSource(p) \/ rollbackConfig(p) \/ rollbackLive(p)
        BY <3>4, RollbackSourceFiles, RollbackConfigFiles, RollbackLiveFiles
      <3> QED BY <2>2, <3>1, <3>2, <3>3, <3>4, Zenon DEF SwitchStep
    <2>3. CASE p \notin Switchers /\ RecoveryStep(p)
      <3>1. CASE beginRecovery(p) \/ giveUpRecovery(p) \/ recheck(p)
        BY <2>3, <3>1, BeginFiles, GiveUpFiles, RecheckFiles
      <3>2. CASE restoreLiveFromStaged(p) \/ reconcileConfig(p) \/ resolveBackConfig(p) \/ resolveBackLive(p)
        BY <3>2, RecLiveFiles, RecConfigFiles, BackConfigFiles, BackLiveFiles
      <3>3. CASE resolveForwardConfig(p) \/ resolveForwardWrite(p) \/ resolveForwardCommit(p)
        BY <3>3, FwdConfigFiles, FwdWriteFiles, FwdCommitFiles
      <3> QED BY <2>3, <3>1, <3>2, <3>3, Zenon DEF RecoveryStep
    <2>4. CASE markCommitted(p) \/ markClosed(p) \/ deleteStagedRollback(p) \/ deleteClaudeSwitchJournal(p)
      BY <2>4, MarkCommittedFiles, MarkClosedFiles, UnstageFiles, RemoveFiles
    <2> QED BY <1>1, <2>1, <2>2, <2>3, <2>4, Zenon DEF Step
  <1>2. ASSUME NEW p \in Procs, crash(p) PROVE TypeOK' /\ Files'
    BY <1>2, CrashFiles
  <1>3. CASE lockStale \/ ccRefresh \/ ccSettings
    BY <1>3, StaleFiles, RefreshFiles, SettingsFiles
  <1>4. ASSUME NEW a \in LoginAccounts, ccLogin(a) PROVE TypeOK' /\ Files'
    BY <1>4, LoginFiles
  <1> QED BY <1>1, <1>2, <1>3, <1>4, Zenon DEF Next

\* Types and the file part hold initially.
LEMMA FilesInit == ASSUME Init PROVE TypeOK /\ Files
  <1>1. /\ \A a \in People : First(a) \in Creds /\ First(a) \in Blobs
        /\ Wiped \in Blobs
    BY SMT DEF First, Creds, Blobs
  <1>2. [oauth |-> active, rev |-> 0] \in Configs
    BY SMT DEF Init, Configs, People
  <1>3. \A p \in Procs : pc[p] = IF p \in Switchers THEN "start" ELSE "idle"
    BY Zenon DEF Init
  <1>4. pc \in [Procs -> LockFree \cup Locked] /\ loc \in [Procs -> Locals]
    BY Constants, SMT DEF Init, LockFree
  <1>5. TypeOK
    <2>1. active \in Accounts /\ active \in People /\ Alien \in People
      BY SMT DEF Init, People
    <2>2. live \in Blobs /\ config \in Configs /\ gone \subseteq Blobs
      BY <1>1, <1>2, <2>1, SMT DEF Init
    <2>3. slot \in [Accounts -> Blobs] /\ prev \in [Accounts -> Blobs]
      BY <1>1, SMT DEF Init, People
    <2>4. newest \in [People -> Creds]
      BY <1>1, SMT DEF Init
    <2>5. issued \in 0 .. MaxIssued /\ settings \in 0 .. MaxSettings /\ faults \in 0 .. MaxFaults
      BY Bounds, SMT DEF Init
    <2>6. staged \in [Switchers -> Blobs \cup {None}]
      BY SMT DEF Init
    <2>7. /\ stash \subseteq Blobs /\ committed \subseteq Switchers /\ journal = None
          /\ lock = None /\ configLock = None
      BY SMT DEF Init
    <2>8. misadopted \in BOOLEAN
      BY Zenon DEF Init
    <2> QED BY <1>4, <2>1, <2>2, <2>3, <2>4, <2>5, <2>6, <2>7, <2>8, Zenon DEF TypeOK
  <1>6. FileSound
    BY Zenon DEF Init, FileSound
  <1>7. ASSUME NEW p \in Procs PROVE LockHeld(p) /\ AttemptFresh(p) /\ SectionFile(p)
    BY <1>3, ProcsAssumption, SMT DEF Init, LockHeld, AttemptFresh, SectionFile, Locked, Before, Own, Closing, Rec
  <1> QED BY <1>5, <1>6, <1>7 DEF Files

\* Every variable keeps its type, whatever the interleaving of switches, recoveries,
\* crashes and Claude Code (TypeOK of the switch of src/src/cc-switch.ts
\* as ClaudeSwitch.tla models it).
THEOREM TypeCorrect == Spec => []TypeOK
  <1>1. Init => TypeOK /\ Files
    BY FilesInit
  <1>2. TypeOK /\ Files /\ [Next]_vars => TypeOK' /\ Files'
    <2>1. ASSUME TypeOK, Files, UNCHANGED vars PROVE TypeOK' /\ Files'
      BY <2>1, Quiet, SMT DEF TypeOK
    <2> QED BY <2>1, FilesStep, Zenon
  <1> QED BY <1>1, <1>2, PTL DEF Spec

\* While a journal may ask for the copy to restore, the staged copy exists: it is
\* written before the intent of step 7 and removed only after the journal is finished.
THEOREM RollbackCopyKeptHolds == Spec => []RollbackCopyKept
  <1>1. Init => TypeOK /\ Files
    BY FilesInit
  <1>2. TypeOK /\ Files /\ [Next]_vars => TypeOK' /\ Files'
    <2>1. ASSUME TypeOK, Files, UNCHANGED vars PROVE TypeOK' /\ Files'
      BY <2>1, Quiet, SMT DEF TypeOK
    <2> QED BY <2>1, FilesStep, Zenon
  <1>3. TypeOK /\ Files => RollbackCopyKept
    BY NoneAssumption, SMT DEF Files, FileSound, RollbackCopyKept, Pending, Unfinished
  <1> QED BY <1>1, <1>2, <1>3, PTL DEF Spec

-----------------------------------------------------------------------------
\* The rest of the inductive invariant. Ages orders the copies of an account,
\* Aligned says how the live credential, the config, the journal and the locals relate
\* while a switch is under way, Kept that no step is about to overwrite a last copy.

\* c is no newer than its account's newest credential, and as new only if it is that one.
OlderThan(c, N) ==
    c \in Creds => /\ c.n <= N[c.acct].n /\ c.fam <= N[c.acct].fam
                   /\ c.n = N[c.acct].n => c = N[c.acct]

\* No local copy is newer than the newest.
OldLocals(l, N) ==
    /\ OlderThan(l.out, N) /\ OlderThan(l.tgt, N) /\ OlderThan(l.prep.live, N) /\ OlderThan(l.prep.pre, N)
    /\ \A a \in Accounts : OlderThan(l.prep.slots[a], N)

\* The age part of the inductive invariant: no copy anywhere is newer than its account's
\* newest credential, and one as new is that credential.
Ages ==
    /\ \A a \in People : newest[a].acct = a
    /\ OlderThan(live, newest)
    /\ \A a \in Accounts : OlderThan(slot[a], newest) /\ OlderThan(prev[a], newest)
    /\ \A s \in Switchers : OlderThan(staged[s], newest)
    /\ journal # None => OlderThan(journal.credsHash, newest)
    /\ \A p \in Procs : OldLocals(loc[p], newest)

\* The live credential is one, and a slot and its previous copy are of its account.
SlotOwn ==
    /\ live \in Creds
    /\ \A a \in Accounts : slot[a] \in Creds /\ slot[a].acct = a /\ prev[a].acct \in {a, None}

\* A pending switch as its own writes leave it: the live credential is the outgoing or the
\* target account's, the config names the outgoing one until its write was started.
Untouched ==
    /\ live.acct \in {StagedCopy.acct, journal.to}
    /\ config.oauth = StagedCopy.acct \/ (journal.undo.cfgStarted /\ config.oauth = journal.to)

\* A pending switch that a login cut across: live and config agree again, on a family
\* that no slot and no credential in flight has.
LoggedIn ==
    /\ LiveMoved
    /\ live.acct = config.oauth
    /\ live.acct \in Accounts => slot[live.acct].fam < live.fam /\ prev[live.acct].fam < live.fam
    /\ \A q \in Procs : pc[q] = "persist" /\ loc[q].to = live.acct => loc[q].tgt.fam < live.fam

\* The live credential and the config agree, or a pending journal says how they may differ.
FileAligned ==
    /\ ~Pending => live.acct = config.oauth
    /\ Pending =>
         /\ journal.credsHash \in Creds /\ journal.credsHash.acct = journal.to /\ StagedCopy \in Creds
         /\ journal.from = journal.to => StagedCopy.acct = journal.from
         /\ journal.undo.cfgStarted =>
               journal.undo.cfgText.oauth = StagedCopy.acct /\ journal.undo.cfgHash.oauth = journal.to
         /\ Untouched \/ LoggedIn

\* What a preparation remembers: the account of the live credential it resolved, slots of
\* their own accounts, and that a freshened target is older than its newest credential.
PrepAligned(p) ==
    LET l == loc[p] IN
    /\ p \in Switchers /\ pc[p] \in Prepped =>
         /\ l.prep.resolved # None => l.prep.resolved = l.prep.live.acct
         /\ \A a \in Accounts : l.prep.slots[a] \in Creds /\ l.prep.slots[a].acct = a
         /\ l.prep.pre.acct = l.to
         /\ pc[p] \in {"freshen", "persist"} \/ (l.prep.freshened /\ pc[p] # "step5") => ~l.republish
         /\ pc[p] = "persist" \/ l.prep.freshened => l.prep.pre.n < newest[l.to].n
    /\ pc[p] = "persist" => l.tgt \in Creds /\ l.tgt.acct = l.to
    /\ p \in Switchers /\ pc[p] \in Before \cup {"stage", "stagefail", "intent7"} =>
         l.undo = NoUndo /\ ~l.failed

\* Undo record u leads back to the outgoing credential's account.
Undoable(l, u) ==
    /\ ~u.credsStarted => live = l.out
    /\ IF u.cfgStarted THEN u.cfgText.oauth = l.out.acct ELSE config.oauth = l.out.acct

\* How live, config, journal and locals relate at each label of the locked section.
SectionAligned(p) ==
    LET l == loc[p] IN
    /\ pc[p] \in {"step5", "step6", "stage", "stagefail", "intent7", "write7"} => live = l.out
    /\ pc[p] \in {"step5", "step6"} => (l.republish <=> l.from = l.to)
    /\ pc[p] = "step5" /\ l.republish /\ l.prep.freshened => l.out.acct = l.from /\ l.out.n < newest[l.from].n
    /\ pc[p] = "step6" /\ l.republish => l.out.acct = l.from
    /\ pc[p] \in Own => l.to = journal.to
    /\ pc[p] \in {"stage", "intent7"} /\ journal.from = journal.to => l.out.acct = journal.from
    /\ pc[p] \in Own => l.tgt \in Creds /\ l.tgt.acct = l.to /\ l.out \in Creds
    /\ pc[p] \in {"stage", "stagefail", "intent7"} => l.tgt = slot[l.to]
    /\ pc[p] \in {"write7", "mark7", "intent8", "write8", "commit9"} => journal.credsHash = l.tgt /\ l.undo.credsStarted
    /\ pc[p] \in {"write7", "mark7", "intent8"} =>
         ~journal.undo.cfgStarted /\ ~l.undo.cfgStarted /\ config.oauth = l.out.acct
    /\ pc[p] \in {"mark7", "intent8", "write8", "commit9"} => live = l.tgt
    /\ pc[p] \in {"write8", "commit9"} => journal.undo.cfgStarted /\ l.undo.cfgStarted
                         /\ l.undo.cfgHash.oauth = l.to /\ l.undo.cfgText.oauth = l.out.acct
    /\ pc[p] = "write8" => config.oauth = l.out.acct
    /\ pc[p] = "commit9" => config.oauth = l.to
    /\ pc[p] = "rollback" => Undoable(l, journal.undo) /\ Undoable(l, l.undo)
    /\ pc[p] = "rbConfig" => Undoable(l, l.undo)
    /\ pc[p] = "rbLive" => /\ ~l.failed => config.oauth = l.out.acct
                           /\ ~l.undo.credsStarted => live = l.out
    /\ pc[p] \in {"rollback", "rbConfig", "rbLive"} => live = l.out \/ (live = l.tgt /\ Pending /\ journal.credsHash = l.tgt)
    /\ pc[p] = "close" => live.acct = config.oauth
    /\ pc[p] = "recConfig" /\ Pending => live = StagedCopy
    /\ pc[p] = "backLive" /\ Pending =>
         IF live = journal.credsHash THEN config.oauth = StagedCopy.acct ELSE live.acct = config.oauth
    /\ pc[p] \in {"fwdWrite", "fwdCommit"} => Pending /\ journal.undo.cfgStarted /\ live.acct = journal.to
    /\ pc[p] = "fwdCommit" => config.oauth = journal.to

\* The alignment part of the inductive invariant.
Aligned == SlotOwn /\ FileAligned /\ \A p \in Procs : PrepAligned(p) /\ SectionAligned(p)

\* Process q holds a successor of a's credential that it has yet to write.
InFlight(q, a) == pc[q] = "persist" /\ loc[q].to = a

\* The credential that q spent for the successor it holds.
Spent(q) == loc[q].prep.slots[loc[q].to]

\* The successors in flight.
Flying == {loc[q].tgt : q \in {r \in Procs : pc[r] = "persist"}}

\* a's newest credential is discarded, stashed, in flight, or in its slot or ':prev'.
Held(a) == \/ newest[a] \in gone \cup stash \cup Flying
           \/ a \in Accounts /\ newest[a] \in {slot[a], prev[a]}

\* c is not the last copy of its account's newest credential.
HeldIfNewest(c) == c \in Creds => (c = newest[c.acct] => Held(c.acct))

\* a's slot was rewound: the only copy of its newest credential is its ':prev'.
Rewound(a) == /\ prev[a] = newest[a] /\ slot[a] # newest[a]
              /\ newest[a] \notin gone \cup stash \cup Flying

\* The credentials that a step may bring into a slot.
Circ == {live} \cup (IF Pending THEN {StagedCopy, journal.credsHash} ELSE {})

\* Every newest credential is live or held, and every copy that may overwrite it is held.
NewestKept ==
    /\ \A a \in People : Held(a) \/ live = newest[a]
    /\ Pending => HeldIfNewest(journal.credsHash)
    /\ \A p \in Procs : pc[p] # "step5" => HeldIfNewest(loc[p].out)
    /\ \A p \in Procs : \A a \in Accounts : HeldIfNewest(loc[p].prep.slots[a])

\* A rewound slot is not written again with an older credential: what circulates of the
\* account is the slot's or the newest one.
RewoundOK ==
    \A a \in Accounts : Rewound(a) =>
        /\ \A c \in Circ : c.acct = a => c \in {slot[a], newest[a]}
        /\ \A q \in Procs : InFlight(q, a) => Spent(q).fam # slot[a].fam

\* What keeps a successor in flight recognisable: its family is new, what it was spent for
\* is still in the slot or nowhere in circulation, and no two flights share a family.
Flight(q) == LET a == loc[q].to IN
        /\ Spent(q).fam < newest[a].fam
        /\ loc[q].tgt.fam = Spent(q).fam + 1
        /\ newest[a].fam = loc[q].tgt.fam => newest[a] = loc[q].tgt
        /\ slot[a].fam # loc[q].tgt.fam
        /\ \A c \in Circ : c.acct = a => c.fam # loc[q].tgt.fam
        /\ \/ slot[a].fam = Spent(q).fam
           \/ \A c \in Circ : c.acct = a => c.fam # Spent(q).fam
        /\ \A r \in Procs : r # q /\ InFlight(r, a) =>
              Spent(r).fam # Spent(q).fam /\ Spent(r).fam # loc[q].tgt.fam

\* Every successor in flight is recognisable.
FlightOK == \A q \in Procs : pc[q] = "persist" => Flight(q)

\* The storage part of the inductive invariant.
Kept == NewestKept /\ RewoundOK /\ FlightOK

-----------------------------------------------------------------------------
\* What each action leaves in the locals.

\* The request of l is that of m.
SameRequest(l, m) == m.to = l.to /\ m.from = l.from /\ m.republish = l.republish

\* The copies of l are those of m.
SameCopies(l, m) == m.out = l.out /\ m.tgt = l.tgt /\ m.prep = l.prep

\* The rollback memory of l is that of m.
SameUndo(l, m) == m.undo = l.undo /\ m.failed = l.failed

\* A step of p that sets its locals and its label leaves the other processes' alone.
LEMMA OthersStay ==
    ASSUME TypeOK, NEW p \in Procs, NEW l, NEW label, Set(p, l) \/ UNCHANGED loc, Goto(p, label)
    PROVE  /\ \A q \in Procs : q # p => loc'[q] = loc[q] /\ pc'[q] = pc[q]
           /\ pc'[p] = label /\ loc'[p] \in {l, loc[p]} /\ (Set(p, l) => loc'[p] = l)
  BY SMT DEF TypeOK, Goto, Set

\* What start leaves in the locals.
LEMMA StartLoc ==
    ASSUME TypeOK, NEW p \in Procs, start(p)
    PROVE  /\ SameCopies(loc[p], loc'[p]) /\ SameUndo(loc[p], loc'[p]) /\ pc'[p] = "prepare"
           /\ \A q \in Procs : q # p => loc'[q] = loc[q] /\ pc'[q] = pc[q]
  <1> DEFINE l == loc[p]
  <1>1. l \in Locals
    BY SMT DEF TypeOK
  <1>2. PICK to \in Accounts, republish \in BOOLEAN, verdict \in BOOLEAN :
          Set(p, [loc[p] EXCEPT !.to = to, !.republish = republish, !.verdict = verdict])
    BY Zenon DEF start
  <1> DEFINE m == [l EXCEPT !.to = to, !.republish = republish, !.verdict = verdict]
  <1>3. SameCopies(l, m) /\ SameUndo(l, m)
    <2> HIDE DEF l
    <2> QED BY <1>1, SMT DEF Locals, SameCopies, SameUndo
  <1> HIDE DEF m
  <1>4. Goto(p, "prepare")
    BY Zenon DEF start
  <1>5. Set(p, m)
    BY <1>2, Zenon DEF m
  <1> QED BY <1>3, <1>4, <1>5, OthersStay

\* What prepareClaudeSwitch leaves in the locals.
LEMMA PrepareLoc ==
    ASSUME TypeOK, NEW p \in Procs, prepareClaudeSwitch(p)
    PROVE  /\ SameRequest(loc[p], loc'[p]) /\ SameUndo(loc[p], loc'[p])
           /\ loc'[p].out = loc[p].out /\ loc'[p].tgt = loc[p].tgt
           /\ loc'[p].prep.live = live /\ loc'[p].prep.resolved \in {live.acct, None}
           /\ loc'[p].prep.slots = slot /\ ~loc'[p].prep.freshened /\ loc'[p].prep.pre = slot[loc[p].to]
           /\ loc'[p].prep.active = active
           /\ \/ pc'[p] = "lock"
              \/ pc'[p] = "freshen" /\ ~loc[p].republish /\ active # loc[p].to
           /\ \A q \in Procs : q # p => loc'[q] = loc[q] /\ pc'[q] = pc[q]
  <1> DEFINE l == loc[p]
  <1>1. l \in Locals
    BY SMT DEF TypeOK
  <1>2. PICK who \in prefetchLiveIdentity :
          Set(p, [loc[p] EXCEPT !.prep = [active |-> active, live |-> live, resolved |-> who,
                                          slots |-> slot, freshened |-> FALSE, pre |-> slot[loc[p].to]]])
    BY Zenon DEF prepareClaudeSwitch
  <1> DEFINE r == [active |-> active, live |-> live, resolved |-> who,
                   slots |-> slot, freshened |-> FALSE, pre |-> slot[loc[p].to]]
             m == [l EXCEPT !.prep = r]
  <1>3. who \in {live.acct, None}
    BY SMT DEF prefetchLiveIdentity
  <1>4. /\ r.live = live /\ r.resolved \in {live.acct, None} /\ r.slots = slot /\ ~r.freshened
        /\ r.pre = slot[loc[p].to] /\ r.active = active
    BY <1>3, SMT
  <1> HIDE DEF r
  <1>5. m.prep = r /\ SameRequest(l, m) /\ SameUndo(l, m) /\ m.out = l.out /\ m.tgt = l.tgt
    <2> HIDE DEF l
    <2> QED BY <1>1, SMT DEF Locals, SameRequest, SameUndo
  <1>6. Set(p, m)
    BY <1>2, Zenon DEF r
  <1> HIDE DEF m
  <1>7. PICK label : Goto(p, label) /\ (label = "lock" \/ (label = "freshen" /\ ~loc[p].republish /\ active # loc[p].to))
    BY Zenon DEF prepareClaudeSwitch
  <1> QED BY <1>4, <1>5, <1>6, <1>7, OthersStay

\* [l EXCEPT !.prep.slots[a] = c, ...]
SlotsSeen(l, m, a, c) ==
    /\ SameRequest(l, m) /\ SameUndo(l, m) /\ m.out = l.out
    /\ m.prep.live = l.prep.live /\ m.prep.resolved = l.prep.resolved /\ m.prep.pre = l.prep.pre
    /\ m.prep.active = l.prep.active
    /\ m.prep.slots[a] = c
    /\ \A b \in Accounts : b # a => m.prep.slots[b] = l.prep.slots[b]

\* Preparation s is r with slot a seen as c.
PrepSeen(r, s, a, c) ==
    /\ s.live = r.live /\ s.resolved = r.resolved /\ s.pre = r.pre /\ s.active = r.active
    /\ s.slots[a] = c /\ \A b \in Accounts : b # a => s.slots[b] = r.slots[b]

\* The fields of a preparation that saw a slot again.
LEMMA PrepSlots ==
    ASSUME NEW r \in Prepared, NEW a \in Accounts, NEW c \in Blobs,
           NEW s, s = [r EXCEPT !.slots[a] = c] \/ s = [r EXCEPT !.slots[a] = c, !.freshened = TRUE]
    PROVE  PrepSeen(r, s, a, c)
  <1>1. r.slots \in [Accounts -> Blobs]
    BY SMT DEF Prepared
  <1> DEFINE t == [r.slots EXCEPT ![a] = c]
  <1>2. t[a] = c /\ \A b \in Accounts : b # a => t[b] = r.slots[b]
    BY <1>1, SMT
  <1> HIDE DEF t
  <1>3. s = [r EXCEPT !.slots = t] \/ s = [r EXCEPT !.slots = t, !.freshened = TRUE]
    BY Zenon DEF t
  <1>4. s.slots = t /\ s.live = r.live /\ s.resolved = r.resolved /\ s.pre = r.pre /\ s.active = r.active
    <2>1. CASE s = [r EXCEPT !.slots = t]
      BY <2>1, SMT DEF Prepared
    <2>2. CASE s = [r EXCEPT !.slots = t, !.freshened = TRUE]
      BY <2>2, SMT DEF Prepared
    <2> QED BY <1>3, <2>1, <2>2
  <1> QED BY <1>2, <1>4, Zenon DEF PrepSeen

\* What the provider's answer leaves in the locals.
LEMMA PostLoc ==
    ASSUME TypeOK, NEW p \in Procs, postRefresh(p)
    PROVE  /\ SlotsSeen(loc[p], loc'[p], loc[p].to, slot[loc[p].to])
           /\ loc'[p].prep.freshened = loc[p].prep.freshened
           /\ loc'[p].tgt = Rotated(newest[loc[p].to])
           /\ pc'[p] = "persist"
           /\ \A q \in Procs : q # p => loc'[q] = loc[q] /\ pc'[q] = pc[q]
  <1> DEFINE l == loc[p]
             a == l.to
             t == Rotated(newest[a])
             c == slot[a]
             s == [l.prep EXCEPT !.slots[a] = c]
             m == [l EXCEPT !.tgt = t, !.prep = s]
  <1>1. l \in Locals /\ l.prep \in Prepared /\ a \in Accounts /\ c \in Blobs
    BY LocalFields, SMT DEF TypeOK
  <1>2. PrepSeen(l.prep, s, a, c)
    BY <1>1, PrepSlots, Zenon
  <1>2a. s.freshened = l.prep.freshened
    <2> HIDE DEF l, a, c
    <2> QED BY <1>1, SMT DEF Prepared
  <1>3. [l EXCEPT !.tgt = t, !.prep.slots[a] = c] = m
    BY <1>1, Zenon DEF Locals, Prepared
  <1>4. Set(p, m) /\ Goto(p, "persist")
    BY <1>3, Zenon DEF postRefresh
  <1> HIDE DEF s
  <1>5. m.prep = s /\ m.tgt = t /\ SameRequest(l, m) /\ SameUndo(l, m) /\ m.out = l.out
    <2> HIDE DEF l, t, a, c
    <2> QED BY <1>1, SMT DEF Locals, SameRequest, SameUndo
  <1> HIDE DEF m
  <1> QED BY <1>2, <1>2a, <1>4, <1>5, OthersStay, SMT DEF SlotsSeen, PrepSeen

\* What a target that needs no refresh leaves in the locals.
LEMMA FreshLoc ==
    ASSUME TypeOK, NEW p \in Procs, alreadyFresh(p)
    PROVE  /\ SlotsSeen(loc[p], loc'[p], loc[p].to, slot[loc[p].to])
           /\ loc'[p].prep.freshened = loc[p].prep.freshened
           /\ loc'[p].tgt = loc[p].tgt
           /\ pc'[p] = "lock"
           /\ \A q \in Procs : q # p => loc'[q] = loc[q] /\ pc'[q] = pc[q]
  <1> DEFINE l == loc[p]
             a == l.to
             c == slot[a]
             s == [l.prep EXCEPT !.slots[a] = c]
             m == [l EXCEPT !.prep = s]
  <1>1. l \in Locals /\ l.prep \in Prepared /\ a \in Accounts /\ c \in Blobs
    BY LocalFields, SMT DEF TypeOK
  <1>2. PrepSeen(l.prep, s, a, c)
    BY <1>1, PrepSlots, Zenon
  <1>2a. s.freshened = l.prep.freshened
    <2> HIDE DEF l, a, c
    <2> QED BY <1>1, SMT DEF Prepared
  <1>3. [l EXCEPT !.prep.slots[a] = c] = m
    BY <1>1, Zenon DEF Locals, Prepared
  <1>4. Set(p, m) /\ Goto(p, "lock")
    BY <1>3, Zenon DEF alreadyFresh
  <1> HIDE DEF s
  <1>5. m.prep = s /\ m.tgt = l.tgt /\ SameRequest(l, m) /\ SameUndo(l, m) /\ m.out = l.out
    <2> HIDE DEF l, a, c
    <2> QED BY <1>1, SMT DEF Locals, SameRequest, SameUndo
  <1> HIDE DEF m
  <1> QED BY <1>2, <1>2a, <1>4, <1>5, OthersStay, SMT DEF SlotsSeen, PrepSeen

\* What the write of a refreshed credential leaves in the locals.
LEMMA PersistLoc ==
    ASSUME TypeOK, TypeOK', NEW p \in Procs,
           Set(p, [loc[p] EXCEPT !.prep.slots[loc[p].to] = slot'[loc[p].to], !.prep.freshened = TRUE, !.tgt = Wiped]),
           Goto(p, "lock")
    PROVE  /\ SlotsSeen(loc[p], loc'[p], loc[p].to, slot'[loc[p].to])
           /\ loc'[p].prep.freshened /\ loc'[p].tgt = Wiped
           /\ pc'[p] = "lock"
           /\ \A q \in Procs : q # p => loc'[q] = loc[q] /\ pc'[q] = pc[q]
  <1> DEFINE l == loc[p]
             a == l.to
             c == slot'[a]
             s == [l.prep EXCEPT !.slots[a] = c, !.freshened = TRUE]
             m == [l EXCEPT !.tgt = Wiped, !.prep = s]
  <1>1. l \in Locals /\ l.prep \in Prepared /\ a \in Accounts /\ c \in Blobs
    BY LocalFields, SMT DEF TypeOK
  <1>2. PrepSeen(l.prep, s, a, c)
    BY <1>1, PrepSlots, Zenon
  <1>2a. s.freshened
    <2> HIDE DEF l, a, c
    <2> QED BY <1>1, SMT DEF Prepared
  <1>3. [l EXCEPT !.prep.slots[a] = c, !.prep.freshened = TRUE, !.tgt = Wiped] = m
    BY <1>1, Zenon DEF Locals, Prepared
  <1>4. Set(p, m)
    BY <1>3, Zenon
  <1> HIDE DEF s
  <1>5. m.prep = s /\ m.tgt = Wiped /\ SameRequest(l, m) /\ SameUndo(l, m) /\ m.out = l.out
    <2> HIDE DEF l, a, c
    <2> QED BY <1>1, SMT DEF Locals, SameRequest, SameUndo
  <1> HIDE DEF m
  <1> QED BY <1>2, <1>2a, <1>4, <1>5, OthersStay, SMT DEF SlotsSeen, PrepSeen

\* What the one retry of a switch leaves in the locals.
LEMMA RetryLoc ==
    ASSUME TypeOK, NEW p \in Procs, Goto(p, "start"),
           Set(p, [NoLocals EXCEPT !.to = loc[p].to, !.republish = loc[p].republish,
                                   !.verdict = loc[p].verdict, !.retried = TRUE])
    PROVE  /\ SameCopies(NoLocals, loc'[p]) /\ SameUndo(NoLocals, loc'[p])
           /\ pc'[p] = "start"
           /\ \A q \in Procs : q # p => loc'[q] = loc[q] /\ pc'[q] = pc[q]
  <1> DEFINE to == loc[p].to
             republish == loc[p].republish
             verdict == loc[p].verdict
             m == [NoLocals EXCEPT !.to = to, !.republish = republish, !.verdict = verdict, !.retried = TRUE]
  <1>1. SameCopies(NoLocals, m) /\ SameUndo(NoLocals, m)
    <2> HIDE DEF to, republish, verdict
    <2> QED BY SMT DEF NoLocals, SameCopies, SameUndo
  <1>2. Set(p, m)
    OBVIOUS
  <1> HIDE DEF m
  <1> QED BY <1>1, <1>2, OthersStay

\* What step 4 remembers of the outgoing credential.
LEMMA OutgoingLoc ==
    ASSUME TypeOK, NEW p \in Procs, Goto(p, "step5"),
           Set(p, [loc[p] EXCEPT !.from = active, !.out = live, !.republish = @ \/ active = loc[p].to])
    PROVE  /\ loc'[p].from = active /\ loc'[p].out = live
           /\ loc'[p].republish <=> (loc[p].republish \/ active = loc[p].to)
           /\ loc'[p].to = loc[p].to /\ loc'[p].prep = loc[p].prep /\ loc'[p].tgt = loc[p].tgt
           /\ SameUndo(loc[p], loc'[p])
           /\ pc'[p] = "step5"
           /\ \A q \in Procs : q # p => loc'[q] = loc[q] /\ pc'[q] = pc[q]
  <1> DEFINE l == loc[p]
             r == l.republish \/ active = l.to
             m == [l EXCEPT !.from = active, !.out = live, !.republish = r]
  <1>1. l \in Locals
    BY SMT DEF TypeOK
  <1>2. /\ m.from = active /\ m.out = live
        /\ m.to = l.to /\ m.prep = l.prep /\ m.tgt = l.tgt /\ SameUndo(l, m)
    <2> HIDE DEF l, r
    <2> QED BY <1>1, SMT DEF Locals, SameUndo
  <1>2a. m.republish = r
    BY <1>1, Zenon DEF Locals
  <1>3. Set(p, m)
    BY Zenon
  <1>4. loc'[p] = m /\ pc'[p] = "step5" /\ \A q \in Procs : q # p => loc'[q] = loc[q] /\ pc'[q] = pc[q]
    <2> HIDE DEF m
    <2> QED BY <1>3, OthersStay
  <1>5. loc'[p].republish <=> (loc[p].republish \/ active = loc[p].to)
    BY <1>2a, <1>4, Zenon
  <1> HIDE DEF m
  <1> QED BY <1>2, <1>4, <1>5, Zenon

\* What step 6 remembers of the target credential.
LEMMA TargetLoc ==
    ASSUME TypeOK, NEW p \in Procs, Goto(p, "stage"), Set(p, [loc[p] EXCEPT !.tgt = slot[loc[p].to]])
    PROVE  /\ SameRequest(loc[p], loc'[p]) /\ SameUndo(loc[p], loc'[p])
           /\ loc'[p].tgt = slot[loc[p].to] /\ loc'[p].out = loc[p].out /\ loc'[p].prep = loc[p].prep
           /\ pc'[p] = "stage"
           /\ \A q \in Procs : q # p => loc'[q] = loc[q] /\ pc'[q] = pc[q]
  <1> DEFINE l == loc[p]
             c == slot[l.to]
             m == [l EXCEPT !.tgt = c]
  <1>1. l \in Locals
    BY SMT DEF TypeOK
  <1>2. m.tgt = c /\ SameRequest(l, m) /\ SameUndo(l, m) /\ m.out = l.out /\ m.prep = l.prep
    <2> HIDE DEF l, c
    <2> QED BY <1>1, SMT DEF Locals, SameRequest, SameUndo
  <1> HIDE DEF m
  <1>3. Set(p, m)
    BY Zenon DEF m
  <1> QED BY <1>2, <1>3, OthersStay

\* The locals with a new rollback memory.
LEMMA UndoLoc ==
    ASSUME TypeOK, NEW p \in Procs, NEW label, Goto(p, label), NEW u, Set(p, [loc[p] EXCEPT !.undo = u])
    PROVE  /\ SameRequest(loc[p], loc'[p]) /\ SameCopies(loc[p], loc'[p])
           /\ loc'[p].undo = u /\ loc'[p].failed = loc[p].failed
           /\ pc'[p] = label
           /\ \A q \in Procs : q # p => loc'[q] = loc[q] /\ pc'[q] = pc[q]
  <1> DEFINE l == loc[p]
             m == [l EXCEPT !.undo = u]
  <1>1. l \in Locals
    BY SMT DEF TypeOK
  <1>2. m.undo = u /\ m.failed = l.failed /\ SameRequest(l, m) /\ SameCopies(l, m)
    <2> HIDE DEF l
    <2> QED BY <1>1, SMT DEF Locals, SameRequest, SameCopies
  <1> HIDE DEF m
  <1>3. Set(p, m)
    BY Zenon DEF m
  <1> QED BY <1>2, <1>3, OthersStay

\* The rollback's memory after intent7: only credsStarted is new.
LEMMA Intent7Loc ==
    ASSUME TypeOK, NEW p \in Procs, intent7(p)
    PROVE  /\ SameRequest(loc[p], loc'[p]) /\ SameCopies(loc[p], loc'[p])
           /\ loc'[p].undo.credsStarted /\ loc'[p].undo.cfgStarted = loc[p].undo.cfgStarted
           /\ loc'[p].undo.cfgText = loc[p].undo.cfgText /\ loc'[p].failed = loc[p].failed
           /\ \A q \in Procs : q # p => loc'[q] = loc[q] /\ pc'[q] = pc[q]
  <1> DEFINE v == loc[p].undo
             u == [v EXCEPT !.credsStarted = TRUE]
  <1>1. loc[p] \in Locals /\ v \in Undos
    BY LocalFields, SMT DEF TypeOK
  <1>2. u.credsStarted /\ u.cfgStarted = v.cfgStarted /\ u.cfgText = v.cfgText
    <2> HIDE DEF v
    <2> QED BY <1>1, SMT DEF Undos
  <1>3. Set(p, [loc[p] EXCEPT !.undo = u])
    BY <1>1, Zenon DEF intent7, Locals, Undos
  <1>4. PICK label : Goto(p, label)
    BY Zenon DEF intent7, Effect
  <1> HIDE DEF u
  <1> QED BY <1>2, <1>3, <1>4, UndoLoc, Zenon

\* The locals of a switch whose rollback failed.
LEMMA FailedLoc ==
    ASSUME TypeOK, NEW p \in Procs, NEW label, Goto(p, label), Set(p, [loc[p] EXCEPT !.failed = TRUE])
    PROVE  /\ SameRequest(loc[p], loc'[p]) /\ SameCopies(loc[p], loc'[p])
           /\ loc'[p].undo = loc[p].undo /\ loc'[p].failed
           /\ pc'[p] = label
           /\ \A q \in Procs : q # p => loc'[q] = loc[q] /\ pc'[q] = pc[q]
  <1> DEFINE l == loc[p]
             m == [l EXCEPT !.failed = TRUE]
  <1>1. l \in Locals
    BY SMT DEF TypeOK
  <1>2. m.undo = l.undo /\ m.failed /\ SameRequest(l, m) /\ SameCopies(l, m)
    <2> HIDE DEF l
    <2> QED BY <1>1, SMT DEF Locals, SameRequest, SameCopies
  <1> HIDE DEF m
  <1>3. Set(p, m)
    BY Zenon DEF m
  <1> QED BY <1>2, <1>3, OthersStay

\* The fields of empty locals.
LEMMA EmptyLoc ==
    /\ NoLocals.out = Wiped /\ NoLocals.tgt = Wiped /\ NoLocals.prep.live = Wiped /\ NoLocals.prep.pre = Wiped
    /\ NoLocals.prep.resolved = None /\ ~NoLocals.prep.freshened
    /\ \A a \in Accounts : NoLocals.prep.slots[a] = Wiped
    /\ NoLocals.undo = NoUndo /\ ~NoLocals.failed
  BY SMT DEF NoLocals, NoPrep

\* The locals of a started recovery.
LEMMA BeginLoc ==
    ASSUME TypeOK, NEW p \in Procs, NEW f \in BOOLEAN, Goto(p, "lock"), Set(p, [NoLocals EXCEPT !.forward = f])
    PROVE  /\ SameCopies(NoLocals, loc'[p]) /\ pc'[p] = "lock"
           /\ \A q \in Procs : q # p => loc'[q] = loc[q] /\ pc'[q] = pc[q]
  <1> DEFINE m == [NoLocals EXCEPT !.forward = f]
  <1>1. SameCopies(NoLocals, m)
    BY SMT DEF NoLocals, SameCopies
  <1> HIDE DEF m
  <1>2. Set(p, m)
    BY Zenon DEF m
  <1> QED BY <1>1, <1>2, OthersStay

-----------------------------------------------------------------------------
\* The age part: one lemma for each group of actions.

\* Neither a wiped nor an absent credential is one.
LEMMA NotCreds == Wiped \notin Creds /\ None \notin Creds
  <1>1. Wiped \notin Creds
    BY AccountsAssumption, SMT DEF Wiped, Creds
  <1> QED BY <1>1, NoneAssumption, Zenon DEF Blobs

\* Credentials are issued in order.
Grown(N, M) ==
    \A a \in People : M[a] = N[a] \/ (M[a].n > N[a].n /\ M[a].fam >= N[a].fam /\ M[a].acct = a)

\* A copy that is not newer stays so when credentials are issued.
LEMMA OlderGrow ==
    ASSUME NEW N \in [People -> Creds], NEW M \in [People -> Creds], Grown(N, M), NEW c, OlderThan(c, N)
    PROVE  OlderThan(c, M)
  <1>1. SUFFICES ASSUME c \in Creds PROVE OlderThan(c, M)
    BY Zenon DEF OlderThan
  <1>2. c.acct \in People /\ c.n \in Nat /\ c.fam \in Nat
    BY <1>1, SMT DEF Creds
  <1>3. N[c.acct] \in Creds /\ M[c.acct] \in Creds
    BY <1>2
  <1>4. N[c.acct].n \in Nat /\ N[c.acct].fam \in Nat /\ M[c.acct].n \in Nat /\ M[c.acct].fam \in Nat
    BY <1>3, SMT DEF Creds
  <1> QED BY <1>1, <1>2, <1>3, <1>4, SMT DEF OlderThan, Grown

\* All copies that are not newer stay so when credentials are issued.
LEMMA AgesGrow ==
    ASSUME Ages, newest \in [People -> Creds], NEW M \in [People -> Creds], Grown(newest, M)
    PROVE  /\ \A a \in People : M[a].acct = a
           /\ OlderThan(live, M)
           /\ \A a \in Accounts : OlderThan(slot[a], M) /\ OlderThan(prev[a], M)
           /\ \A s \in Switchers : OlderThan(staged[s], M)
           /\ journal # None => OlderThan(journal.credsHash, M)
           /\ \A p \in Procs : OldLocals(loc[p], M)
  <1>1. \A c : OlderThan(c, newest) => OlderThan(c, M)
    BY OlderGrow
  <1> QED BY <1>1, SMT DEF Ages, OldLocals, Grown

\* Empty locals hold nothing newer than the newest.
LEMMA EmptyOld == ASSUME NEW l, SameCopies(NoLocals, l) PROVE OldLocals(l, newest)
  BY EmptyLoc, NotCreds, SMT DEF OldLocals, OlderThan, SameCopies

\* A step that issues nothing and only moves copies that exist.
LEMMA AgesMoved ==
    ASSUME TypeOK, Ages, NEW p \in Procs, newest' = newest,
           \A q \in Procs : q # p => loc'[q] = loc[q],
           SameCopies(loc[p], loc'[p]) \/ SameCopies(NoLocals, loc'[p]) \/ OldLocals(loc'[p], newest),
           OlderThan(live', newest),
           \A a \in Accounts : OlderThan(slot'[a], newest) /\ OlderThan(prev'[a], newest),
           \A s \in Switchers : staged'[s] \in {staged[s], None, loc[p].out},
           journal' = None \/ journal'.credsHash \in {None, loc[p].tgt} \/ (journal # None /\ journal'.credsHash = journal.credsHash)
    PROVE  Ages'
  <1>1. OldLocals(loc'[p], newest)
    BY EmptyOld, SMT DEF Ages, OldLocals, SameCopies
  <1>2. OlderThan(None, newest) /\ OlderThan(loc[p].out, newest) /\ OlderThan(loc[p].tgt, newest)
    <2>1. OlderThan(None, newest)
      BY NotCreds, Zenon DEF OlderThan
    <2> QED BY <2>1, SMT DEF Ages, OldLocals
  <1>3. \A q \in Procs : OldLocals(loc'[q], newest)
    BY <1>1, SMT DEF Ages
  <1>4. journal' # None => OlderThan(journal'.credsHash, newest)
    BY <1>2, SMT DEF Ages
  <1>5. \A s \in Switchers : OlderThan(staged'[s], newest)
    BY <1>2, SMT DEF Ages
  <1> QED BY <1>3, <1>4, <1>5, SMT DEF Ages

\* A step that finishes or leaves the locals alone moves nobody's copies.
LEMMA StayLoc ==
    ASSUME TypeOK, NEW p \in Procs, Finish(p) \/ UNCHANGED loc
    PROVE  /\ SameCopies(loc[p], loc'[p]) \/ SameCopies(NoLocals, loc'[p])
           /\ \A q \in Procs : q # p => loc'[q] = loc[q]
  BY FinishTyped, SMT DEF SameCopies

\* Steps that write none of the copies.
LEMMA AgesStill ==
    ASSUME TypeOK, Ages, NEW p \in Procs, newest' = newest,
           \A q \in Procs : q # p => loc'[q] = loc[q],
           SameCopies(loc[p], loc'[p]) \/ SameCopies(NoLocals, loc'[p]) \/ OldLocals(loc'[p], newest),
           UNCHANGED <<live, slot, prev, staged>>,
           journal' = None \/ journal'.credsHash \in {None, loc[p].tgt} \/ (journal # None /\ journal'.credsHash = journal.credsHash)
    PROVE  Ages'
  BY AgesMoved, SMT DEF Ages

\* Steps before and around the lock keep the age part.
LEMMA AgesOutside ==
    ASSUME TypeOK, TypeOK', Ages, NEW p \in Procs,
           start(p) \/ prepareClaudeSwitch(p) \/ alreadyFresh(p) \/ persistRefresh(p) \/ refuse(p)
           \/ beginRecovery(p) \/ giveUpRecovery(p) \/ acquire(p)
    PROVE  Ages'
  <1>0. loc[p] \in Locals /\ loc[p].to \in Accounts
    BY LocalFields, SMT DEF TypeOK
  <1>1. CASE start(p)
    <2>1. UNCHANGED <<disk, locks, env, faults>>
      BY <1>1, Zenon DEF start
    <2> QED BY <1>1, <2>1, StartLoc, AgesStill, SMT
  <1>2. CASE prepareClaudeSwitch(p)
    <2>1. OldLocals(loc'[p], newest)
      BY <1>0, <1>2, PrepareLoc, SMT DEF OldLocals, Ages
    <2>2. UNCHANGED <<disk, locks, env, faults>>
      BY <1>2, Zenon DEF prepareClaudeSwitch
    <2>3. \A q \in Procs : q # p => loc'[q] = loc[q]
      BY <1>2, PrepareLoc
    <2> QED BY <2>1, <2>2, <2>3, AgesStill, SMT
  <1>3. CASE alreadyFresh(p)
    <2>1. OldLocals(loc'[p], newest)
      BY <1>0, <1>3, FreshLoc, SMT DEF OldLocals, Ages, SlotsSeen
    <2>2. UNCHANGED <<disk, locks, env, faults>>
      BY <1>3, Zenon DEF alreadyFresh
    <2>3. \A q \in Procs : q # p => loc'[q] = loc[q]
      BY <1>3, FreshLoc
    <2> QED BY <2>1, <2>2, <2>3, AgesStill, SMT
  <1>4. CASE persistRefresh(p)
    <2>1. \A a \in Accounts : OlderThan(slot'[a], newest) /\ OlderThan(prev'[a], newest)
      <3>1. writeSlot(loc[p].to, loc[p].tgt) \/ UNCHANGED <<slot, prev>>
        BY <1>4, Zenon DEF persistRefresh
      <3> QED BY <1>0, <3>1, SMT DEF writeSlot, TypeOK, Ages, OldLocals
    <2>2. SameCopies(NoLocals, loc'[p]) \/ OldLocals(loc'[p], newest)
      <3>1. CASE Finish(p)
        BY <3>1, FinishTyped, SMT DEF SameCopies
      <3>2. CASE /\ Set(p, [loc[p] EXCEPT !.prep.slots[loc[p].to] = slot'[loc[p].to], !.prep.freshened = TRUE, !.tgt = Wiped])
                 /\ Goto(p, "lock")
        <4>1. SlotsSeen(loc[p], loc'[p], loc[p].to, slot'[loc[p].to]) /\ loc'[p].tgt = Wiped
          BY <3>2, PersistLoc
        <4>2. OlderThan(Wiped, newest)
          BY NotCreds, Zenon DEF OlderThan
        <4> QED BY <1>0, <2>1, <4>1, <4>2, SMT DEF OldLocals, Ages, SlotsSeen
      <3> QED BY <1>4, <3>1, <3>2, Zenon DEF persistRefresh
    <2>3. \A q \in Procs : q # p => loc'[q] = loc[q]
      BY <1>4, SMT DEF persistRefresh, Finish, Set, TypeOK
    <2> QED BY <1>4, <2>1, <2>2, <2>3, AgesMoved, SMT DEF persistRefresh, Ages
  <1>5. CASE refuse(p) \/ giveUpRecovery(p)
    BY <1>5, StayLoc, AgesStill, SMT DEF refuse, giveUpRecovery
  <1>6. CASE beginRecovery(p)
    <2>1. PICK f \in BOOLEAN : Goto(p, "lock") /\ Set(p, [NoLocals EXCEPT !.forward = f])
      BY <1>6, Zenon DEF beginRecovery
    <2>2. SameCopies(NoLocals, loc'[p]) /\ \A q \in Procs : q # p => loc'[q] = loc[q]
      BY <2>1, BeginLoc
    <2> QED BY <1>6, <2>2, AgesStill, SMT DEF beginRecovery
  <1>7. CASE acquire(p)
    BY <1>7, AgesStill, SMT DEF acquire, SameCopies
  <1> QED BY <1>1, <1>2, <1>3, <1>4, <1>5, <1>6, <1>7

\* What the steps that rewrite the journal leave of it.
KeptFile(j, k) == SameFile(j, k) /\ k # None /\ k.credsHash = j.credsHash

\* Step 7's intent is the only change it makes to the journal.
LEMMA Intent7File ==
    ASSUME TypeOK, Files, NEW p \in Procs, intent7(p)
    PROVE  journal' = journal \/ CredsStarted(journal, loc[p].tgt, journal')
  <1>1. journal \in Journals /\ loc[p].tgt \in Blobs
    BY InSection, LocalFields, SMT DEF intent7, Own
  <1> QED BY <1>1, JournalStarted, Zenon DEF intent7, Effect

\* Step 7's mark changes neither the intents nor the end of a journal.
LEMMA Mark7File ==
    ASSUME TypeOK, Files, NEW p \in Procs, mark7(p)
    PROVE  /\ KeptFile(journal, journal') /\ journal'.undo = journal.undo
           /\ journal'.committed = journal.committed /\ journal'.closed = journal.closed
  <1>1. journal \in Journals /\ journal # None
    BY InSection, SMT DEF mark7, Own
  <1>2. journal' = journal \/ journal' = [journal EXCEPT !.credsWritten = TRUE]
    BY Zenon DEF mark7, Effect
  <1>3. CASE journal' = journal
    BY <1>1, <1>3, SMT DEF KeptFile, SameFile
  <1>4. CASE journal' = [journal EXCEPT !.credsWritten = TRUE]
    BY <1>1, <1>4, JournalWritten, NoneAssumption, SMT DEF KeptFile, SameFile
  <1> QED BY <1>2, <1>3, <1>4

\* Ending a journal keeps its intents.
LEMMA EndedFile ==
    ASSUME TypeOK, Files, NEW p \in Procs, stageFailed(p) \/ markCommitted(p) \/ markClosed(p)
    PROVE  KeptFile(journal, journal') /\ journal'.undo = journal.undo
  <1>1. journal \in Journals /\ journal # None
    BY InSection, SMT DEF stageFailed, markCommitted, markClosed, Own, Closing
  <1>2. \/ journal' = journal \/ journal' = [journal EXCEPT !.committed = TRUE]
        \/ \E c \in {"rolled-back", "stage-failed"} : journal' = [journal EXCEPT !.closed = c]
    BY Zenon DEF stageFailed, markCommitted, markClosed, LastEffect
  <1>3. CASE journal' = journal
    BY <1>1, <1>3, SMT DEF KeptFile, SameFile
  <1>4. CASE journal' = [journal EXCEPT !.committed = TRUE]
    BY <1>1, <1>4, JournalCommitted, NoneAssumption, SMT DEF KeptFile, SameFile
  <1>5. ASSUME NEW c \in {"rolled-back", "stage-failed"}, journal' = [journal EXCEPT !.closed = c]
        PROVE  KeptFile(journal, journal') /\ journal'.undo = journal.undo
    BY <1>1, <1>5, JournalClosed, NoneAssumption, SMT DEF KeptFile, SameFile
  <1> QED BY <1>2, <1>3, <1>4, <1>5

\* Step 8's intent is the only change it makes to the journal.
LEMMA Intent8File ==
    ASSUME TypeOK, Files, NEW p \in Procs, intent8(p)
    PROVE  /\ KeptFile(journal, journal')
           /\ journal'.committed = journal.committed /\ journal'.closed = journal.closed
           /\ journal' = journal \/ journal'.undo = ConfigIntent(journal.undo, loc[p].to)
  <1>1. journal \in Journals /\ journal # None /\ loc[p].to \in Accounts /\ journal.undo \in Undos
    BY InSection, LocalFields, SMT DEF intent8, Own
  <1>2. journal' = journal \/ journal' = [journal EXCEPT !.undo = ConfigIntent(journal.undo, loc[p].to)]
    BY Zenon DEF intent8, Effect
  <1>3. CASE journal' = journal
    BY <1>1, <1>3, SMT DEF KeptFile, SameFile
  <1>4. CASE journal' = [journal EXCEPT !.undo = ConfigIntent(journal.undo, loc[p].to)]
    <2>1. ConfigIntent(journal.undo, loc[p].to) \in Undos
      BY <1>1, ConfigIntentTyped, SMT DEF TypeOK
    <2> QED BY <1>1, <1>4, <2>1, JournalUndo, NoneAssumption, SMT DEF KeptFile, SameFile
  <1> QED BY <1>2, <1>3, <1>4

\* The outcomes of resolve --forward's first step: it ends, or it goes on with the intent written.
LEMMA ForwardFile ==
    ASSUME TypeOK, Files, NEW p \in Procs, resolveForwardConfig(p)
    PROVE  \/ Finish(p) /\ journal' = journal
           \/ /\ ForwardAdmits /\ Forwarded
              /\ journal' = journal \/ journal'.undo = ConfigIntent(journal.undo, journal.to)
              /\ \/ Goto(p, "fwdWrite") /\ UNCHANGED <<loc, lock>>
                    /\ (journal.undo.cfgStarted \/ journal'.undo = ConfigIntent(journal.undo, journal.to))
                 \/ Finish(p)
  <1>1. pc[p] = "fwdConfig"
    BY Zenon DEF resolveForwardConfig
  <1>2. SUFFICES ASSUME ~(Finish(p) /\ journal' = journal)
        PROVE  /\ ForwardAdmits /\ Forwarded
               /\ journal' = journal \/ journal'.undo = ConfigIntent(journal.undo, journal.to)
               /\ \/ Goto(p, "fwdWrite") /\ UNCHANGED <<loc, lock>>
                     /\ (journal.undo.cfgStarted \/ journal'.undo = ConfigIntent(journal.undo, journal.to))
                  \/ Finish(p)
    OBVIOUS
  <1>3. ForwardAdmits
    BY <1>2, Zenon DEF resolveForwardConfig
  <1>4. \/ UNCHANGED journal
        \/ journal' = IF journal.undo.cfgStarted THEN journal
                      ELSE [journal EXCEPT !.undo = ConfigIntent(@, journal.to)]
    BY <1>2, Zenon DEF resolveForwardConfig, LastEffect
  <1>5. Forwarded /\ (journal' = journal \/ journal'.undo = ConfigIntent(journal.undo, journal.to))
    BY <1>1, <1>3, <1>4, ForwardJournal, Zenon
  <1>6. \/ Goto(p, "fwdWrite") /\ UNCHANGED <<loc, lock>>
           /\ journal' = IF journal.undo.cfgStarted THEN journal
                         ELSE [journal EXCEPT !.undo = ConfigIntent(@, journal.to)]
        \/ Finish(p)
    BY <1>2, Zenon DEF resolveForwardConfig, LastEffect
  <1>7. journal.undo \in Undos /\ journal \in Journals /\ journal.to \in Accounts /\ config \in Configs
    BY <1>1, RecoveryAt, SMT DEF Rec, TypeOK
  <1>8. ASSUME journal' = [journal EXCEPT !.undo = ConfigIntent(@, journal.to)]
        PROVE  journal'.undo = ConfigIntent(journal.undo, journal.to)
    <2>1. ConfigIntent(journal.undo, journal.to) \in Undos
      BY <1>7, ConfigIntentTyped
    <2> QED BY <1>7, <1>8, <2>1, JournalUndo, Zenon
  <1> QED BY <1>3, <1>5, <1>6, <1>8, Zenon

\* Steps 4 to 6 keep the age part.
LEMMA AgesSteps ==
    ASSUME TypeOK, TypeOK', Files, Ages, NEW p \in Procs, step4(p) \/ step5(p) \/ step6(p)
    PROVE  Ages'
  <1>0. loc[p] \in Locals /\ loc[p].to \in Accounts /\ loc[p].from \in Accounts
    BY LocalFields, SMT DEF TypeOK
  <1>1. CASE step4(p)
    <2>0. UNCHANGED <<disk, configLock, env, faults>>
      BY <1>1, Zenon DEF step4
    <2>1. CASE Finish(p) \/ UNCHANGED loc
      BY <2>0, <2>1, StayLoc, AgesStill, SMT
    <2>2. CASE /\ Goto(p, "start")
               /\ Set(p, [NoLocals EXCEPT !.to = loc[p].to, !.republish = loc[p].republish,
                                          !.verdict = loc[p].verdict, !.retried = TRUE])
      <3>1. SameCopies(NoLocals, loc'[p]) /\ \A q \in Procs : q # p => loc'[q] = loc[q]
        BY <2>2, RetryLoc
      <3> QED BY <2>0, <3>1, AgesStill, SMT
    <2>3. CASE /\ Goto(p, "step5")
               /\ Set(p, [loc[p] EXCEPT !.from = active, !.out = live, !.republish = @ \/ active = loc[p].to])
      <3>1. /\ loc'[p].out = live /\ loc'[p].prep = loc[p].prep /\ loc'[p].tgt = loc[p].tgt
            /\ \A q \in Procs : q # p => loc'[q] = loc[q]
        BY <2>3, OutgoingLoc
      <3>2. OldLocals(loc'[p], newest)
        BY <3>1, SMT DEF OldLocals, Ages
      <3> QED BY <2>0, <3>1, <3>2, AgesStill, SMT
    <2> QED BY <1>1, <2>1, <2>2, <2>3, Zenon DEF step4
  <1>2. CASE step5(p)
    <2>1. writeSlot(loc[p].from, loc[p].out) \/ UNCHANGED <<slot, prev>>
      BY <1>2, Zenon DEF step5
    <2>2. \A a \in Accounts : OlderThan(slot'[a], newest) /\ OlderThan(prev'[a], newest)
      BY <1>0, <2>1, SMT DEF writeSlot, TypeOK, Ages, OldLocals
    <2>3. Finish(p) \/ UNCHANGED loc
      BY <1>2, Zenon DEF step5
    <2>4. UNCHANGED <<live, config, active, staged, journal, committed, configLock, newest, gone, issued, settings, faults>>
      BY <1>2, Zenon DEF step5
    <2> QED BY <2>2, <2>3, <2>4, StayLoc, AgesMoved, SMT DEF Ages
  <1>3. CASE step6(p)
    <2>1. UNCHANGED <<live, config, active, slot, prev, stash, staged, committed, configLock, env, faults>>
      BY <1>3, Zenon DEF step6
    <2>2. CASE Finish(p) /\ UNCHANGED journal
      BY <2>1, <2>2, StayLoc, AgesStill, SMT
    <2>3. CASE /\ Set(p, [loc[p] EXCEPT !.tgt = slot[loc[p].to]]) /\ Goto(p, "stage")
               /\ journal' = [attempt |-> p, from |-> loc[p].from, to |-> loc[p].to,
                              republish |-> loc[p].republish, undo |-> NoUndo, credsHash |-> None,
                              credsWritten |-> FALSE, closed |-> "open", committed |-> FALSE]
      <3>1. /\ loc'[p].tgt = slot[loc[p].to] /\ loc'[p].out = loc[p].out /\ loc'[p].prep = loc[p].prep
            /\ \A q \in Procs : q # p => loc'[q] = loc[q]
        BY <2>3, TargetLoc
      <3>2. OldLocals(loc'[p], newest)
        BY <1>0, <3>1, SMT DEF OldLocals, Ages
      <3>3. journal'.credsHash = None
        BY <2>3, SMT
      <3> QED BY <2>1, <3>1, <3>2, <3>3, AgesStill, SMT
    <2> QED BY <1>3, <2>2, <2>3, Zenon DEF step6
  <1> QED BY <1>1, <1>2, <1>3

\* Steps 7 to 9 and the rollback keep the age part.
LEMMA AgesOwn ==
    ASSUME TypeOK, TypeOK', Files, Ages, NEW p \in Procs,
           writeStagedRollback(p) \/ intent7(p) \/ write7(p) \/ mark7(p) \/ intent8(p) \/ write8(p)
           \/ commit9(p) \/ rollbackSource(p) \/ rollbackConfig(p) \/ rollbackLive(p)
    PROVE  Ages'
  <1>1. CASE writeStagedRollback(p)
    <2>1. \A s \in Switchers : staged'[s] \in {staged[s], loc[p].out}
      BY <1>1, SMT DEF writeStagedRollback, Effect, TypeOK
    <2> QED BY <1>1, <2>1, AgesMoved, SMT DEF writeStagedRollback, Ages, SameCopies
  <1>2. CASE intent7(p)
    <2>1. UNCHANGED <<live, config, active, slot, prev, stash, staged, committed, locks, env>>
      BY <1>2, Zenon DEF intent7
    <2>2. journal' = journal \/ journal'.credsHash = loc[p].tgt
      BY <1>2, Intent7File, SMT DEF CredsStarted
    <2>3. SameCopies(loc[p], loc'[p]) /\ \A q \in Procs : q # p => loc'[q] = loc[q]
      BY <1>2, Intent7Loc
    <2>4. journal # None
      BY <1>2, InSection, SMT DEF intent7, Own
    <2> QED BY <2>1, <2>2, <2>3, <2>4, AgesStill, SMT
  <1>3. CASE write7(p)
    <2>1. live' \in {live, loc[p].tgt}
      BY <1>3, Zenon DEF write7, Effect
    <2> QED BY <1>3, <2>1, AgesMoved, SMT DEF write7, Ages, OldLocals, SameCopies
  <1>4. CASE mark7(p)
    <2>1. UNCHANGED <<live, config, active, slot, prev, stash, staged, committed, locks, loc, env>>
      BY <1>4, Zenon DEF mark7
    <2>2. journal'.credsHash = journal.credsHash /\ journal # None
      BY <1>4, Mark7File, InSection, SMT DEF KeptFile, mark7, Own
    <2> QED BY <2>1, <2>2, AgesStill, SMT DEF SameCopies
  <1>5. CASE intent8(p)
    <2>1. UNCHANGED <<live, config, active, slot, prev, stash, staged, committed, lock, env>>
      BY <1>5, Zenon DEF intent8
    <2>2. journal'.credsHash = journal.credsHash /\ journal # None
      BY <1>5, Intent8File, InSection, SMT DEF KeptFile, intent8, Own
    <2>3. PICK label : Goto(p, label)
      BY <1>5, Zenon DEF intent8, Effect
    <2>4. Set(p, [loc[p] EXCEPT !.undo = ConfigIntent(loc[p].undo, loc[p].to)])
      BY <1>5, Zenon DEF intent8
    <2>5. SameCopies(loc[p], loc'[p]) /\ \A q \in Procs : q # p => loc'[q] = loc[q]
      BY <2>3, <2>4, UndoLoc, Zenon
    <2> QED BY <2>1, <2>2, <2>5, AgesStill, SMT
  <1>6. CASE write8(p) \/ commit9(p)
    <2>1. UNCHANGED <<live, slot, prev, staged, journal, loc, newest>>
      BY <1>6, Zenon DEF write8, commit9
    <2> QED BY <2>1, AgesStill, SMT DEF SameCopies
  <1>7. CASE rollbackSource(p)
    <2>1. UNCHANGED <<disk, locks, env>> /\ Goto(p, "rbConfig")
      BY <1>7, Zenon DEF rollbackSource
    <2>2. UNCHANGED loc \/ Set(p, [loc[p] EXCEPT !.undo = journal.undo])
      BY <1>7, Zenon DEF rollbackSource
    <2>3. SameCopies(loc[p], loc'[p]) /\ \A q \in Procs : q # p => loc'[q] = loc[q]
      BY <2>1, <2>2, UndoLoc, Zenon DEF SameCopies
    <2> QED BY <2>1, <2>3, AgesStill, SMT
  <1>8. CASE rollbackConfig(p)
    <2>1. UNCHANGED <<live, active, slot, prev, stash, staged, journal, committed, locks, env>> /\ Goto(p, "rbLive")
      BY <1>8, Zenon DEF rollbackConfig
    <2>2. UNCHANGED loc \/ Set(p, [loc[p] EXCEPT !.failed = TRUE])
      BY <1>8, Zenon DEF rollbackConfig
    <2>3. SameCopies(loc[p], loc'[p]) /\ \A q \in Procs : q # p => loc'[q] = loc[q]
      BY <2>1, <2>2, FailedLoc, Zenon DEF SameCopies
    <2> QED BY <2>1, <2>3, AgesStill, SMT
  <1>9. CASE rollbackLive(p)
    <2>1. live' \in {live, loc[p].out}
      BY <1>9, SMT DEF rollbackLive
    <2>2. Finish(p) \/ UNCHANGED loc
      BY <1>9, Zenon DEF rollbackLive
    <2> QED BY <1>9, <2>1, <2>2, StayLoc, AgesMoved, SMT DEF rollbackLive, Ages, OldLocals
  <1> QED BY <1>1, <1>2, <1>3, <1>4, <1>5, <1>6, <1>7, <1>8, <1>9

\* The end of a switch and the recovery keep the age part.
LEMMA AgesRest ==
    ASSUME TypeOK, TypeOK', Files, Ages, NEW p \in Procs,
           stageFailed(p) \/ markCommitted(p) \/ markClosed(p) \/ deleteStagedRollback(p)
           \/ deleteClaudeSwitchJournal(p) \/ RecoveryStep(p)
    PROVE  Ages'
  <1>1. CASE stageFailed(p) \/ markCommitted(p) \/ markClosed(p)
    <2>1. UNCHANGED <<live, slot, prev, staged, newest>> /\ (Finish(p) \/ UNCHANGED loc)
      BY <1>1, Zenon DEF stageFailed, markCommitted, markClosed, LastEffect
    <2>2. journal'.credsHash = journal.credsHash /\ journal # None
      BY <1>1, EndedFile, InSection, SMT DEF KeptFile, stageFailed, markCommitted, markClosed, Own, Closing
    <2> QED BY <2>1, <2>2, StayLoc, AgesStill, SMT
  <1>2. CASE deleteStagedRollback(p)
    <2>1. UNCHANGED <<live, slot, prev, newest, journal>> /\ (Finish(p) \/ UNCHANGED loc)
      BY <1>2, Zenon DEF deleteStagedRollback, LastEffect
    <2>2. \A s \in Switchers : staged'[s] \in {staged[s], None}
      BY <1>2, SMT DEF deleteStagedRollback, LastEffect, TypeOK
    <2> QED BY <2>1, <2>2, StayLoc, AgesMoved, SMT DEF Ages
  <1>3. CASE deleteClaudeSwitchJournal(p)
    <2>1. /\ UNCHANGED <<live, slot, prev, staged, newest>> /\ (Finish(p) \/ UNCHANGED loc)
          /\ journal' = None \/ journal' = journal
      BY <1>3, Zenon DEF deleteClaudeSwitchJournal
    <2> QED BY <2>1, StayLoc, AgesStill, SMT
  <1>4. CASE beginRecovery(p) \/ giveUpRecovery(p)
    BY <1>4, AgesOutside
  <1>5. CASE recheck(p) \/ reconcileConfig(p) \/ resolveBackConfig(p) \/ resolveForwardWrite(p) \/ resolveForwardCommit(p)
    <2>1. UNCHANGED <<live, slot, prev, staged, newest, journal>> /\ (Finish(p) \/ UNCHANGED loc)
      BY <1>5, Zenon DEF recheck, reconcileConfig, resolveBackConfig, resolveForwardWrite, resolveForwardCommit, LastEffect
    <2> QED BY <2>1, StayLoc, AgesStill, SMT
  <1>6. CASE restoreLiveFromStaged(p) \/ resolveBackLive(p)
    <2>1. UNCHANGED <<slot, prev, staged, newest, journal>> /\ (Finish(p) \/ UNCHANGED loc) /\ live' \in {live, StagedCopy}
      BY <1>6, Zenon DEF restoreLiveFromStaged, resolveBackLive, LastEffect
    <2>2. OlderThan(live', newest)
      <3>1. journal.attempt \in Switchers
        BY <1>6, RecoveryAt, SMT DEF restoreLiveFromStaged, resolveBackLive, Rec
      <3> QED BY <2>1, <3>1, SMT DEF Ages, StagedCopy
    <2> QED BY <2>1, <2>2, StayLoc, AgesMoved, SMT DEF Ages
  <1>7. CASE resolveForwardConfig(p)
    <2>1. UNCHANGED <<live, slot, prev, staged, newest>> /\ (Finish(p) \/ UNCHANGED loc)
      BY <1>7, Zenon DEF resolveForwardConfig, LastEffect
    <2>2. journal' = journal \/ (journal'.credsHash = journal.credsHash /\ journal # None)
      <3>1. pc[p] = "fwdConfig"
        BY <1>7, Zenon DEF resolveForwardConfig
      <3> QED BY <1>7, <3>1, ForwardFile, RecoveryAt, SMT DEF Forwarded, Rec
    <2> QED BY <2>1, <2>2, StayLoc, AgesStill, SMT
  <1> QED BY <1>1, <1>2, <1>3, <1>4, <1>5, <1>6, <1>7, Zenon DEF RecoveryStep

\* What the provider issues.
LEMMA Issued ==
    ASSUME TypeOK, NEW a \in People, NEW c \in Creds, Issue(a, c), newest[a].acct = a,
           c.acct = a, c.n = newest[a].n + 1, c.fam \in {newest[a].fam, newest[a].fam + 1}
    PROVE  /\ Grown(newest, newest') /\ newest' \in [People -> Creds]
           /\ newest'[a] = c /\ \A b \in People : b # a => newest'[b] = newest[b]
           /\ OlderThan(c, newest')
  <1>1. newest' = [newest EXCEPT ![a] = c] /\ newest \in [People -> Creds]
    BY SMT DEF Issue, TypeOK
  <1>2. newest[a].n \in Nat /\ newest[a].fam \in Nat
    BY <1>1, SMT DEF Creds
  <1>3. newest' \in [People -> Creds] /\ newest'[a] = c /\ \A b \in People : b # a => newest'[b] = newest[b]
    BY <1>1, SMT
  <1>4. Grown(newest, newest')
    BY <1>2, <1>3, SMT DEF Grown
  <1>5. c.n \in Nat /\ c.fam \in Nat
    BY SMT DEF Creds
  <1>6. OlderThan(c, newest')
    BY <1>3, <1>5, SMT DEF OlderThan
  <1> QED BY <1>3, <1>4, <1>6

\* Issuing the next credential of an account keeps the age part.
LEMMA AgesIssued ==
    ASSUME TypeOK, Ages, NEW a \in People, NEW c \in Creds, Issue(a, c),
           c.acct = a, c.n = newest[a].n + 1, c.fam \in {newest[a].fam, newest[a].fam + 1},
           UNCHANGED <<slot, prev, staged, journal>>,
           live' \in {live, c},
           UNCHANGED loc \/ \E p \in Procs : /\ \A q \in Procs : q # p => loc'[q] = loc[q]
                                             /\ SlotsSeen(loc[p], loc'[p], a, slot[a])
                                             /\ loc'[p].tgt = c /\ a \in Accounts
    PROVE  Ages'
  <1>1. newest[a].acct = a
    BY SMT DEF Ages
  <1>2. /\ Grown(newest, newest') /\ newest' \in [People -> Creds]
        /\ newest'[a] = c /\ \A b \in People : b # a => newest'[b] = newest[b]
        /\ OlderThan(c, newest')
    BY <1>1, Issued
  <1>3. /\ \A b \in People : newest'[b].acct = b
        /\ OlderThan(live, newest')
        /\ \A b \in Accounts : OlderThan(slot[b], newest') /\ OlderThan(prev[b], newest')
        /\ \A s \in Switchers : OlderThan(staged[s], newest')
        /\ journal # None => OlderThan(journal.credsHash, newest')
        /\ \A p \in Procs : OldLocals(loc[p], newest')
    BY <1>2, AgesGrow, SMT DEF TypeOK
  <1>4. \A p \in Procs : OldLocals(loc'[p], newest')
    BY <1>2, <1>3, SMT DEF OldLocals, SlotsSeen
  <1> QED BY <1>2, <1>3, <1>4, SMT DEF Ages

\* What the provider's answer issues: the next credential, in the next family, for the slot's.
LEMMA Posted ==
    ASSUME TypeOK, NEW p \in Procs, postRefresh(p), \A a \in People : newest[a].acct = a
    PROVE  LET a == loc[p].to
               c == Rotated(newest[a])
           IN /\ a \in Accounts /\ a \in People /\ c \in Creds /\ Issue(a, c)
              /\ c.acct = a /\ c.n = newest[a].n + 1 /\ c.fam = newest[a].fam + 1
              /\ slot[a].fam = newest[a].fam
              /\ UNCHANGED <<live, config, active, slot, prev, stash, staged, journal, committed, lock, configLock,
                             gone, settings, misadopted, faults>>
  <1>1. loc[p].to \in Accounts /\ loc[p].to \in People /\ newest[loc[p].to] \in Creds
    BY LocalFields, SMT DEF TypeOK, People
  <1>2. /\ Issue(loc[p].to, Rotated(newest[loc[p].to]))
        /\ sameCredentialLineage(slot[loc[p].to], newest[loc[p].to])
        /\ UNCHANGED <<live, config, active, slot, prev, stash, staged, journal, committed, lock, configLock,
                       gone, settings, misadopted, faults>>
    BY Zenon DEF postRefresh
  <1> QED BY <1>1, <1>2, RotatedTyped, SMT DEF sameCredentialLineage

\* The provider's answer keeps the age part.
LEMMA AgesPost == ASSUME TypeOK, Ages, NEW p \in Procs, postRefresh(p) PROVE Ages'
  <1>1. \A a \in People : newest[a].acct = a
    BY Zenon DEF Ages
  <1> DEFINE a == loc[p].to
             c == Rotated(newest[a])
  <1>2. /\ a \in Accounts /\ a \in People /\ c \in Creds /\ Issue(a, c)
        /\ c.acct = a /\ c.n = newest[a].n + 1 /\ c.fam = newest[a].fam + 1
        /\ UNCHANGED <<live, slot, prev, staged, journal>>
    BY <1>1, Posted
  <1>3. /\ \A q \in Procs : q # p => loc'[q] = loc[q]
        /\ SlotsSeen(loc[p], loc'[p], a, slot[a]) /\ loc'[p].tgt = c
    BY PostLoc
  <1> HIDE DEF c, a
  <1> QED BY <1>2, <1>3, AgesIssued, SMT

\* What Claude Code's own refresh issues: the next credential of the live account, when the
\* live one is its newest and nobody holds the lock.
LEMMA Refreshed ==
    ASSUME TypeOK, \A a \in People : newest[a].acct = a, ccRefresh
    PROVE  \E c \in Creds :
             /\ Issue(live.acct, c) /\ live' = c /\ live.acct \in People /\ live \in Creds /\ live = newest[live.acct]
             /\ c.acct = live.acct /\ c.n = newest[live.acct].n + 1 /\ c.fam \in {newest[live.acct].fam, newest[live.acct].fam + 1}
             /\ lock = None
             /\ UNCHANGED <<config, active, slot, prev, stash, staged, journal, committed,
                            locks, pc, loc, gone, settings, misadopted, faults>>
  <1>1. live = newest[live.acct] /\ lock = None
        /\ UNCHANGED <<config, active, slot, prev, stash, staged, journal, committed,
                       locks, pc, loc, gone, settings, misadopted, faults>>
    BY Zenon DEF ccRefresh
  <1> QED BY <1>1, CcRefreshed, Zenon

\* What a login issues, and what it writes.
LEMMA LoggedInAs ==
    ASSUME TypeOK, \A b \in People : newest[b].acct = b, NEW a \in LoginAccounts, ccLogin(a)
    PROVE  LET c == Rotated(newest[a])
           IN /\ a \in People /\ c \in Creds /\ Issue(a, c) /\ live' = c
              /\ c.acct = a /\ c.n = newest[a].n + 1 /\ c.fam = newest[a].fam + 1
              /\ lock = None /\ config'.oauth = a /\ gone' = gone \cup ({live} \ {Wiped})
              /\ UNCHANGED <<active, slot, prev, stash, staged, journal, committed, locks, pc, loc, settings,
                             misadopted, faults>>
  <1>1. a \in People /\ newest[a] \in Creds
    BY LoginAssumption, SMT DEF TypeOK
  <1> QED BY <1>1, RotatedTyped, SMT DEF ccLogin

\* Claude Code, stale locks and crashes keep the age part.
LEMMA AgesOthers ==
    ASSUME TypeOK, TypeOK', Ages,
           ccRefresh \/ lockStale \/ ccSettings \/ (\E a \in LoginAccounts : ccLogin(a)) \/ (\E p \in Procs : crash(p))
    PROVE  Ages'
  <1>0. \A a \in People : newest[a].acct = a
    BY Zenon DEF Ages
  <1>1. CASE ccRefresh
    <2>1. PICK c \in Creds :
             /\ Issue(live.acct, c) /\ live' = c /\ live.acct \in People
             /\ c.acct = live.acct /\ c.n = newest[live.acct].n + 1 /\ c.fam \in {newest[live.acct].fam, newest[live.acct].fam + 1}
             /\ UNCHANGED <<slot, prev, staged, journal, loc>>
      BY <1>0, <1>1, Refreshed, Zenon
    <2> QED BY <2>1, AgesIssued
  <1>2. ASSUME NEW a \in LoginAccounts, ccLogin(a) PROVE Ages'
    <2> DEFINE c == Rotated(newest[a])
    <2>1. /\ a \in People /\ c \in Creds /\ Issue(a, c) /\ live' = c
          /\ c.acct = a /\ c.n = newest[a].n + 1 /\ c.fam = newest[a].fam + 1
          /\ UNCHANGED <<slot, prev, staged, journal, loc>>
      BY <1>0, <1>2, LoggedInAs, SMT
    <2> HIDE DEF c
    <2> QED BY <2>1, AgesIssued
  <1>3. CASE lockStale \/ ccSettings
    <2>1. UNCHANGED <<live, slot, prev, staged, journal, newest, loc>>
      BY <1>3, Zenon DEF lockStale, ccSettings
    <2> QED BY <2>1, SMT DEF Ages
  <1>4. ASSUME NEW p \in Procs, crash(p) PROVE Ages'
    <2>1. UNCHANGED <<live, slot, prev, staged, journal, newest>> /\ Set(p, NoLocals)
      BY <1>4, Zenon DEF crash
    <2>2. SameCopies(NoLocals, loc'[p]) /\ \A q \in Procs : q # p => loc'[q] = loc[q]
      BY <2>1, Constants, SetLoc, SMT DEF TypeOK, SameCopies
    <2> QED BY <2>1, <2>2, AgesStill, SMT
  <1> QED BY <1>1, <1>2, <1>3, <1>4

\* Every step keeps the age part.
LEMMA AgesStep == ASSUME TypeOK, TypeOK', Files, Ages, Next PROVE Ages'
  <1>1. ASSUME NEW p \in Procs, Step(p) PROVE Ages'
    <2>1. CASE acquire(p)
      BY <2>1, AgesOutside
    <2>2. CASE SwitchStep(p)
      <3>1. CASE start(p) \/ prepareClaudeSwitch(p) \/ alreadyFresh(p) \/ persistRefresh(p) \/ refuse(p)
        BY <3>1, AgesOutside
      <3>2. CASE postRefresh(p) \/ step4(p) \/ step5(p) \/ step6(p) \/ stageFailed(p)
        BY <3>2, AgesPost, AgesSteps, AgesRest
      <3>3. CASE writeStagedRollback(p) \/ intent7(p) \/ write7(p) \/ mark7(p) \/ intent8(p) \/ write8(p)
                 \/ commit9(p) \/ rollbackSource(p) \/ rollbackConfig(p) \/ rollbackLive(p)
        BY <3>3, AgesOwn
      <3> QED BY <2>2, <3>1, <3>2, <3>3, Zenon DEF SwitchStep
    <2>3. CASE markCommitted(p) \/ markClosed(p) \/ deleteStagedRollback(p) \/ deleteClaudeSwitchJournal(p)
               \/ RecoveryStep(p)
      BY <2>3, AgesRest
    <2> QED BY <1>1, <2>1, <2>2, <2>3, Zenon DEF Step
  <1> QED BY <1>1, AgesOthers, Zenon DEF Next

\* The age part holds initially.
LEMMA AgesInit == ASSUME Init PROVE Ages
  <1>1. \A a \in People : First(a) \in Creds /\ First(a).acct = a /\ First(a).n = 0 /\ First(a).fam = 0
    BY SMT DEF First, Creds
  <1>2. \A a \in People : newest[a] = First(a)
    BY SMT DEF Init
  <1>3. \A a \in People : OlderThan(First(a), newest)
    BY <1>1, <1>2, SMT DEF OlderThan
  <1>4. OlderThan(Wiped, newest) /\ OlderThan(None, newest)
    BY NotCreds, Zenon DEF OlderThan
  <1>5. \A p \in Procs : OldLocals(loc[p], newest)
    <2>1. \A p \in Procs : loc[p] = NoLocals
      BY SMT DEF Init
    <2> QED BY <1>4, <2>1, EmptyLoc, SMT DEF OldLocals
  <1>6. /\ live = First(active) /\ active \in People /\ journal = None
        /\ \A a \in Accounts : slot[a] = First(a) /\ prev[a] = Wiped /\ a \in People
        /\ \A s \in Switchers : staged[s] = None
    BY SMT DEF Init, People
  <1> QED BY <1>1, <1>2, <1>3, <1>4, <1>5, <1>6, SMT DEF Ages

\* Nothing is asked of a process outside the locked section.
LEMMA SectionIdle ==
    ASSUME NEW q \in Procs, pc'[q] \notin Locked
    PROVE  SectionAligned(q)'
  BY SMT DEF SectionAligned, Locked, Own

\* A process's alignment survives a step that moves neither it nor what it relies on.
LEMMA SectionFrame ==
    ASSUME TypeOK, NEW q \in Procs, SectionAligned(q), pc'[q] = pc[q], loc'[q] = loc[q],
           UNCHANGED <<live, journal, staged, committed, slot>>, config'.oauth = config.oauth,
           newest' \in [People -> Creds], Grown(newest, newest')
    PROVE  SectionAligned(q)'
  <1>1. /\ Pending' = Pending /\ StagedCopy' = StagedCopy
        /\ \A l : Undoable(l, journal.undo)' = Undoable(l, journal.undo)
        /\ \A l, u : Undoable(l, u)' = Undoable(l, u)
    BY SMT DEF Pending, StagedCopy, Unfinished, finished, Undoable
  <1>2. \A a \in People : newest[a].n \in Nat /\ newest'[a].n \in Nat /\ newest'[a].n >= newest[a].n
    BY SMT DEF TypeOK, Creds, Grown
  <1>3. loc[q].from \in People /\ (loc[q].out \in Creds => loc[q].out.n \in Nat)
    BY LocalFields, SMT DEF TypeOK, Creds, People
  <1>4. pc[q] = "step5" /\ loc[q].republish /\ loc[q].prep.freshened =>
          loc[q].out.acct = loc[q].from /\ loc[q].out.n < newest'[loc[q].from].n
    <2>1. SUFFICES ASSUME pc[q] = "step5", loc[q].republish, loc[q].prep.freshened
                   PROVE  loc[q].out.acct = loc[q].from /\ loc[q].out.n < newest'[loc[q].from].n
      OBVIOUS
    <2>2. loc[q].out.acct = loc[q].from /\ loc[q].out.n < newest[loc[q].from].n
      BY <2>1, Zenon DEF SectionAligned
    <2>3. loc[q].out \in Creds
      BY <1>3, <2>2, LocalFields, AccountsAssumption, SMT DEF TypeOK, Blobs, Wiped
    <2> QED BY <1>2, <1>3, <2>2, <2>3, SMT
  <1> QED BY <1>1, <1>4, SMT DEF SectionAligned

\* A process's preparation survives a step that does not move it.
LEMMA PrepFrame ==
    ASSUME TypeOK, NEW q \in Procs, PrepAligned(q), pc'[q] = pc[q], loc'[q] = loc[q],
           newest' \in [People -> Creds], Grown(newest, newest')
    PROVE  PrepAligned(q)'
  <1>1. \A a \in People : newest[a].n \in Nat /\ newest'[a].n \in Nat /\ newest'[a].n >= newest[a].n
    BY SMT DEF TypeOK, Creds, Grown
  <1>2. loc[q].to \in People /\ loc[q].prep.pre.n \in Nat
    BY LocalFields, SMT DEF TypeOK, Creds, Blobs, Wiped, People
  <1> QED BY <1>1, <1>2, SMT DEF PrepAligned

\* A step that issues nothing lets every age stand.
LEMMA Ungrown == ASSUME TypeOK, newest' = newest PROVE newest' \in [People -> Creds] /\ Grown(newest, newest')
  BY SMT DEF Grown, TypeOK

\* The rest of the invariant under a step of the lock's holder.
LEMMA StayAligned ==
    ASSUME TypeOK, Files, Aligned, NEW p \in Procs, pc[p] \in Locked, newest' = newest,
           \A q \in Procs : q # p => pc'[q] = pc[q] /\ loc'[q] = loc[q],
           SlotOwn', FileAligned', PrepAligned(p)', SectionAligned(p)'
    PROVE  Aligned'
  <1>1. ASSUME NEW q \in Procs, q # p PROVE PrepAligned(q)' /\ SectionAligned(q)'
    <2>1. PrepAligned(q) /\ pc'[q] = pc[q] /\ loc'[q] = loc[q] /\ pc[q] \notin Locked
      BY <1>1, Solo DEF Aligned
    <2> QED BY <2>1, Ungrown, PrepFrame, SectionIdle
  <1> QED BY <1>1 DEF Aligned

\* Leaving the locked section keeps the alignment, once that of the file is known.
LEMMA FinishAligned ==
    ASSUME TypeOK, Files, Aligned, NEW p \in Procs, pc[p] \in Locked, newest' = newest, Finish(p),
           SlotOwn', FileAligned'
    PROVE  Aligned'
  <1>1. pc'[p] \in {"idle", "done"} /\ \A q \in Procs : q # p => pc'[q] = pc[q] /\ loc'[q] = loc[q]
    BY FinishTyped, SMT
  <1>2. PrepAligned(p)'
    BY <1>1, SMT DEF PrepAligned, Prepped, Before
  <1>3. SectionAligned(p)'
    BY <1>1, SectionIdle, SMT DEF Locked
  <1> QED BY <1>1, <1>2, <1>3, StayAligned

\* The file part under a step that leaves the stores and the journal alone.
LEMMA FileStill ==
    ASSUME FileAligned, UNCHANGED <<live, journal, slot, prev, staged, committed>>, config'.oauth = config.oauth,
           \A q \in Procs : pc'[q] = "persist" => pc[q] = "persist" /\ loc'[q] = loc[q]
    PROVE  FileAligned'
  <1>1. Pending' = Pending /\ StagedCopy' = StagedCopy /\ LiveMoved' = LiveMoved
    BY SMT DEF Pending, StagedCopy, Unfinished, finished, LiveMoved
  <1> QED BY <1>1, SMT DEF FileAligned, Untouched, LoggedIn

\* Slots that are left alone stay those of their accounts.
LEMMA SlotStill == ASSUME SlotOwn, UNCHANGED <<slot, prev>>, live' \in Creds PROVE SlotOwn'
  BY SMT DEF SlotOwn

-----------------------------------------------------------------------------
\* The alignment part: one lemma for each action.

\* A step outside the locked section that leaves the stores and the journal alone.
LEMMA OutsideAligned ==
    ASSUME TypeOK, Files, Aligned, NEW p \in Procs, newest' = newest,
           UNCHANGED <<live, config, journal, slot, prev, staged, committed>>,
           \A q \in Procs : q # p => pc'[q] = pc[q] /\ loc'[q] = loc[q],
           pc'[p] # "persist",
           PrepAligned(p)', SectionAligned(p)'
    PROVE  Aligned'
  <1>1. ASSUME NEW q \in Procs, q # p PROVE PrepAligned(q)' /\ SectionAligned(q)'
    <2>1. PrepAligned(q) /\ SectionAligned(q) /\ pc'[q] = pc[q] /\ loc'[q] = loc[q]
      BY <1>1 DEF Aligned
    <2> QED BY <2>1, Ungrown, PrepFrame, SectionFrame
  <1>2. FileAligned'
    BY FileStill, SMT DEF Aligned
  <1>3. SlotOwn'
    BY SlotStill, SMT DEF Aligned, SlotOwn
  <1> QED BY <1>1, <1>2, <1>3 DEF Aligned

\* A request keeps the alignment of the live credential, the config and the locals.
LEMMA StartAligned == ASSUME TypeOK, Files, Aligned, NEW p \in Procs, p \in Switchers, start(p) PROVE Aligned'
  <1>1. /\ SameCopies(loc[p], loc'[p]) /\ SameUndo(loc[p], loc'[p]) /\ pc'[p] = "prepare" /\ pc[p] = "start"
        /\ \A q \in Procs : q # p => loc'[q] = loc[q] /\ pc'[q] = pc[q]
    BY StartLoc, Zenon DEF start
  <1>2. UNCHANGED <<disk, locks, env, faults>>
    BY Zenon DEF start
  <1>3. PrepAligned(p)'
    BY <1>1, SMT DEF Aligned, PrepAligned, SameUndo, Prepped, Before
  <1>4. SectionAligned(p)'
    BY <1>1, SectionIdle, SMT DEF Locked
  <1> QED BY <1>1, <1>2, <1>3, <1>4, OutsideAligned

\* The preparation outside the lock keeps the alignment of the live credential, the config and the locals.
LEMMA PrepareAligned == ASSUME TypeOK, Files, Aligned, NEW p \in Procs, p \in Switchers, prepareClaudeSwitch(p) PROVE Aligned'
  <1>1. /\ SameRequest(loc[p], loc'[p]) /\ SameUndo(loc[p], loc'[p])
        /\ loc'[p].prep.live = live /\ loc'[p].prep.resolved \in {live.acct, None}
        /\ loc'[p].prep.slots = slot /\ ~loc'[p].prep.freshened /\ loc'[p].prep.pre = slot[loc[p].to]
        /\ \/ pc'[p] = "lock"
           \/ pc'[p] = "freshen" /\ ~loc[p].republish
        /\ \A q \in Procs : q # p => loc'[q] = loc[q] /\ pc'[q] = pc[q]
    BY PrepareLoc
  <1>2. UNCHANGED <<disk, locks, env, faults>> /\ pc[p] = "prepare"
    BY Zenon DEF prepareClaudeSwitch
  <1>3. loc[p].to \in Accounts
    BY LocalFields, SMT DEF TypeOK
  <1>4. PrepAligned(p)'
    BY <1>1, <1>2, <1>3, SMT DEF Aligned, SlotOwn, PrepAligned, SameUndo, SameRequest, Before
  <1>5. SectionAligned(p)'
    BY <1>1, SectionIdle, SMT DEF Locked
  <1> QED BY <1>1, <1>2, <1>4, <1>5, OutsideAligned, SMT

\* A target that needs no refresh keeps the alignment of the live credential, the config and the locals.
LEMMA FreshAligned == ASSUME TypeOK, Files, Aligned, NEW p \in Procs, p \in Switchers, alreadyFresh(p) PROVE Aligned'
  <1>1. /\ SlotsSeen(loc[p], loc'[p], loc[p].to, slot[loc[p].to])
        /\ loc'[p].prep.freshened = loc[p].prep.freshened /\ pc'[p] = "lock"
        /\ \A q \in Procs : q # p => loc'[q] = loc[q] /\ pc'[q] = pc[q]
    BY FreshLoc
  <1>2. UNCHANGED <<disk, locks, env, faults>> /\ pc[p] = "freshen"
    BY Zenon DEF alreadyFresh
  <1>3. loc[p].to \in Accounts
    BY LocalFields, SMT DEF TypeOK
  <1>4. PrepAligned(p)'
    BY <1>1, <1>2, <1>3, SMT DEF Aligned, SlotOwn, PrepAligned, SlotsSeen, SameUndo, SameRequest, Before, Prepped
  <1>5. SectionAligned(p)'
    BY <1>1, SectionIdle, SMT DEF Locked
  <1> QED BY <1>1, <1>2, <1>4, <1>5, OutsideAligned, SMT

\* A refusal, an abandoned or a started recovery and the acquisition of the lock keeps the alignment of the live credential, the config and the locals.
LEMMA QuitAligned ==
    ASSUME TypeOK, Files, Aligned, NEW p \in Procs, refuse(p) \/ giveUpRecovery(p) \/ beginRecovery(p) \/ acquire(p)
    PROVE  Aligned'
  <1>1. CASE refuse(p) \/ giveUpRecovery(p)
    <2>1. UNCHANGED <<disk, configLock, env, faults>> /\ Finish(p)
      BY <1>1, Zenon DEF refuse, giveUpRecovery
    <2>2. pc'[p] \in {"idle", "done"} /\ \A q \in Procs : q # p => pc'[q] = pc[q] /\ loc'[q] = loc[q]
      BY <2>1, FinishTyped, SMT
    <2>3. PrepAligned(p)'
      BY <2>2, SMT DEF PrepAligned, Prepped, Before
    <2>4. SectionAligned(p)'
      BY <2>2, SectionIdle, SMT DEF Locked
    <2> QED BY <2>1, <2>2, <2>3, <2>4, OutsideAligned, SMT
  <1>2. CASE beginRecovery(p)
    <2>1. PICK f \in BOOLEAN : Goto(p, "lock") /\ Set(p, [NoLocals EXCEPT !.forward = f])
      BY <1>2, Zenon DEF beginRecovery
    <2>2. pc'[p] = "lock" /\ \A q \in Procs : q # p => loc'[q] = loc[q] /\ pc'[q] = pc[q]
      BY <2>1, BeginLoc
    <2>3. p \notin Switchers
      BY <1>2, SMT DEF beginRecovery, Files, LockHeld, Before, Own, Closing
    <2>4. PrepAligned(p)'
      BY <2>2, <2>3, SMT DEF PrepAligned
    <2>5. SectionAligned(p)'
      BY <2>2, SectionIdle, SMT DEF Locked
    <2>6. UNCHANGED <<disk, locks, env, faults>>
      BY <1>2, Zenon DEF beginRecovery
    <2> QED BY <2>2, <2>4, <2>5, <2>6, OutsideAligned, SMT
  <1>3. CASE acquire(p)
    <2>1. UNCHANGED <<disk, configLock, loc, env, faults>> /\ pc[p] = "lock"
      BY <1>3, Zenon DEF acquire
    <2>2. pc'[p] = (IF p \in Switchers THEN "step4" ELSE "recheck") /\ \A q \in Procs : q # p => pc'[q] = pc[q]
      BY <1>3, GotoPc, SMT DEF acquire, TypeOK, Locked
    <2>3. PrepAligned(p)'
      BY <2>1, <2>2, SMT DEF Aligned, PrepAligned, Prepped, Before
    <2>4. SectionAligned(p)'
      BY <2>2, SMT DEF SectionAligned, Own
    <2> QED BY <2>1, <2>2, <2>3, <2>4, OutsideAligned, SMT
  <1> QED BY <1>1, <1>2, <1>3

\* A crash keeps the alignment of the live credential, the config and the locals.
LEMMA CrashAligned == ASSUME TypeOK, Files, Aligned, NEW p \in Procs, crash(p) PROVE Aligned'
  <1>1. UNCHANGED <<disk, newest, issued, settings, misadopted>> /\ Set(p, NoLocals)
    BY Zenon DEF crash
  <1>2. PICK label \in {"idle", "crashed"} : Goto(p, label)
    BY Zenon DEF crash
  <1>3. pc'[p] = label /\ \A q \in Procs : q # p => loc'[q] = loc[q] /\ pc'[q] = pc[q]
    BY <1>1, <1>2, OthersStay, SMT
  <1>4. PrepAligned(p)'
    BY <1>3, SMT DEF PrepAligned, Prepped, Before
  <1>5. SectionAligned(p)'
    BY <1>3, SectionIdle, SMT DEF Locked
  <1> QED BY <1>1, <1>3, <1>4, <1>5, OutsideAligned, SMT

\* A stale lock and a settings write keeps the alignment of the live credential, the config and the locals.
LEMMA StillAligned == ASSUME TypeOK, Files, Aligned, lockStale \/ ccSettings PROVE Aligned'
  <1>1. UNCHANGED <<live, journal, slot, prev, staged, committed, newest, pc, loc>>
    BY Zenon DEF lockStale, ccSettings
  <1>2. config'.oauth = config.oauth
    BY SettingsKept, SMT DEF lockStale
  <1>3. ASSUME NEW q \in Procs PROVE PrepAligned(q)' /\ SectionAligned(q)'
    BY <1>1, <1>2, Ungrown, PrepFrame, SectionFrame, SMT DEF Aligned
  <1>4. FileAligned' /\ SlotOwn'
    BY <1>1, <1>2, FileStill, SlotStill, SMT DEF Aligned, SlotOwn
  <1> QED BY <1>3, <1>4 DEF Aligned

\* A slot and its previous copy are no newer than the newest.
LEMMA OldSlots ==
    ASSUME TypeOK, Ages, SlotOwn, NEW a \in Accounts
    PROVE  /\ slot[a].fam \in Nat /\ slot[a].fam <= newest[a].fam /\ slot[a].n <= newest[a].n
           /\ prev[a].fam \in Nat /\ prev[a].fam <= newest[a].fam
           /\ newest[a].fam \in Nat /\ newest[a].n \in Nat /\ newest[a] \in Creds /\ a \in People
  <1>1. a \in People /\ newest[a] \in Creds /\ slot[a] \in Creds /\ slot[a].acct = a
    BY SMT DEF TypeOK, People, SlotOwn
  <1>2. newest[a].fam \in Nat /\ newest[a].n \in Nat /\ slot[a].fam \in Nat /\ slot[a].n \in Nat
    BY <1>1, SMT DEF Creds
  <1>3. slot[a].fam <= newest[a].fam /\ slot[a].n <= newest[a].n
    BY <1>1, SMT DEF Ages, OlderThan
  <1>4. prev[a] = Wiped \/ (prev[a] \in Creds /\ prev[a].acct = a)
    <2>1. prev[a] \in Blobs /\ prev[a].acct \in {a, None}
      BY SMT DEF TypeOK, SlotOwn
    <2> QED BY <2>1, AccountsAssumption, SMT DEF Blobs, Creds
  <1>5. prev[a].fam \in Nat /\ prev[a].fam <= newest[a].fam
    <2>1. CASE prev[a] = Wiped
      BY <1>2, <2>1, SMT DEF Wiped
    <2>2. CASE prev[a] \in Creds /\ prev[a].acct = a
      BY <2>2, SMT DEF Ages, OlderThan, Creds
    <2> QED BY <1>4, <2>1, <2>2
  <1> QED BY <1>1, <1>2, <1>3, <1>5

\* The provider's answer to a refresh keeps the alignment of the live credential, the config and the locals.
LEMMA PostAligned == ASSUME TypeOK, Files, Ages, Aligned, NEW p \in Procs, p \in Switchers, postRefresh(p) PROVE Aligned'
  <1> DEFINE a == loc[p].to
             c == Rotated(newest[a])
  <1>1. \A b \in People : newest[b].acct = b
    BY Zenon DEF Ages
  <1>2. /\ a \in Accounts /\ a \in People /\ c \in Creds /\ Issue(a, c)
        /\ c.acct = a /\ c.n = newest[a].n + 1 /\ c.fam = newest[a].fam + 1 /\ slot[a].fam = newest[a].fam
        /\ UNCHANGED <<live, config, active, slot, prev, stash, staged, journal, committed, lock, configLock,
                       gone, settings, misadopted, faults>>
    BY <1>1, Posted
  <1>3. /\ SlotsSeen(loc[p], loc'[p], a, slot[a]) /\ loc'[p].tgt = c
        /\ loc'[p].prep.freshened = loc[p].prep.freshened /\ pc'[p] = "persist" /\ pc[p] = "freshen"
        /\ \A q \in Procs : q # p => loc'[q] = loc[q] /\ pc'[q] = pc[q]
    BY PostLoc, Zenon DEF postRefresh
  <1>4. loc'[p].to = a
    BY <1>3, SMT DEF SlotsSeen, SameRequest
  <1> HIDE DEF c
  <1>5. Grown(newest, newest') /\ newest' \in [People -> Creds] /\ newest'[a] = c
    BY <1>1, <1>2, Issued
  <1>6. ASSUME NEW q \in Procs, q # p PROVE PrepAligned(q)' /\ SectionAligned(q)'
    BY <1>2, <1>3, <1>5, <1>6, PrepFrame, SectionFrame, SMT DEF Aligned
  <1>7. newest[a].n \in Nat /\ newest[a].fam \in Nat
    BY <1>2, SMT DEF TypeOK, Creds
  <1>8. loc[p].prep.pre.n <= newest[a].n /\ loc[p].prep.pre.n \in Nat
    <2>1. loc[p].prep.pre.acct = a /\ loc[p].prep.pre \in Blobs
      BY <1>3, LocalFields, SMT DEF Aligned, PrepAligned, Prepped, TypeOK
    <2>2. loc[p].prep.pre \in Creds
      BY <1>2, <2>1, AccountsAssumption, SMT DEF Blobs, Wiped
    <2> QED BY <2>1, <2>2, SMT DEF Ages, OldLocals, OlderThan, Creds
  <1>9. PrepAligned(p)'
    <2>1. PrepAligned(p) /\ SlotOwn
      BY DEF Aligned
    <2> QED BY <1>2, <1>3, <1>4, <1>5, <1>7, <1>8, <2>1, SMT
            DEF SlotOwn, PrepAligned, SlotsSeen, SameRequest, SameUndo, Prepped, Before
  <1>10. SectionAligned(p)'
    BY <1>3, SectionIdle, SMT DEF Locked
  <1>11. FileAligned'
    <2>1. Pending' = Pending /\ StagedCopy' = StagedCopy /\ LiveMoved' = LiveMoved
      BY <1>2, SMT DEF Pending, StagedCopy, Unfinished, finished, LiveMoved
    <2>2. LoggedIn => live.acct # a
      <3>1. live \in Creds /\ live.fam \in Nat
        BY SMT DEF Aligned, SlotOwn, Creds
      <3>2. live.acct = a => live.fam <= newest[a].fam
        BY <3>1, SMT DEF Ages, OlderThan
      <3>3. ASSUME LoggedIn, live.acct = a PROVE slot[a].fam < live.fam
        BY <1>2, <3>3, Zenon DEF LoggedIn
      <3> HIDE DEF a
      <3> QED BY <1>2, <1>7, <3>1, <3>2, <3>3, SMT
    <2>3. LoggedIn => LoggedIn'
      <3> HIDE DEF a
      <3> QED BY <1>2, <1>3, <1>4, <2>1, <2>2, SMT DEF LoggedIn
    <2>4. Untouched => Untouched'
      BY <1>2, <2>1, SMT DEF Untouched
    <2> QED BY <1>2, <2>1, <2>3, <2>4, SMT DEF Aligned, FileAligned
  <1>12. SlotOwn'
    BY <1>2, SMT DEF Aligned, SlotOwn
  <1> QED BY <1>6, <1>9, <1>10, <1>11, <1>12 DEF Aligned

\* The write of a refreshed credential keeps the alignment of the live credential, the config and the locals.
LEMMA PersistAligned == ASSUME TypeOK, TypeOK', Files, Aligned, NEW p \in Procs, p \in Switchers, persistRefresh(p) PROVE Aligned'
  <1> DEFINE a == loc[p].to
             t == loc[p].tgt
  <1>1. /\ UNCHANGED <<live, config, active, staged, journal, committed, configLock, newest, gone, issued, settings, misadopted, faults>>
        /\ pc[p] = "persist"
    BY Zenon DEF persistRefresh
  <1>2. a \in Accounts /\ t \in Creds /\ t.acct = a
    BY <1>1, LocalFields, SMT DEF TypeOK, Aligned, PrepAligned
  <1>3. CASE Finish(p) /\ UNCHANGED <<slot, prev>>
    <2>2. pc'[p] \in {"idle", "done"} /\ \A q \in Procs : q # p => pc'[q] = pc[q] /\ loc'[q] = loc[q]
      BY <1>3, FinishTyped, SMT
    <2>3. PrepAligned(p)'
      BY <2>2, SMT DEF PrepAligned, Prepped, Before
    <2>4. SectionAligned(p)'
      BY <2>2, SectionIdle, SMT DEF Locked
    <2> QED BY <1>1, <1>3, <2>2, <2>3, <2>4, OutsideAligned, SMT
  <1>4. CASE /\ lock = None /\ Goto(p, "lock")
             /\ Set(p, [loc[p] EXCEPT !.prep.slots[loc[p].to] = slot'[loc[p].to], !.prep.freshened = TRUE, !.tgt = Wiped])
             /\ writeSlot(a, t) \/ UNCHANGED <<slot, prev>>
    <2>1. /\ SlotsSeen(loc[p], loc'[p], a, slot'[a]) /\ loc'[p].prep.freshened /\ pc'[p] = "lock"
          /\ \A q \in Procs : q # p => loc'[q] = loc[q] /\ pc'[q] = pc[q]
      BY <1>4, PersistLoc
    <2>2. lock = None
      BY <1>4
    <2>3. \A q \in Procs : pc'[q] \notin Locked
      <3>1. \A q \in Procs : pc[q] \notin Locked
        BY <2>2, ProcsAssumption, SMT DEF Files, LockHeld
      <3> QED BY <2>1, <3>1, SMT DEF Locked
    <2>4. \A q \in Procs : SectionAligned(q)'
      BY <2>3, SectionIdle
    <2>5. /\ \A b \in Accounts : b # a => slot'[b] = slot[b] /\ prev'[b] = prev[b]
          /\ slot'[a] \in {t, slot[a]} /\ prev'[a] \in {slot[a], prev[a]}
      BY <1>2, <1>4, SMT DEF writeSlot, TypeOK
    <2>6. SlotOwn'
      <3>1. SlotOwn /\ live' \in Creds
        BY <1>1, SMT DEF Aligned, SlotOwn
      <3> HIDE DEF a, t
      <3> QED BY <1>2, <2>5, <3>1, SMT DEF SlotOwn
    <2>7. PrepAligned(p)'
      <3>1. PrepAligned(p)
        BY DEF Aligned
      <3> QED BY <1>1, <1>2, <2>1, <2>5, <2>6, <3>1, SMT
              DEF SlotOwn, PrepAligned, SlotsSeen, SameRequest, SameUndo, Prepped, Before
    <2>8. ASSUME NEW q \in Procs, q # p PROVE PrepAligned(q)'
      BY <1>1, <2>1, <2>8, Ungrown, PrepFrame, SMT DEF Aligned
    <2>9. FileAligned'
      <3>1. Pending' = Pending /\ StagedCopy' = StagedCopy /\ LiveMoved' = LiveMoved
        BY <1>1, SMT DEF Pending, StagedCopy, Unfinished, finished, LiveMoved
      <3>2. LoggedIn => LoggedIn'
        <4>1. LoggedIn /\ live.acct = a => t.fam < live.fam
          BY <1>1, SMT DEF LoggedIn
        <4> HIDE DEF a, t
        <4>2. ASSUME LoggedIn, live.acct \in Accounts
              PROVE  slot'[live.acct].fam < live.fam /\ prev'[live.acct].fam < live.fam
          <5>1. slot[live.acct].fam < live.fam /\ prev[live.acct].fam < live.fam
            BY <4>2 DEF LoggedIn
          <5>2. CASE live.acct = a
            BY <2>5, <4>1, <4>2, <5>1, <5>2
          <5>3. CASE live.acct # a
            BY <2>5, <4>2, <5>1, <5>3
          <5> QED BY <5>2, <5>3
        <4>3. ASSUME LoggedIn, NEW q \in Procs, pc'[q] = "persist", loc'[q].to = live.acct
              PROVE  loc'[q].tgt.fam < live.fam
          <5>1. q # p /\ pc[q] = "persist" /\ loc'[q] = loc[q]
            BY <2>1, <4>3, SMT
          <5> QED BY <4>3, <5>1 DEF LoggedIn
        <4> QED BY <1>1, <3>1, <4>2, <4>3, SMT DEF LoggedIn
      <3>3. Untouched => Untouched'
        BY <1>1, <3>1, SMT DEF Untouched
      <3> QED BY <1>1, <3>1, <3>2, <3>3, SMT DEF Aligned, FileAligned
    <2> QED BY <2>4, <2>6, <2>7, <2>8, <2>9 DEF Aligned
  <1> QED BY <1>3, <1>4, Zenon DEF persistRefresh

\* A write by Claude Code of a credential it was just issued.
LEMMA IssuedAligned ==
    ASSUME TypeOK, Files, Ages, Aligned, NEW a \in People, NEW c \in Creds, Issue(a, c),
           c.acct = a, c.n = newest[a].n + 1, c.fam \in {newest[a].fam, newest[a].fam + 1},
           live' = c, lock = None,
           UNCHANGED <<slot, prev, staged, journal, committed, pc, loc>>,
           \/ config'.oauth = a /\ c.fam = newest[a].fam + 1
           \/ live.acct = a /\ live = newest[a] /\ config' = config
    PROVE  Aligned'
  <1>1. newest[a].acct = a /\ newest[a].n \in Nat /\ newest[a].fam \in Nat /\ live \in Creds /\ live.fam \in Nat
        /\ c.fam \in Nat
    BY SMT DEF Ages, TypeOK, Creds, Aligned, SlotOwn
  <1>2. Grown(newest, newest') /\ newest' \in [People -> Creds] /\ newest'[a] = c
    BY <1>1, Issued
  <1>3. \A q \in Procs : SectionAligned(q)'
    <2>1. \A q \in Procs : pc'[q] \notin Locked
      BY ProcsAssumption, SMT DEF Files, LockHeld
    <2> QED BY <2>1, SectionIdle
  <1>4. \A q \in Procs : PrepAligned(q)'
    BY <1>2, PrepFrame, SMT DEF Aligned
  <1>5. SlotOwn'
    BY SlotStill, SMT DEF Aligned
  <1>6. FileAligned'
    <2>1. Pending' = Pending /\ StagedCopy' = StagedCopy
      BY SMT DEF Pending, StagedCopy, Unfinished, finished
    <2>2. Pending => LiveMoved'
      <3>1. Pending => /\ journal # None /\ journal.attempt \in Switchers
                       /\ StagedCopy \in Creds /\ journal.credsHash \in Creds
        BY JournalFields, SMT DEF Aligned, FileAligned, Pending, Unfinished, TypeOK
      <3>2. Pending => OlderThan(StagedCopy, newest) /\ OlderThan(journal.credsHash, newest)
        BY <3>1, SMT DEF Ages, StagedCopy
      <3>3. ~OlderThan(c, newest)
        BY <1>1, SMT DEF OlderThan
      <3> QED BY <2>1, <3>2, <3>3, SMT DEF LiveMoved
    <2>3. CASE config'.oauth = a /\ c.fam = newest[a].fam + 1
      <3>1. a \in Accounts => slot[a].fam < c.fam /\ prev[a].fam < c.fam
        BY <1>1, <2>3, OldSlots, SMT DEF Aligned
      <3>2. ASSUME NEW q \in Procs, pc[q] = "persist", loc[q].to = a PROVE loc[q].tgt.fam < c.fam
        <4>1. loc[q].tgt \in Creds /\ loc[q].tgt.acct = a
          BY <3>2, SMT DEF Aligned, PrepAligned
        <4>2. loc[q].tgt.fam \in Nat /\ loc[q].tgt.fam <= newest[a].fam
          BY <4>1, SMT DEF Ages, OldLocals, OlderThan, Creds
        <4> QED BY <1>1, <2>3, <4>2, SMT
      <3>3. Pending' => LoggedIn'
        BY <2>1, <2>2, <2>3, <3>1, <3>2, SMT DEF LoggedIn
      <3> QED BY <2>1, <2>3, <3>3, SMT DEF Aligned, FileAligned
    <2>4. CASE live.acct = a /\ live = newest[a] /\ config' = config
      <3>1. Untouched => Untouched'
        BY <2>1, <2>4, SMT DEF Untouched
      <3>2. Pending /\ LoggedIn => LoggedIn'
        <4>1. SUFFICES ASSUME Pending, LoggedIn PROVE LoggedIn'
          OBVIOUS
        <4>2. c.fam >= live.fam
          BY <1>1, <2>4, SMT
        <4>3. a \in Accounts => slot[a].fam < c.fam /\ prev[a].fam < c.fam
          <5>1. a \in Accounts => slot[a].fam < live.fam /\ prev[a].fam < live.fam
            BY <2>4, <4>1, SMT DEF LoggedIn
          <5>2. a \in Accounts => slot[a].fam \in Nat /\ prev[a].fam \in Nat
            BY OldSlots DEF Aligned
          <5> QED BY <1>1, <4>2, <5>1, <5>2, SMT
        <4>4. ASSUME NEW q \in Procs, pc[q] = "persist", loc[q].to = a PROVE loc[q].tgt.fam < c.fam
          <5>1. loc[q].tgt.fam < live.fam
            BY <2>4, <4>1, <4>4, SMT DEF LoggedIn
          <5>2. loc[q].tgt.fam \in Nat
            BY <4>4, SMT DEF Aligned, PrepAligned, Creds
          <5> QED BY <1>1, <4>2, <5>1, <5>2, SMT
        <4>5. config'.oauth = a
          BY <2>4, <4>1, SMT DEF LoggedIn
        <4> QED BY <2>2, <4>1, <4>3, <4>4, <4>5, SMT DEF LoggedIn
      <3> QED BY <2>1, <2>4, <3>1, <3>2, SMT DEF Aligned, FileAligned
    <2> QED BY <2>3, <2>4
  <1> QED BY <1>3, <1>4, <1>5, <1>6 DEF Aligned

\* Claude Code's own refresh or a login in it keeps the alignment of the live credential, the config and the locals.
LEMMA ClaudeCodeAligned ==
    ASSUME TypeOK, Files, Ages, Aligned, ccRefresh \/ \E a \in LoginAccounts : ccLogin(a)
    PROVE  Aligned'
  <1>0. \A a \in People : newest[a].acct = a
    BY Zenon DEF Ages
  <1>1. CASE ccRefresh
    <2>1. PICK c \in Creds :
             /\ Issue(live.acct, c) /\ live' = c /\ live.acct \in People /\ live = newest[live.acct]
             /\ c.acct = live.acct /\ c.n = newest[live.acct].n + 1 /\ c.fam \in {newest[live.acct].fam, newest[live.acct].fam + 1}
             /\ lock = None /\ UNCHANGED <<config, slot, prev, staged, journal, committed, pc, loc>>
      BY <1>0, <1>1, Refreshed, Zenon
    <2> QED BY <2>1, IssuedAligned
  <1>2. ASSUME NEW a \in LoginAccounts, ccLogin(a) PROVE Aligned'
    <2> DEFINE c == Rotated(newest[a])
    <2>1. /\ a \in People /\ c \in Creds /\ Issue(a, c) /\ live' = c
          /\ c.acct = a /\ c.n = newest[a].n + 1 /\ c.fam = newest[a].fam + 1
          /\ lock = None /\ config'.oauth = a
          /\ UNCHANGED <<slot, prev, staged, journal, committed, pc, loc>>
      BY <1>0, <1>2, LoggedInAs, SMT
    <2> HIDE DEF c
    <2> QED BY <2>1, IssuedAligned
  <1> QED BY <1>1, <1>2

\* A return that writes nothing keeps the alignment.
LEMMA QuietFinish ==
    ASSUME TypeOK, Files, Aligned, NEW p \in Procs, newest' = newest, Finish(p),
           UNCHANGED <<live, config, journal, slot, prev, staged, committed>>
    PROVE  Aligned'
  <1>1. pc'[p] \in {"idle", "done"} /\ \A q \in Procs : q # p => pc'[q] = pc[q] /\ loc'[q] = loc[q]
    BY FinishTyped, SMT
  <1>2. PrepAligned(p)'
    BY <1>1, SMT DEF PrepAligned, Prepped, Before
  <1>3. SectionAligned(p)'
    BY <1>1, SectionIdle, SMT DEF Locked
  <1> QED BY <1>1, <1>2, <1>3, OutsideAligned, SMT

\* The empty rollback memory asks for nothing.
LEMMA NothingUndone == NoUndo.credsStarted = FALSE /\ NoUndo.cfgStarted = FALSE
  BY SMT DEF NoUndo

\* Step 4 (the journal and active checks under the lock) keeps the alignment of the live credential, the config and the locals.
LEMMA Step4Aligned == ASSUME TypeOK, Files, Aligned, NEW p \in Procs, p \in Switchers, step4(p) PROVE Aligned'
  <1>0. UNCHANGED <<disk, configLock, env, faults>> /\ pc[p] = "step4"
    BY Zenon DEF step4
  <1>1. CASE Finish(p)
    BY <1>0, <1>1, QuietFinish, SMT
  <1>2. CASE Goto(p, "unstage4") /\ UNCHANGED loc
    <2>1. pc'[p] = "unstage4" /\ \A q \in Procs : q # p => pc'[q] = pc[q]
      BY <1>2, GotoPc, SMT DEF TypeOK, Locked
    <2>2. PrepAligned(p)'
      BY <1>0, <1>2, <2>1, SMT DEF Aligned, PrepAligned, Prepped, Before
    <2>3. SectionAligned(p)'
      BY <2>1, SMT DEF SectionAligned, Own
    <2> QED BY <1>0, <1>2, <2>1, <2>2, <2>3, OutsideAligned, SMT
  <1>3. CASE /\ Goto(p, "start")
             /\ Set(p, [NoLocals EXCEPT !.to = loc[p].to, !.republish = loc[p].republish,
                                        !.verdict = loc[p].verdict, !.retried = TRUE])
    <2>1. SameUndo(NoLocals, loc'[p]) /\ pc'[p] = "start" /\ \A q \in Procs : q # p => loc'[q] = loc[q] /\ pc'[q] = pc[q]
      BY <1>3, RetryLoc
    <2>2. PrepAligned(p)'
      BY <2>1, EmptyLoc, SMT DEF PrepAligned, Prepped, Before, SameUndo
    <2>3. SectionAligned(p)'
      BY <2>1, SectionIdle, SMT DEF Locked
    <2> QED BY <1>0, <2>1, <2>2, <2>3, OutsideAligned, SMT
  <1>4. CASE /\ Goto(p, "step5")
             /\ Set(p, [loc[p] EXCEPT !.from = active, !.out = live, !.republish = @ \/ active = loc[p].to])
             /\ loc[p].republish \/ active # loc[p].to \/ PublishesSlotHead(p)
             /\ loc[p].republish => active = loc[p].to
    <2>1. /\ loc'[p].from = active /\ loc'[p].out = live
          /\ loc'[p].republish <=> (loc[p].republish \/ active = loc[p].to)
          /\ loc'[p].to = loc[p].to /\ loc'[p].prep = loc[p].prep
          /\ SameUndo(loc[p], loc'[p])
          /\ pc'[p] = "step5"
          /\ \A q \in Procs : q # p => loc'[q] = loc[q] /\ pc'[q] = pc[q]
      BY <1>4, OutgoingLoc
    <2>2. PrepAligned(p)'
      BY <1>0, <2>1, SMT DEF Aligned, PrepAligned, Prepped, Before, SameUndo
    <2>3. loc'[p].republish <=> loc'[p].from = loc'[p].to
      BY <1>4, <2>1, Zenon
    <2>4. loc'[p].republish /\ loc'[p].prep.freshened =>
            loc'[p].out.acct = loc'[p].from /\ loc'[p].out.n < newest[loc'[p].from].n
      <3>1. SUFFICES ASSUME loc'[p].republish, loc[p].prep.freshened
                     PROVE  live.acct = active /\ live.n < newest[active].n
        BY <2>1, Zenon
      <3>2. ~loc[p].republish /\ loc[p].prep.pre.acct = loc[p].to /\ loc[p].prep.pre.n < newest[loc[p].to].n
        BY <1>0, <3>1, SMT DEF Aligned, PrepAligned, Prepped
      <3>3. active = loc[p].to /\ PublishesSlotHead(p)
        BY <1>4, <2>1, <3>1, <3>2, Zenon
      <3> QED BY <3>2, <3>3, SMT DEF PublishesSlotHead
    <2>5. SectionAligned(p)'
      BY <1>0, <2>1, <2>3, <2>4, SMT DEF SectionAligned, Own
    <2> QED BY <1>0, <2>1, <2>2, <2>5, OutsideAligned, SMT
  <1> QED BY <1>1, <1>2, <1>3, <1>4, Zenon DEF step4

\* What each classification of the outgoing credential says of it.
LEMMA KindFacts ==
    ASSUME NEW p, NEW a, NEW c, NEW k, k = Kind(p, [acct |-> a, live |-> c])
    PROVE  /\ k = "own-bytes" => slot[a] = c
           /\ k = "own-family" => slot[a].acct = c.acct /\ slot[a].fam = c.fam
           /\ k = "own-rotated" => loc[p].prep.resolved = a /\ loc[p].prep.live = c /\ loc[p].prep.resolved # None
           /\ k = "foreign-synced" => loc[p].prep.resolved \in Accounts /\ loc[p].prep.live = c
                                     /\ loc[p].prep.resolved # None
           /\ k = "wiped" => c = Wiped
           /\ k \in {"own-bytes", "own-family", "wiped", "unresolved", "known-foreign", "own-rotated", "alien",
                     "foreign-synced", "foreign"}
  <1> DEFINE o == [acct |-> a, live |-> c]
  <1>1. o.acct = a /\ o.live = c
    OBVIOUS
  <1>2. k = Kind(p, o)
    OBVIOUS
  <1> HIDE DEF o
  <1> QED BY <1>1, <1>2, SMT DEF Kind, sameCredentialLineage

\* What is written over a slot or republished is the outgoing account's.
LEMMA WrittenOwn ==
    ASSUME TypeOK, Files, Aligned, NEW p \in Procs, p \in Switchers, pc[p] = "step5",
           OutgoingKind(p) = "unresolved" => loc[p].out.acct = loc[p].from
    PROVE  /\ OutgoingKind(p) \in {"own-family", "own-rotated", "unresolved"} => loc[p].out.acct = loc[p].from
           /\ loc[p].republish /\ OutgoingKind(p) = "own-bytes" => loc[p].out.acct = loc[p].from
  <1> DEFINE l == loc[p]
             k == Kind(p, [acct |-> l.from, live |-> l.out])
  <1>1. l.from \in Accounts /\ slot[l.from].acct = l.from /\ l.out \in Creds
    BY LocalFields, SMT DEF TypeOK, Aligned, SectionAligned, SlotOwn
  <1>2. (l.prep.resolved # None => l.prep.resolved = l.prep.live.acct)
    BY SMT DEF Aligned, PrepAligned, Prepped
  <1>3. l.republish /\ l.prep.freshened => l.out.acct = l.from
    BY Zenon DEF Aligned, SectionAligned
  <1>4. /\ k = "own-bytes" => slot[l.from] = l.out
        /\ k = "own-family" => l.out.acct = l.from
        /\ k = "own-rotated" => l.out.acct = l.from
    <2>1. /\ k = "own-bytes" => slot[l.from] = l.out
          /\ k = "own-family" => slot[l.from].acct = l.out.acct
          /\ k = "own-rotated" => l.prep.resolved = l.from /\ l.prep.live = l.out /\ l.prep.resolved # None
      BY KindFacts
    <2> HIDE DEF k
    <2> QED BY <1>1, <1>2, <2>1, SMT
  <1>5. OutgoingKind(p) = (IF l.republish /\ l.prep.freshened THEN "own-bytes" ELSE k)
    BY Zenon DEF OutgoingKind
  <1> HIDE DEF k, l
  <1>6. CASE l.republish /\ l.prep.freshened
    BY <1>3, <1>5, <1>6, Zenon DEF l
  <1>7. CASE ~(l.republish /\ l.prep.freshened)
    <2>1. OutgoingKind(p) = k
      BY <1>5, <1>7
    <2> QED BY <1>1, <1>4, <2>1, SMT DEF l
  <1> QED BY <1>6, <1>7

\* Step 5 (the outgoing credential kept, stashed or refused) keeps the alignment of the live credential, the config and the locals.
LEMMA Step5Aligned ==
    ASSUME TypeOK, Files, Aligned, NEW p \in Procs, p \in Switchers, step5(p), ~misadopted'
    PROVE  Aligned'
  <1> DEFINE l == loc[p]
             kind == OutgoingKind(p)
  <1>0. UNCHANGED <<live, config, active, staged, journal, committed, configLock,
                    newest, gone, issued, settings, faults>> /\ pc[p] = "step5"
    BY Zenon DEF step5
  <1>1. CASE Finish(p) /\ UNCHANGED <<slot, prev, stash, misadopted>>
    BY <1>0, <1>1, QuietFinish, SMT
  <1>2. CASE /\ l.republish => kind \in {"own-bytes", "own-family", "own-rotated"}
             /\ \/ kind \in {"own-family", "own-rotated", "unresolved"} /\ writeSlot(l.from, l.out)
                \/ UNCHANGED <<slot, prev>>
             /\ misadopted' = (misadopted \/ (kind = "unresolved" /\ l.out.acct # l.from))
             /\ Goto(p, "step6") /\ UNCHANGED <<loc, lock>>
    <2>1. pc'[p] = "step6" /\ \A q \in Procs : q # p => pc'[q] = pc[q]
      BY <1>2, GotoPc, SMT DEF TypeOK, Locked
    <2>2. kind = "unresolved" => l.out.acct = l.from
      BY <1>2, Zenon
    <2>3. /\ kind \in {"own-family", "own-rotated", "unresolved"} => l.out.acct = l.from
          /\ l.republish /\ kind = "own-bytes" => l.out.acct = l.from
      BY <1>0, <2>2, WrittenOwn, Zenon
    <2>4. l.from \in Accounts /\ l.out \in Creds /\ SectionAligned(p) /\ PrepAligned(p)
      BY <1>0, LocalFields, SMT DEF TypeOK, Aligned, SectionAligned, SlotOwn
    <2>5. SlotOwn'
      <3>0. SlotOwn /\ live' = live /\ slot \in [Accounts -> Blobs] /\ prev \in [Accounts -> Blobs]
        BY <1>0, SMT DEF Aligned, TypeOK
      <3>1. CASE l.out.acct = l.from /\ writeSlot(l.from, l.out)
        <4>1. /\ slot'[l.from] = l.out /\ prev'[l.from] \in {slot[l.from], prev[l.from]}
              /\ \A a \in Accounts : a # l.from => slot'[a] = slot[a] /\ prev'[a] = prev[a]
          <5> HIDE DEF l
          <5> QED BY <2>4, <3>0, <3>1, SMT DEF writeSlot
        <4> HIDE DEF l
        <4> QED BY <2>4, <3>0, <3>1, <4>1, SMT DEF SlotOwn
      <3>2. CASE UNCHANGED <<slot, prev>>
        BY <3>0, <3>2, SMT DEF SlotOwn
      <3> QED BY <1>2, <2>3, <3>1, <3>2, Zenon
    <2>6. PrepAligned(p)'
      BY <1>0, <1>2, <2>1, <2>4, SMT DEF PrepAligned, Prepped, Before
    <2>7. l.republish => l.out.acct = l.from
      BY <1>2, <2>3, Zenon
    <2>8. SectionAligned(p)'
      <3>1. live = l.out /\ (l.republish <=> l.from = l.to)
        BY <1>0, <2>4, Zenon DEF SectionAligned
      <3> HIDE DEF kind, l
      <3>2. live' = loc'[p].out /\ (loc'[p].republish <=> loc'[p].from = loc'[p].to)
            /\ (loc'[p].republish => loc'[p].out.acct = loc'[p].from)
        BY <1>0, <1>2, <2>7, <3>1, Zenon DEF l
      <3> QED BY <2>1, <3>2, SMT DEF SectionAligned, Own
    <2>9. FileAligned'
      <3>1. journal = None /\ live.acct = config.oauth
        BY <1>0, SMT DEF Files, SectionFile, Aligned, FileAligned, Pending, Unfinished
      <3>2. ~Pending'
        BY <1>0, <3>1, SMT DEF Pending, Unfinished
      <3> QED BY <1>0, <3>1, <3>2, SMT DEF FileAligned
    <2> QED BY <1>0, <1>2, <2>1, <2>5, <2>6, <2>8, <2>9, StayAligned, SMT DEF Locked
  <1> QED BY <1>1, <1>2, Zenon DEF step5

\* Step 6 (the target slot re-read and the journal written) keeps the alignment of the live credential, the config and the locals.
LEMMA Step6Aligned == ASSUME TypeOK, Files, Aligned, NEW p \in Procs, p \in Switchers, step6(p) PROVE Aligned'
  <1>0. UNCHANGED <<live, config, active, slot, prev, stash, staged, committed, configLock, env, faults>> /\ pc[p] = "step6"
    BY Zenon DEF step6
  <1>1. CASE Finish(p) /\ UNCHANGED journal
    BY <1>0, <1>1, QuietFinish, SMT
  <1> DEFINE j == [attempt |-> p, from |-> loc[p].from, to |-> loc[p].to,
                   republish |-> loc[p].republish, undo |-> NoUndo, credsHash |-> None,
                   credsWritten |-> FALSE, closed |-> "open", committed |-> FALSE]
  <1>2. CASE /\ Set(p, [loc[p] EXCEPT !.tgt = slot[loc[p].to]])
             /\ journal' = j
             /\ Goto(p, "stage")
    <2>1. /\ SameRequest(loc[p], loc'[p]) /\ SameUndo(loc[p], loc'[p])
          /\ loc'[p].tgt = slot[loc[p].to] /\ loc'[p].out = loc[p].out /\ pc'[p] = "stage"
          /\ \A q \in Procs : q # p => loc'[q] = loc[q] /\ pc'[q] = pc[q]
      BY <1>2, TargetLoc
    <2>2. j.from = loc[p].from /\ j.to = loc[p].to /\ j.undo = NoUndo
      BY SMT
    <2> HIDE DEF j
    <2>3. SectionAligned(p) /\ PrepAligned(p) /\ SlotOwn /\ loc[p].to \in Accounts
      BY LocalFields, SMT DEF TypeOK, Aligned
    <2>4. PrepAligned(p)'
      BY <1>0, <2>1, <2>3, SMT DEF PrepAligned, Prepped, Before, SameUndo
    <2>5. SectionAligned(p)'
      BY <1>0, <1>2, <2>1, <2>2, <2>3, SMT DEF SectionAligned, SameRequest, Own, SlotOwn
    <2>6. FileAligned'
      <3>1. journal = None /\ live.acct = config.oauth
        BY <1>0, SMT DEF Files, SectionFile, Aligned, FileAligned, Pending, Unfinished
      <3>2. ~Pending'
        BY <1>2, <2>2, NothingUndone, SMT DEF Pending
      <3> QED BY <1>0, <3>1, <3>2, SMT DEF FileAligned
    <2>7. SlotOwn'
      BY <1>0, SlotStill, SMT DEF Aligned, SlotOwn
    <2> QED BY <1>0, <2>1, <2>4, <2>5, <2>6, <2>7, StayAligned, SMT DEF Locked
  <1> QED BY <1>1, <1>2, Zenon DEF step6

\* What a switch inside its own section may assume.
LEMMA OwnAt ==
    ASSUME TypeOK, Files, Aligned, NEW p \in Procs, pc[p] \in Own
    PROVE  /\ journal # None /\ journal \in Journals /\ journal.attempt = p /\ p \in Switchers
           /\ journal.undo \in Undos /\ ~finished(journal) /\ pc[p] \in Locked
           /\ journal.from \in Accounts /\ journal.to \in Accounts
           /\ loc[p] \in Locals /\ loc[p].to = journal.to /\ loc[p].undo \in Undos
           /\ loc[p].tgt \in Creds /\ loc[p].tgt.acct = journal.to /\ loc[p].out \in Creds
           /\ pc[p] \notin {"stage", "stagefail"} => StagedCopy = loc[p].out
           /\ Pending <=> journal.undo.credsStarted
           /\ journal.undo.cfgStarted => journal.undo.credsStarted
           /\ SectionAligned(p) /\ PrepAligned(p) /\ FileAligned /\ SlotOwn
  <1>1. /\ journal # None /\ journal \in Journals /\ journal.undo \in Undos /\ loc[p] \in Locals /\ pc[p] \in Locked
    BY InSection, SMT DEF Own
  <1>2. p \in Switchers
    BY OwnRole, SMT
  <1>3. journal.attempt = p /\ ~finished(journal) /\ (pc[p] \notin {"stage", "stagefail"} => staged[p] = loc[p].out)
    BY <1>2, SMT DEF Files, SectionFile
  <1>4. journal.from \in Accounts /\ journal.to \in Accounts /\ loc[p].undo \in Undos
    BY <1>1, JournalFields, LocalFields
  <1>5. SectionAligned(p) /\ PrepAligned(p) /\ FileAligned /\ SlotOwn
    BY DEF Aligned
  <1>6. loc[p].to = journal.to /\ loc[p].tgt \in Creds /\ loc[p].tgt.acct = loc[p].to /\ loc[p].out \in Creds
    BY <1>5, Zenon DEF SectionAligned
  <1>7. journal.undo.cfgStarted => journal.undo.credsStarted
    BY <1>1, Zenon DEF Files, FileSound
  <1> QED BY <1>1, <1>2, <1>3, <1>4, <1>5, <1>6, <1>7, SMT DEF Pending, Unfinished, StagedCopy

\* The staged rollback copy keeps the alignment of the live credential, the config and the locals.
LEMMA StagedAligned == ASSUME TypeOK, Files, Aligned, NEW p \in Procs, writeStagedRollback(p) PROVE Aligned'
  <1>0. /\ UNCHANGED <<live, config, active, slot, prev, stash, journal, committed, locks, loc, env>> /\ pc[p] = "stage"
        /\ pc[p] \in Own
    BY SMT DEF writeStagedRollback, Own
  <1>1. PICK label \in {"intent7", "stagefail"} : Goto(p, label)
    BY Zenon DEF writeStagedRollback, Effect
  <1>2. pc'[p] = label /\ \A q \in Procs : q # p => pc'[q] = pc[q]
    BY <1>1, GotoPc, SMT DEF TypeOK, Locked
  <1>3. PrepAligned(p)'
    BY <1>0, <1>2, OwnAt, SMT DEF PrepAligned, Prepped, Before
  <1>4. SectionAligned(p)'
    BY <1>0, <1>2, OwnAt, SMT DEF SectionAligned, Own
  <1>5. ~Pending /\ ~Pending'
    BY <1>0, OwnAt, SMT DEF Pending, Files, SectionFile
  <1>6. FileAligned'
    BY <1>0, <1>5, OwnAt, SMT DEF FileAligned
  <1>7. SlotOwn'
    BY <1>0, OwnAt, SlotStill, SMT DEF SlotOwn
  <1> QED BY <1>0, <1>2, <1>3, <1>4, <1>6, <1>7, StayAligned, SMT DEF Locked

\* The close of a switch whose staging failed keeps the alignment of the live credential, the config and the locals.
LEMMA StageFailedAligned == ASSUME TypeOK, Files, Aligned, NEW p \in Procs, stageFailed(p) PROVE Aligned'
  <1>0. /\ UNCHANGED <<live, config, active, slot, prev, stash, staged, committed, configLock, env>>
        /\ pc[p] = "stagefail"
    BY Zenon DEF stageFailed
  <1>a. pc[p] \in Own /\ pc[p] \in Locked
    BY <1>0, SMT DEF Own, Locked
  <1>1. journal'.undo = journal.undo
    BY EndedFile
  <1>2. ~Pending /\ ~Pending'
    BY <1>0, <1>1, SMT DEF Pending, Files, SectionFile, Unfinished
  <1>3. FileAligned'
    BY <1>0, <1>2, <1>a, OwnAt, SMT DEF FileAligned
  <1>4. SlotOwn'
    BY <1>0, <1>a, OwnAt, SlotStill, SMT DEF SlotOwn
  <1>5. CASE Finish(p)
    BY <1>0, <1>a, <1>3, <1>4, <1>5, FinishAligned, SMT
  <1>6. CASE Goto(p, "unstage") /\ UNCHANGED loc
    <2>1. pc'[p] = "unstage" /\ \A q \in Procs : q # p => pc'[q] = pc[q]
      BY <1>6, GotoPc, SMT DEF TypeOK, Locked
    <2>2. PrepAligned(p)'
      BY <2>1, SMT DEF PrepAligned, Prepped, Before
    <2>3. SectionAligned(p)'
      BY <2>1, SMT DEF SectionAligned, Own
    <2> QED BY <1>0, <1>a, <1>3, <1>4, <1>6, <2>1, <2>2, <2>3, StayAligned, SMT
  <1> QED BY <1>5, <1>6, Zenon DEF stageFailed, LastEffect

\* Step 7's intent in the journal keeps the alignment of the live credential, the config and the locals.
LEMMA Intent7Aligned == ASSUME TypeOK, Files, Aligned, NEW p \in Procs, intent7(p) PROVE Aligned'
  <1>0. /\ UNCHANGED <<live, config, active, slot, prev, stash, staged, committed, locks, env>> /\ pc[p] = "intent7"
    BY Zenon DEF intent7
  <1>a. pc[p] \in Own /\ pc[p] \in Locked
    BY <1>0, SMT DEF Own, Locked
  <1>1. /\ SameRequest(loc[p], loc'[p]) /\ SameCopies(loc[p], loc'[p])
        /\ loc'[p].undo.credsStarted /\ loc'[p].undo.cfgStarted = loc[p].undo.cfgStarted
        /\ loc'[p].failed = loc[p].failed
        /\ \A q \in Procs : q # p => loc'[q] = loc[q] /\ pc'[q] = pc[q]
    BY Intent7Loc
  <1>2. journal' = journal \/ CredsStarted(journal, loc[p].tgt, journal')
    BY Intent7File
  <1>3. PICK label : Goto(p, label) /\ (label = "rollback" \/ label = "write7")
    BY Zenon DEF intent7, Effect
  <1>4. pc'[p] = label
    BY <1>3, GotoPc, SMT DEF TypeOK, Locked
  <1>5. /\ ~journal.undo.credsStarted /\ ~journal.undo.cfgStarted /\ ~loc[p].undo.cfgStarted
        /\ live = loc[p].out /\ config.oauth = loc[p].out.acct /\ StagedCopy = loc[p].out
        /\ (journal.from = journal.to => loc[p].out.acct = journal.from)
    <2>1. ~journal.undo.credsStarted
      BY <1>0, Zenon DEF Files, SectionFile
    <2>2. ~journal.undo.cfgStarted /\ ~Pending /\ StagedCopy = loc[p].out
      BY <1>0, <1>a, <2>1, OwnAt, SMT
    <2>3. loc[p].undo = NoUndo
      BY <1>0, <1>a, OwnAt, SMT DEF PrepAligned, Before
    <2>4. live = loc[p].out /\ (journal.from = journal.to => loc[p].out.acct = journal.from)
      BY <1>0, <1>a, OwnAt, Zenon DEF SectionAligned
    <2>5. live.acct = config.oauth
      BY <1>a, <2>2, OwnAt, Zenon DEF FileAligned
    <2> QED BY <2>1, <2>2, <2>3, <2>4, <2>5, NothingUndone, SMT
  <1>6. PrepAligned(p)'
    BY <1>3, <1>4, SMT DEF PrepAligned, Prepped, Before
  <1>7. journal'.to = journal.to /\ journal'.from = journal.from /\ ~journal'.undo.cfgStarted /\ StagedCopy' = StagedCopy
        /\ journal' # None
    BY <1>0, <1>2, <1>5, <1>a, OwnAt, NoneAssumption, SMT DEF CredsStarted, SameFile, StagedCopy
  <1>8. FileAligned'
    <2>1. Pending' => journal'.credsHash = loc[p].tgt
      BY <1>2, <1>5, SMT DEF CredsStarted, Pending
    <2>2. Untouched'
      BY <1>0, <1>5, <1>7, SMT DEF Untouched
    <2> QED BY <1>0, <1>5, <1>7, <1>a, <2>1, <2>2, OwnAt, SMT DEF FileAligned
  <1>9. SlotOwn'
    BY <1>0, <1>a, OwnAt, SlotStill, SMT DEF SlotOwn
  <1>10. label = "write7" => CredsStarted(journal, loc[p].tgt, journal')
    <2>1. label = "write7" => journal' = [journal EXCEPT !.undo.credsStarted = TRUE, !.credsHash = loc[p].tgt]
      <3>1. pc[p] # "rollback" /\ pc[p] \in LockFree \cup Locked
        BY <1>0, SMT DEF LockFree, Locked
      <3>2. Goto(p, "rollback") => label = "rollback"
        BY <1>4, GotoPc, SMT DEF TypeOK, Locked
      <3> QED BY <3>2, Zenon DEF intent7, Effect
    <2>2. journal \in Journals /\ loc[p].tgt \in Blobs
      BY <1>a, OwnAt, Zenon DEF Blobs
    <2> QED BY <2>1, <2>2, JournalStarted
  <1>11. SectionAligned(p)'
    <2>1. CASE label = "write7"
      BY <1>0, <1>1, <1>4, <1>5, <1>7, <1>10, <1>a, <2>1, OwnAt, SMT
         DEF SectionAligned, Own, CredsStarted, SameRequest, SameCopies
    <2>2. CASE label = "rollback"
      BY <1>0, <1>1, <1>4, <1>5, <1>7, <1>a, <2>2, OwnAt, SMT
         DEF SectionAligned, Own, Undoable, SameRequest, SameCopies
    <2> QED BY <1>3, <2>1, <2>2
  <1> QED BY <1>0, <1>1, <1>6, <1>8, <1>9, <1>11, <1>a, StayAligned, SMT

\* Step 7's write of the live credential keeps the alignment of the live credential, the config and the locals.
LEMMA Write7Aligned == ASSUME TypeOK, Files, Aligned, NEW p \in Procs, write7(p) PROVE Aligned'
  <1>0. /\ UNCHANGED <<config, active, slot, prev, stash, staged, journal, committed, locks, loc, env>> /\ pc[p] = "write7"
        /\ live' \in {live, loc[p].tgt}
    BY Zenon DEF write7, Effect
  <1>a. pc[p] \in Own /\ pc[p] \in Locked
    BY <1>0, SMT DEF Own, Locked
  <1>1. PICK label : Goto(p, label) /\ (label = "rollback" \/ (label = "mark7" /\ live' = loc[p].tgt))
    BY Zenon DEF write7, Effect
  <1>2. pc'[p] = label /\ \A q \in Procs : q # p => pc'[q] = pc[q]
    BY <1>1, GotoPc, SMT DEF TypeOK, Locked
  <1>3. /\ journal.undo.credsStarted /\ Pending /\ ~journal.undo.cfgStarted /\ ~loc[p].undo.cfgStarted /\ loc[p].undo.credsStarted
        /\ live = loc[p].out /\ config.oauth = loc[p].out.acct /\ StagedCopy = loc[p].out /\ journal.credsHash = loc[p].tgt
    BY <1>0, <1>a, OwnAt, SMT DEF SectionAligned, Files, SectionFile
  <1>4. PrepAligned(p)'
    BY <1>1, <1>2, SMT DEF PrepAligned, Prepped, Before
  <1>5. Pending' /\ StagedCopy' = StagedCopy
    BY <1>0, <1>3, SMT DEF Pending, StagedCopy, Unfinished, finished
  <1>6. FileAligned'
    <2>1. Untouched'
      BY <1>0, <1>3, <1>5, <1>a, OwnAt, SMT DEF Untouched
    <2> QED BY <1>0, <1>3, <1>5, <1>a, <2>1, OwnAt, SMT DEF FileAligned
  <1>7. SlotOwn'
    BY <1>0, <1>a, OwnAt, SlotStill, SMT DEF SlotOwn
  <1>8. SectionAligned(p)'
    BY <1>0, <1>1, <1>2, <1>3, <1>5, <1>a, OwnAt, SMT DEF SectionAligned, Own, Undoable
  <1> QED BY <1>0, <1>2, <1>4, <1>6, <1>7, <1>8, <1>a, StayAligned, SMT

\* Step 7's mark after the write keeps the alignment of the live credential, the config and the locals.
LEMMA Mark7Aligned == ASSUME TypeOK, Files, Aligned, NEW p \in Procs, mark7(p) PROVE Aligned'
  <1>0. /\ UNCHANGED <<live, config, active, slot, prev, stash, staged, committed, locks, loc, env>> /\ pc[p] = "mark7"
    BY Zenon DEF mark7
  <1>a. pc[p] \in Own /\ pc[p] \in Locked
    BY <1>0, SMT DEF Own, Locked
  <1>1. PICK label \in {"rollback", "intent8"} : Goto(p, label)
    BY Zenon DEF mark7, Effect
  <1>2. pc'[p] = label /\ \A q \in Procs : q # p => pc'[q] = pc[q]
    BY <1>1, GotoPc, SMT DEF TypeOK, Locked
  <1>b. /\ journal'.attempt = journal.attempt /\ journal'.from = journal.from /\ journal'.to = journal.to
        /\ journal' # None /\ journal'.credsHash = journal.credsHash /\ journal'.undo = journal.undo
        /\ journal'.committed = journal.committed /\ journal'.closed = journal.closed
    BY Mark7File, Zenon DEF KeptFile, SameFile
  <1>3. /\ journal.undo.credsStarted /\ Pending /\ ~journal.undo.cfgStarted /\ ~loc[p].undo.cfgStarted /\ loc[p].undo.credsStarted
        /\ live = loc[p].tgt /\ config.oauth = loc[p].out.acct /\ StagedCopy = loc[p].out /\ journal.credsHash = loc[p].tgt
    BY <1>0, <1>a, OwnAt, SMT DEF SectionAligned, Files, SectionFile
  <1>4. PrepAligned(p)'
    BY <1>1, <1>2, SMT DEF PrepAligned, Prepped, Before
  <1>5. Pending' /\ StagedCopy' = StagedCopy
    BY <1>0, <1>3, <1>b, SMT DEF Pending, StagedCopy, Unfinished, finished
  <1>6. FileAligned'
    <2>1. Untouched'
      BY <1>0, <1>3, <1>5, <1>a, <1>b, OwnAt, SMT DEF Untouched
    <2> QED BY <1>0, <1>3, <1>5, <1>a, <1>b, <2>1, OwnAt, SMT DEF FileAligned
  <1>7. SlotOwn'
    BY <1>0, <1>a, OwnAt, SlotStill, SMT DEF SlotOwn
  <1>8. SectionAligned(p)'
    BY <1>0, <1>1, <1>2, <1>3, <1>5, <1>a, <1>b, OwnAt, SMT DEF SectionAligned, Own, Undoable
  <1> QED BY <1>0, <1>2, <1>4, <1>6, <1>7, <1>8, <1>a, StayAligned, SMT

\* Step 8's intent in the journal keeps the alignment of the live credential, the config and the locals.
LEMMA Intent8Aligned == ASSUME TypeOK, Files, Aligned, NEW p \in Procs, intent8(p) PROVE Aligned'
  <1>0. /\ UNCHANGED <<live, config, active, slot, prev, stash, staged, committed, lock, env>> /\ pc[p] = "intent8"
        /\ Set(p, [loc[p] EXCEPT !.undo = ConfigIntent(loc[p].undo, loc[p].to)])
    BY Zenon DEF intent8
  <1>a. pc[p] \in Own /\ pc[p] \in Locked
    BY <1>0, SMT DEF Own, Locked
  <1>1. PICK label \in {"rollback", "write8"} : Goto(p, label) /\
             (label = "write8" => journal' = [journal EXCEPT !.undo = ConfigIntent(journal.undo, loc[p].to)])
    BY Zenon DEF intent8, Effect
  <1>2. /\ SameRequest(loc[p], loc'[p]) /\ SameCopies(loc[p], loc'[p])
        /\ loc'[p].undo = ConfigIntent(loc[p].undo, loc[p].to)
        /\ pc'[p] = label
        /\ \A q \in Procs : q # p => loc'[q] = loc[q] /\ pc'[q] = pc[q]
    BY <1>0, <1>1, UndoLoc
  <1>b. /\ journal'.attempt = journal.attempt /\ journal'.from = journal.from /\ journal'.to = journal.to
        /\ journal' # None /\ journal'.credsHash = journal.credsHash
        /\ journal'.committed = journal.committed /\ journal'.closed = journal.closed
        /\ journal' = journal \/ journal'.undo = ConfigIntent(journal.undo, loc[p].to)
    BY Intent8File, Zenon DEF KeptFile, SameFile
  <1>3. /\ journal.undo.credsStarted /\ Pending /\ ~journal.undo.cfgStarted /\ ~loc[p].undo.cfgStarted /\ loc[p].undo.credsStarted
        /\ live = loc[p].tgt /\ config.oauth = loc[p].out.acct /\ StagedCopy = loc[p].out /\ journal.credsHash = loc[p].tgt
    BY <1>0, <1>a, OwnAt, SMT DEF SectionAligned, Files, SectionFile
  <1>c. \A u \in {journal.undo, loc[p].undo} :
           /\ ConfigIntent(u, loc[p].to).cfgStarted
           /\ ConfigIntent(u, loc[p].to).credsStarted = u.credsStarted
           /\ ConfigIntent(u, loc[p].to).cfgText = config
           /\ ConfigIntent(u, loc[p].to).cfgHash.oauth = loc[p].to
    <2>1. config \in Configs
      BY Zenon DEF TypeOK
    <2>2. journal.undo \in Undos /\ loc[p].undo \in Undos /\ loc[p].to \in Accounts
      BY <1>a, OwnAt
    <2> QED BY <2>1, <2>2, ConfigIntentTyped
  <1>d. label = "write8" => journal'.undo = ConfigIntent(journal.undo, loc[p].to)
    <2>1. ConfigIntent(journal.undo, loc[p].to) \in Undos /\ journal \in Journals
      BY <1>a, OwnAt, ConfigIntentTyped, Zenon DEF TypeOK
    <2> QED BY <1>1, <2>1, JournalUndo, Zenon
  <1>e. PICK v : v = ConfigIntent(journal.undo, loc[p].to)
    OBVIOUS
  <1>f. PICK w : w = ConfigIntent(loc[p].undo, loc[p].to)
    OBVIOUS
  <1>g. /\ v.cfgStarted /\ v.credsStarted /\ v.cfgText = config /\ v.cfgHash.oauth = journal.to
        /\ w.cfgStarted /\ w.credsStarted /\ w.cfgText = config /\ w.cfgHash.oauth = journal.to
        /\ journal' = journal \/ journal'.undo = v
        /\ label = "write8" => journal'.undo = v
        /\ loc'[p].undo = w /\ loc'[p].out = loc[p].out /\ loc'[p].tgt = loc[p].tgt /\ loc'[p].to = journal.to
    <2>1. loc[p].to = journal.to
      BY <1>a, OwnAt
    <2> QED BY <1>2, <1>3, <1>b, <1>c, <1>d, <1>e, <1>f, <2>1, Zenon DEF SameRequest, SameCopies
  <1>4. PrepAligned(p)'
    BY <1>1, <1>2, SMT DEF PrepAligned, Prepped, Before
  <1>5. Pending' /\ StagedCopy' = StagedCopy
    BY <1>0, <1>3, <1>b, <1>g, SMT DEF Pending, StagedCopy, Unfinished, finished
  <1>6. FileAligned'
    <2>1. Untouched'
      BY <1>0, <1>3, <1>5, <1>a, <1>b, OwnAt, SMT DEF Untouched
    <2> QED BY <1>0, <1>3, <1>5, <1>a, <1>b, <1>g, <2>1, OwnAt, SMT DEF FileAligned
  <1>7. SlotOwn'
    BY <1>0, <1>a, OwnAt, SlotStill, SMT DEF SlotOwn
  <1>h. config' = config /\ live' = live
    BY <1>0
  <1>8. SectionAligned(p)'
    BY <1>1, <1>2, <1>3, <1>5, <1>a, <1>b, <1>g, <1>h, OwnAt, SMT DEF SectionAligned, Own, Undoable
  <1> QED BY <1>0, <1>2, <1>4, <1>6, <1>7, <1>8, <1>a, StayAligned, SMT

\* Step 8's write of the config keeps the alignment of the live credential, the config and the locals.
LEMMA Write8Aligned == ASSUME TypeOK, Files, Aligned, NEW p \in Procs, write8(p) PROVE Aligned'
  <1>0. /\ UNCHANGED <<live, active, slot, prev, stash, staged, journal, committed, lock, loc, env>> /\ pc[p] = "write8"
        /\ config' \in {config, loc[p].undo.cfgHash}
    BY Zenon DEF write8, Effect
  <1>a. pc[p] \in Own /\ pc[p] \in Locked
    BY <1>0, SMT DEF Own, Locked
  <1>1. PICK label : Goto(p, label) /\ (label = "rollback" \/ (label = "commit9" /\ config' = loc[p].undo.cfgHash))
    BY Zenon DEF write8, Effect
  <1>2. pc'[p] = label /\ \A q \in Procs : q # p => pc'[q] = pc[q]
    BY <1>1, GotoPc, SMT DEF TypeOK, Locked
  <1>3. /\ journal.undo.credsStarted /\ Pending /\ journal.undo.cfgStarted /\ loc[p].undo.cfgStarted /\ loc[p].undo.credsStarted
        /\ live = loc[p].tgt /\ config.oauth = loc[p].out.acct /\ StagedCopy = loc[p].out /\ journal.credsHash = loc[p].tgt
        /\ loc[p].undo.cfgHash.oauth = journal.to /\ loc[p].undo.cfgText.oauth = loc[p].out.acct
        /\ journal.undo.cfgText.oauth = loc[p].out.acct
    <2>1. /\ journal.undo.credsStarted /\ journal.undo.cfgStarted /\ loc[p].undo.cfgStarted /\ loc[p].undo.credsStarted
          /\ live = loc[p].tgt /\ config.oauth = loc[p].out.acct /\ journal.credsHash = loc[p].tgt
          /\ loc[p].undo.cfgHash.oauth = loc[p].to /\ loc[p].undo.cfgText.oauth = loc[p].out.acct
      BY <1>0, <1>a, OwnAt, SMT DEF SectionAligned, Files, SectionFile
    <2>2. Pending /\ StagedCopy = loc[p].out /\ loc[p].to = journal.to
      BY <1>0, <1>a, <2>1, OwnAt, SMT
    <2> QED BY <1>a, <2>1, <2>2, OwnAt, SMT DEF FileAligned
  <1>4. PrepAligned(p)'
    BY <1>1, <1>2, SMT DEF PrepAligned, Prepped, Before
  <1>5. Pending' /\ StagedCopy' = StagedCopy
    BY <1>0, <1>3, SMT DEF Pending, StagedCopy, Unfinished, finished
  <1>6. FileAligned'
    <2>1. Untouched'
      BY <1>0, <1>3, <1>5, <1>a, OwnAt, SMT DEF Untouched
    <2> QED BY <1>0, <1>3, <1>5, <1>a, <2>1, OwnAt, SMT DEF FileAligned
  <1>7. SlotOwn'
    BY <1>0, <1>a, OwnAt, SlotStill, SMT DEF SlotOwn
  <1>8. SectionAligned(p)'
    BY <1>0, <1>1, <1>2, <1>3, <1>5, <1>a, OwnAt, SMT DEF SectionAligned, Own, Undoable
  <1> QED BY <1>0, <1>2, <1>4, <1>6, <1>7, <1>8, <1>a, StayAligned, SMT

\* Step 9's commit keeps the alignment of the live credential, the config and the locals.
LEMMA Commit9Aligned == ASSUME TypeOK, Files, Aligned, NEW p \in Procs, commit9(p) PROVE Aligned'
  <1>0. /\ UNCHANGED <<live, config, slot, prev, stash, staged, journal, locks, loc, env>> /\ pc[p] = "commit9"
    BY Zenon DEF commit9
  <1>a. pc[p] \in Own /\ pc[p] \in Locked
    BY <1>0, SMT DEF Own, Locked
  <1>1. PICK label : Goto(p, label) /\ (\/ label = "rollback" /\ committed' = committed
                                        \/ label = "committed" /\ committed' = committed \cup {journal.attempt})
    BY Zenon DEF commit9, commitClaudeSwitch
  <1>2. pc'[p] = label /\ \A q \in Procs : q # p => pc'[q] = pc[q]
    BY <1>1, GotoPc, SMT DEF TypeOK, Locked
  <1>3. /\ journal.undo.credsStarted /\ Pending /\ journal.undo.cfgStarted /\ loc[p].undo.cfgStarted /\ loc[p].undo.credsStarted
        /\ live = loc[p].tgt /\ config.oauth = journal.to /\ StagedCopy = loc[p].out /\ journal.credsHash = loc[p].tgt
        /\ loc[p].undo.cfgText.oauth = loc[p].out.acct
        /\ journal.undo.cfgText.oauth = loc[p].out.acct /\ live.acct = journal.to
    <2>1. /\ journal.undo.credsStarted /\ journal.undo.cfgStarted /\ loc[p].undo.cfgStarted /\ loc[p].undo.credsStarted
          /\ live = loc[p].tgt /\ config.oauth = loc[p].to /\ journal.credsHash = loc[p].tgt
          /\ loc[p].undo.cfgText.oauth = loc[p].out.acct
      BY <1>0, <1>a, OwnAt, SMT DEF SectionAligned, Files, SectionFile
    <2>2. Pending /\ StagedCopy = loc[p].out /\ loc[p].to = journal.to /\ loc[p].tgt.acct = journal.to
      BY <1>0, <1>a, <2>1, OwnAt, SMT
    <2> QED BY <1>a, <2>1, <2>2, OwnAt, SMT DEF FileAligned
  <1>4. PrepAligned(p)'
    BY <1>1, <1>2, SMT DEF PrepAligned, Prepped, Before
  <1>7. SlotOwn'
    BY <1>0, <1>a, OwnAt, SlotStill, SMT DEF SlotOwn
  <1>8. CASE label = "rollback" /\ committed' = committed
    <2>0. Pending' /\ StagedCopy' = StagedCopy
      BY <1>0, <1>3, <1>8, SMT DEF Pending, StagedCopy, Unfinished, finished
    <2>1. FileAligned'
      <3>1. Untouched'
        BY <1>0, <1>3, <2>0, SMT DEF Untouched
      <3> QED BY <1>0, <1>3, <1>a, <2>0, <3>1, OwnAt, SMT DEF FileAligned
    <2>2. SectionAligned(p)'
      BY <1>0, <1>2, <1>3, <1>8, <1>a, <2>0, OwnAt, SMT DEF SectionAligned, Own, Undoable
    <2> QED BY <1>0, <1>2, <1>4, <1>7, <1>a, <2>1, <2>2, StayAligned, SMT
  <1>9. CASE label = "committed" /\ committed' = committed \cup {journal.attempt}
    <2>0. ~Pending'
      BY <1>0, <1>9, SMT DEF Pending, Unfinished, finished
    <2>1. FileAligned'
      BY <1>0, <1>3, <2>0, SMT DEF FileAligned
    <2>2. SectionAligned(p)'
      BY <1>2, <1>9, SMT DEF SectionAligned, Own
    <2> QED BY <1>0, <1>2, <1>4, <1>7, <1>a, <2>1, <2>2, StayAligned, SMT
  <1> QED BY <1>1, <1>8, <1>9

\* Nothing is asked of the preparation once it has been used.
LEMMA Unlocked ==
    ASSUME NEW p \in Procs, pc'[p] \in {"rbConfig", "rbLive", "close", "recConfig", "backLive", "backConfig", "recLive",
                                        "fwdConfig", "fwdWrite", "fwdCommit", "committed", "unstage", "remove"}
    PROVE  PrepAligned(p)'
  BY SMT DEF PrepAligned, Prepped, Before

\* The choice of what a rollback undoes keeps the alignment of the live credential, the config and the locals.
LEMMA RollbackSourceAligned == ASSUME TypeOK, Files, Aligned, NEW p \in Procs, rollbackSource(p) PROVE Aligned'
  <1>0. UNCHANGED <<disk, locks, env>> /\ pc[p] = "rollback" /\ Goto(p, "rbConfig")
    BY Zenon DEF rollbackSource
  <1>a. pc[p] \in Own /\ pc[p] \in Locked
    BY <1>0, SMT DEF Own, Locked
  <1>1. PICK u \in {journal.undo, loc[p].undo} : Set(p, [loc[p] EXCEPT !.undo = u]) \/ (UNCHANGED loc /\ u = loc[p].undo)
    BY Zenon DEF rollbackSource
  <1>2. /\ SameRequest(loc[p], loc'[p]) /\ SameCopies(loc[p], loc'[p]) /\ loc'[p].undo = u
        /\ pc'[p] = "rbConfig" /\ \A q \in Procs : q # p => loc'[q] = loc[q] /\ pc'[q] = pc[q]
    <2>1. CASE Set(p, [loc[p] EXCEPT !.undo = u])
      BY <1>0, <2>1, UndoLoc
    <2>2. CASE UNCHANGED loc /\ u = loc[p].undo
      BY <1>0, <2>2, GotoPc, SMT DEF SameRequest, SameCopies, TypeOK, Locked
    <2> QED BY <1>1, <2>1, <2>2
  <1>3. Undoable(loc[p], u)
    BY <1>0, <1>a, OwnAt, Zenon DEF SectionAligned
  <1>4. Pending' = Pending
    BY <1>0, SMT DEF Pending, Unfinished, finished
  <1>5. SectionAligned(p)'
    <2>1. Undoable(loc[p], loc[p].undo)'
      BY <1>0, <1>2, <1>3, SMT DEF Undoable, SameCopies
    <2>2. /\ live' = loc'[p].out \/ (live' = loc'[p].tgt /\ Pending' /\ journal'.credsHash = loc'[p].tgt)
          /\ loc'[p].to = journal'.to /\ loc'[p].tgt \in Creds /\ loc'[p].tgt.acct = loc'[p].to /\ loc'[p].out \in Creds
      <3>1. /\ live = loc[p].out \/ (live = loc[p].tgt /\ Pending /\ journal.credsHash = loc[p].tgt)
            /\ loc[p].to = journal.to /\ loc[p].tgt \in Creds /\ loc[p].tgt.acct = loc[p].to /\ loc[p].out \in Creds
        BY <1>0, <1>a, OwnAt, SMT DEF SectionAligned
      <3> QED BY <1>0, <1>2, <1>4, <3>1, SMT DEF SameRequest, SameCopies
    <2> QED BY <1>2, <2>1, <2>2, SMT DEF SectionAligned, Own
  <1>6. PrepAligned(p)'
    BY <1>2, Unlocked
  <1> QED BY <1>0, <1>2, <1>5, <1>6, OutsideAligned, SMT

\* The rollback's config write keeps the alignment of the live credential, the config and the locals.
LEMMA RollbackConfigAligned == ASSUME TypeOK, Files, Aligned, NEW p \in Procs, rollbackConfig(p) PROVE Aligned'
  <1>0. /\ UNCHANGED <<live, active, slot, prev, stash, staged, journal, committed, locks, env>> /\ pc[p] = "rbConfig"
        /\ Goto(p, "rbLive")
    BY Zenon DEF rollbackConfig
  <1>a. pc[p] \in Own /\ pc[p] \in Locked
    BY <1>0, SMT DEF Own, Locked
  <1>b. pc'[p] = "rbLive" /\ \A q \in Procs : q # p => pc'[q] = pc[q]
    BY <1>0, GotoPc, SMT DEF TypeOK, Locked
  <1>1. /\ Undoable(loc[p], loc[p].undo)
        /\ live = loc[p].out \/ (live = loc[p].tgt /\ Pending /\ journal.credsHash = loc[p].tgt)
        /\ StagedCopy = loc[p].out
    BY <1>0, <1>a, OwnAt, SMT DEF SectionAligned
  <1>2. Pending' = Pending /\ StagedCopy' = StagedCopy
    BY <1>0, SMT DEF Pending, StagedCopy, Unfinished, finished
  <1>3. PrepAligned(p)'
    BY <1>b, Unlocked
  <1>4. CASE config' = restoreConfigFromJournal(loc[p].undo) /\ UNCHANGED <<loc, faults>>
    <2>1. config'.oauth = loc[p].out.acct
      <3>1. loc[p].undo \in Undos /\ config \in Configs
        BY <1>a, OwnAt, SMT DEF TypeOK
      <3> QED BY <1>1, <1>4, <3>1, RestoreTyped, SMT DEF Undoable
    <2>2. SectionAligned(p)'
      BY <1>0, <1>1, <1>2, <1>4, <1>a, <1>b, <2>1, OwnAt, SMT DEF SectionAligned, Undoable, Own
    <2>3. FileAligned'
      <3>1. Pending => Untouched'
        BY <1>0, <1>1, <1>2, <1>a, <2>1, OwnAt, SMT DEF Untouched
      <3>2. ~Pending => live'.acct = config'.oauth
        BY <1>0, <1>1, <2>1
      <3> QED BY <1>0, <1>2, <1>a, <3>1, <3>2, OwnAt, SMT DEF FileAligned
    <2>4. SlotOwn'
      BY <1>0, <1>a, OwnAt, SlotStill, SMT DEF SlotOwn
    <2> QED BY <1>0, <1>3, <1>4, <1>a, <1>b, <2>2, <2>3, <2>4, StayAligned, SMT
  <1>5. CASE Set(p, [loc[p] EXCEPT !.failed = TRUE]) /\ UNCHANGED config
    <2>1. /\ SameRequest(loc[p], loc'[p]) /\ SameCopies(loc[p], loc'[p])
          /\ loc'[p].undo = loc[p].undo /\ loc'[p].failed
          /\ \A q \in Procs : q # p => loc'[q] = loc[q]
      BY <1>0, <1>5, FailedLoc
    <2>2. SectionAligned(p)'
      BY <1>0, <1>1, <1>2, <1>a, <1>b, <2>1, OwnAt, SMT DEF SectionAligned, Undoable, Own, SameRequest, SameCopies
    <2>3. UNCHANGED <<live, config, journal, slot, prev, staged, committed, newest>>
      BY <1>0, <1>5
    <2> QED BY <1>3, <1>b, <2>1, <2>2, <2>3, OutsideAligned, SMT
  <1> QED BY <1>4, <1>5, Zenon DEF rollbackConfig

\* The rollback's write of the live credential keeps the alignment of the live credential, the config and the locals.
LEMMA RollbackLiveAligned == ASSUME TypeOK, Files, Aligned, NEW p \in Procs, rollbackLive(p) PROVE Aligned'
  <1>0. /\ UNCHANGED <<config, active, slot, prev, stash, staged, journal, committed, configLock, env>> /\ pc[p] = "rbLive"
    BY Zenon DEF rollbackLive
  <1>a. pc[p] \in Own /\ pc[p] \in Locked
    BY <1>0, SMT DEF Own, Locked
  <1>1. /\ ~loc[p].failed => config.oauth = loc[p].out.acct
        /\ ~loc[p].undo.credsStarted => live = loc[p].out
        /\ live = loc[p].out \/ (live = loc[p].tgt /\ Pending /\ journal.credsHash = loc[p].tgt)
        /\ StagedCopy = loc[p].out
    BY <1>0, <1>a, OwnAt, SMT DEF SectionAligned
  <1>2. Pending' = Pending /\ StagedCopy' = StagedCopy
    BY <1>0, SMT DEF Pending, StagedCopy, Unfinished, finished
  <1>3. CASE /\ live' = IF loc[p].undo.credsStarted THEN loc[p].out ELSE live
             /\ Finish(p) \/ (~loc[p].failed /\ Goto(p, "close") /\ UNCHANGED <<loc, lock>>)
    <2>1. live' = loc[p].out
      BY <1>1, <1>3
    <2>2. FileAligned'
      <3>1. Pending => Untouched
        BY <1>1, <1>a, OwnAt, SMT DEF FileAligned, LoggedIn, LiveMoved
      <3>2. Pending => Untouched'
        BY <1>0, <1>1, <1>2, <2>1, <3>1, SMT DEF Untouched
      <3>3. ~Pending => live' = live
        BY <1>1, <2>1
      <3> QED BY <1>0, <1>2, <1>a, <3>2, <3>3, OwnAt, SMT DEF FileAligned
    <2>3. SlotOwn'
      BY <1>0, <1>a, <2>1, OwnAt, SlotStill, SMT
    <2>4. CASE Finish(p)
      BY <1>0, <1>a, <2>2, <2>3, <2>4, FinishAligned, SMT
    <2>5. CASE ~loc[p].failed /\ Goto(p, "close") /\ UNCHANGED <<loc, lock>>
      <3>1. pc'[p] = "close" /\ \A q \in Procs : q # p => pc'[q] = pc[q]
        BY <2>5, GotoPc, SMT DEF TypeOK, Locked
      <3>2. PrepAligned(p)'
        BY <3>1, Unlocked
      <3>3. SectionAligned(p)'
        BY <1>0, <1>1, <2>1, <2>5, <3>1, SMT DEF SectionAligned, Own
      <3> QED BY <1>0, <1>a, <2>2, <2>3, <2>5, <3>1, <3>2, <3>3, StayAligned, SMT
    <2> QED BY <1>3, <2>4, <2>5
  <1>4. CASE Finish(p) /\ UNCHANGED live
    BY <1>0, <1>4, QuietFinish, SMT
  <1> QED BY <1>3, <1>4, Zenon DEF rollbackLive

\* Once no switch is pending, agreement is all the file part asks for.
LEMMA NoPending ==
    ASSUME FileAligned, SlotOwn, ~Pending', live.acct = config.oauth, UNCHANGED <<live, config, slot, prev>>
    PROVE  FileAligned' /\ SlotOwn'
  <1>1. FileAligned'
    BY SMT DEF FileAligned
  <1> QED BY <1>1, SlotStill, SMT DEF SlotOwn

\* Once the journal's switch is over, its holder only tidies up.
LEMMA TidyAligned ==
    ASSUME TypeOK, Files, Aligned, NEW p \in Procs, pc[p] \in Locked, live.acct = config.oauth, ~Pending',
           UNCHANGED <<live, config, slot, prev, newest>>,
           Finish(p) \/ (UNCHANGED loc /\ \E label \in {"unstage", "remove", "remove4", "step4"} : Goto(p, label)),
           (\E label \in {"remove4", "step4"} : Goto(p, label)) => pc[p] \in {"unstage4", "remove4"}
    PROVE  Aligned'
  <1>1. FileAligned' /\ SlotOwn'
    BY NoPending DEF Aligned
  <1>2. CASE Finish(p)
    BY <1>1, <1>2, FinishAligned
  <1>3. ASSUME UNCHANGED loc, NEW label \in {"unstage", "remove", "remove4", "step4"}, Goto(p, label) PROVE Aligned'
    <2>1. pc'[p] = label /\ \A q \in Procs : q # p => pc'[q] = pc[q]
      BY <1>3, GotoPc, SMT DEF TypeOK, Locked
    <2>2. PrepAligned(p)'
      <3>1. PrepAligned(p)
        BY DEF Aligned
      <3>2. label \in {"remove4", "step4"} => pc[p] \in {"unstage4", "remove4"}
        BY <1>3
      <3> QED BY <1>3, <2>1, <3>1, <3>2, SMT DEF PrepAligned, Prepped, Before
    <2>3. SectionAligned(p)'
      BY <2>1, SMT DEF SectionAligned, Own
    <2> QED BY <1>1, <1>3, <2>1, <2>2, <2>3, StayAligned
  <1> QED BY <1>2, <1>3

\* At the end of a switch nothing is pending.
LEMMA OverAligned ==
    ASSUME TypeOK, Files, Aligned, NEW p \in Procs, pc[p] \in {"committed", "unstage", "remove", "unstage4", "remove4"}
    PROVE  journal # None /\ journal \in Journals /\ finished(journal) /\ ~Pending /\ live.acct = config.oauth /\ pc[p] \in Locked
  <1>1. journal # None /\ finished(journal)
    BY SMT DEF Files, SectionFile, Closing
  <1>2. ~Pending
    BY <1>1, SMT DEF Pending, Unfinished
  <1> QED BY <1>1, <1>2, SMT DEF Aligned, FileAligned, Locked, TypeOK

\* The mark of a committed journal keeps the alignment of the live credential, the config and the locals.
LEMMA MarkCommittedAligned == ASSUME TypeOK, Files, Aligned, NEW p \in Procs, markCommitted(p) PROVE Aligned'
  <1>0. /\ UNCHANGED <<live, config, active, slot, prev, stash, staged, committed, configLock, env>> /\ pc[p] = "committed"
        /\ Finish(p) \/ (UNCHANGED loc /\ Goto(p, "unstage"))
        /\ journal' = journal \/ journal' = [journal EXCEPT !.committed = TRUE]
    BY Zenon DEF markCommitted, LastEffect
  <1>1. journal # None /\ journal \in Journals /\ finished(journal) /\ live.acct = config.oauth /\ pc[p] \in Locked
    BY <1>0, OverAligned, SMT
  <1>2. finished(journal)'
    <2>1. CASE journal' = journal
      BY <1>0, <1>1, <2>1, SMT DEF finished
    <2>2. CASE journal' = [journal EXCEPT !.committed = TRUE]
      BY <1>1, <2>2, JournalCommitted, SMT DEF finished
    <2> QED BY <1>0, <2>1, <2>2
  <1>3. ~Pending'
    BY <1>2, SMT DEF Pending, Unfinished
  <1>4. (\E label \in {"remove4", "step4"} : Goto(p, label)) => pc[p] \in {"unstage4", "remove4"}
    <2>1. pc'[p] \in {"unstage", "idle", "done"}
      BY <1>0, GotoPc, FinishTyped, SMT DEF TypeOK, Locked
    <2> QED BY <2>1, GotoPc, SMT DEF TypeOK, Locked
  <1> QED BY <1>0, <1>1, <1>3, <1>4, TidyAligned, Zenon

\* The mark of a rolled-back journal keeps the alignment of the live credential, the config and the locals.
LEMMA MarkClosedAligned == ASSUME TypeOK, Files, Aligned, NEW p \in Procs, markClosed(p) PROVE Aligned'
  <1>0. /\ UNCHANGED <<live, config, active, slot, prev, stash, staged, committed, configLock, env>> /\ pc[p] = "close"
        /\ \/ Finish(p) /\ journal' = journal
           \/ /\ Finish(p) \/ (UNCHANGED loc /\ Goto(p, "unstage"))
              /\ journal' = [journal EXCEPT !.closed = "rolled-back"]
    BY Zenon DEF markClosed, LastEffect
  <1>1. CASE Finish(p) /\ journal' = journal
    BY <1>0, <1>1, QuietFinish, SMT
  <1>2. CASE /\ Finish(p) \/ (UNCHANGED loc /\ Goto(p, "unstage"))
             /\ journal' = [journal EXCEPT !.closed = "rolled-back"]
    <2>1. journal # None /\ journal \in Journals /\ pc[p] \in Locked
      BY <1>0, InSection, SMT DEF Closing
    <2>2. finished(journal)'
      BY <1>2, <2>1, JournalClosed, SMT DEF finished
    <2>3. ~Pending'
      BY <2>2, SMT DEF Pending, Unfinished
    <2>4. live.acct = config.oauth
      BY <1>0, SMT DEF Aligned, SectionAligned
    <2>5. (\E label \in {"remove4", "step4"} : Goto(p, label)) => pc[p] \in {"unstage4", "remove4"}
      <3>1. pc'[p] \in {"unstage", "idle", "done"}
        BY <1>2, GotoPc, FinishTyped, SMT DEF TypeOK, Locked
      <3> QED BY <3>1, GotoPc, SMT DEF TypeOK, Locked
    <2> QED BY <1>0, <1>2, <2>1, <2>3, <2>4, <2>5, TidyAligned, Zenon
  <1> QED BY <1>0, <1>1, <1>2

\* The removal of the staged copy keeps the alignment of the live credential, the config and the locals.
LEMMA UnstageAligned == ASSUME TypeOK, Files, Aligned, NEW p \in Procs, deleteStagedRollback(p) PROVE Aligned'
  <1>0. /\ UNCHANGED <<live, config, active, slot, prev, stash, journal, committed, configLock, env>>
        /\ pc[p] \in {"unstage", "unstage4"}
        /\ Finish(p) \/ (UNCHANGED loc /\ Goto(p, IF pc[p] = "unstage" THEN "remove" ELSE "remove4"))
    BY Zenon DEF deleteStagedRollback, LastEffect
  <1>1. finished(journal) /\ live.acct = config.oauth /\ pc[p] \in Locked
    BY <1>0, OverAligned, SMT
  <1>2. ~Pending'
    BY <1>0, <1>1, SMT DEF Pending, Unfinished, finished
  <1>3. (\E label \in {"remove4", "step4"} : Goto(p, label)) => pc[p] \in {"unstage4", "remove4"}
    <2>1. pc'[p] \in {"remove", "idle", "done"} \/ pc[p] = "unstage4"
      BY <1>0, GotoPc, FinishTyped, SMT DEF TypeOK, Locked
    <2> QED BY <2>1, GotoPc, SMT DEF TypeOK, Locked
  <1>4. Finish(p) \/ (UNCHANGED loc /\ \E label \in {"unstage", "remove", "remove4", "step4"} : Goto(p, label))
    BY <1>0
  <1> QED BY <1>0, <1>1, <1>2, <1>3, <1>4, TidyAligned, Zenon

\* The removal of the journal keeps the alignment of the live credential, the config and the locals.
LEMMA RemoveAligned == ASSUME TypeOK, Files, Aligned, NEW p \in Procs, deleteClaudeSwitchJournal(p) PROVE Aligned'
  <1>0. /\ UNCHANGED <<live, config, active, slot, prev, stash, staged, committed, configLock, env>>
        /\ pc[p] \in {"remove", "remove4"}
        /\ Finish(p) \/ (pc[p] = "remove4" /\ UNCHANGED loc /\ Goto(p, "step4"))
        /\ journal' = None \/ journal' = journal
    BY Zenon DEF deleteClaudeSwitchJournal
  <1>1. finished(journal) /\ live.acct = config.oauth /\ pc[p] \in Locked
    BY <1>0, OverAligned, SMT
  <1>2. ~Pending'
    BY <1>0, <1>1, SMT DEF Pending, Unfinished, finished
  <1>3. (\E label \in {"remove4", "step4"} : Goto(p, label)) => pc[p] \in {"unstage4", "remove4"}
    <2>1. pc'[p] \in {"idle", "done"} \/ pc[p] = "remove4"
      BY <1>0, GotoPc, FinishTyped, SMT DEF TypeOK, Locked
    <2> QED BY <2>1, GotoPc, SMT DEF TypeOK, Locked
  <1>4. Finish(p) \/ (UNCHANGED loc /\ \E label \in {"unstage", "remove", "remove4", "step4"} : Goto(p, label))
    BY <1>0
  <1> QED BY <1>0, <1>1, <1>2, <1>3, <1>4, TidyAligned, Zenon

\* The recovery's second look at the journal under the lock keeps the alignment of the live credential, the config and the locals.
LEMMA RecheckAligned == ASSUME TypeOK, Files, Aligned, NEW p \in Procs, recheck(p) PROVE Aligned'
  <1>0. UNCHANGED <<disk, configLock, env, faults>> /\ pc[p] = "recheck"
    BY Zenon DEF recheck
  <1>1. CASE Finish(p)
    BY <1>0, <1>1, QuietFinish, SMT
  <1>2. ASSUME NEW label \in {"recLive", "backConfig", "fwdConfig"}, Goto(p, label), UNCHANGED loc PROVE Aligned'
    <2>1. pc'[p] = label /\ \A q \in Procs : q # p => pc'[q] = pc[q]
      BY <1>2, GotoPc, SMT DEF TypeOK, Locked
    <2>2. PrepAligned(p)'
      BY <2>1, Unlocked, SMT
    <2>3. SectionAligned(p)'
      BY <2>1, SMT DEF SectionAligned, Own
    <2> QED BY <1>0, <1>2, <2>1, <2>2, <2>3, OutsideAligned, SMT
  <1> QED BY <1>1, <1>2, Zenon DEF recheck

\* What a recovery inside the section may assume of the stores.
LEMMA RecAligned ==
    ASSUME TypeOK, Files, Aligned, NEW p \in Procs, pc[p] \in Rec
    PROVE  /\ journal \in Journals /\ journal # None /\ journal.undo \in Undos /\ pc[p] \in Locked /\ ~finished(journal)
           /\ Pending <=> journal.undo.credsStarted
           /\ journal.undo.cfgStarted => journal.undo.credsStarted
           /\ journal.credsWritten => journal.undo.credsStarted
           /\ journal.from \in Accounts /\ journal.to \in Accounts
           /\ ~Pending => live.acct = config.oauth
           /\ Pending =>
                /\ journal.credsHash \in Creds /\ journal.credsHash.acct = journal.to /\ StagedCopy \in Creds
                /\ journal.from = journal.to => StagedCopy.acct = journal.from
                /\ journal.undo.cfgStarted =>
                      journal.undo.cfgText.oauth = StagedCopy.acct /\ journal.undo.cfgHash.oauth = journal.to
                /\ Untouched \/ LoggedIn
                /\ ~LiveMoved => Untouched
           /\ SectionAligned(p) /\ SlotOwn /\ FileAligned
  <1>1. /\ journal \in Journals /\ journal # None /\ journal.undo \in Undos /\ pc[p] \in Locked /\ ~finished(journal)
        /\ journal.from \in Accounts /\ journal.to \in Accounts
        /\ journal.undo.cfgStarted => journal.undo.credsStarted
        /\ journal.credsWritten => journal.undo.credsStarted
    BY RecoveryAt
  <1>2. Pending <=> journal.undo.credsStarted
    BY <1>1, SMT DEF Pending, Unfinished
  <1>3. SectionAligned(p) /\ SlotOwn /\ FileAligned
    BY DEF Aligned
  <1>4. LoggedIn => LiveMoved
    BY DEF LoggedIn
  <1> QED BY <1>1, <1>2, <1>3, <1>4, Zenon DEF FileAligned

\* What restoreConfigFromJournal names once the switch's own writes are undone.
LEMMA Restored ==
    ASSUME TypeOK, Files, Aligned, NEW p \in Procs, pc[p] \in Rec, config' = restoreConfigFromJournal(journal.undo)
    PROVE  /\ Pending /\ Untouched => config'.oauth = StagedCopy.acct
           /\ ~Pending => config' = config
  <1>1. journal.undo \in Undos /\ config \in Configs
    BY RecAligned, SMT DEF TypeOK
  <1>2. /\ ~journal.undo.cfgStarted => config' = config
        /\ journal.undo.cfgStarted => config'.oauth = journal.undo.cfgText.oauth
    BY <1>1, RestoreTyped
  <1> QED BY <1>2, RecAligned, SMT DEF Untouched

\* Recovery's write of the staged credential keeps the alignment of the live credential, the config and the locals.
LEMMA RecLiveAligned == ASSUME TypeOK, Files, Aligned, NEW p \in Procs, restoreLiveFromStaged(p) PROVE Aligned'
  <1>0. UNCHANGED <<config, active, slot, prev, stash, staged, journal, committed, configLock, env>> /\ pc[p] = "recLive"
    BY Zenon DEF restoreLiveFromStaged
  <1>a. pc[p] \in Rec
    BY <1>0, SMT DEF Rec
  <1>b. Pending' = Pending /\ StagedCopy' = StagedCopy
    BY <1>0, SMT DEF Pending, StagedCopy, Unfinished, finished
  <1>1. CASE ~journal.undo.credsStarted /\ Goto(p, "recConfig") /\ UNCHANGED <<live, loc, lock, faults>>
    <2>1. pc'[p] = "recConfig" /\ \A q \in Procs : q # p => pc'[q] = pc[q]
      BY <1>1, GotoPc, SMT DEF TypeOK, Locked
    <2>2. ~Pending'
      BY <1>1, <1>b, SMT DEF Pending
    <2>3. SectionAligned(p)'
      BY <2>1, <2>2, SMT DEF SectionAligned, Own
    <2> QED BY <1>0, <1>1, <2>1, <2>3, Unlocked, OutsideAligned, SMT
  <1>2. CASE Finish(p) /\ UNCHANGED live
    BY <1>0, <1>2, QuietFinish, SMT
  <1>3. CASE /\ journal.undo.credsStarted /\ ~LiveMoved
             /\ \/ live' = StagedCopy /\ Goto(p, "recConfig") /\ UNCHANGED loc
                \/ live' = StagedCopy /\ Finish(p)
    <2>1. Pending /\ Untouched
      BY <1>3, <1>a, RecAligned
    <2>2. Untouched'
      BY <1>0, <1>3, <1>b, <2>1, SMT DEF Untouched
    <2>3. FileAligned'
      BY <1>0, <1>a, <1>b, <2>1, <2>2, RecAligned, SMT DEF FileAligned
    <2>4. SlotOwn'
      BY <1>0, <1>3, <1>a, <2>1, RecAligned, SlotStill, SMT
    <2>5. CASE Finish(p)
      BY <1>0, <1>a, <2>3, <2>4, <2>5, RecAligned, FinishAligned, SMT
    <2>6. CASE Goto(p, "recConfig") /\ UNCHANGED loc
      <3>1. pc'[p] = "recConfig" /\ \A q \in Procs : q # p => pc'[q] = pc[q]
        BY <2>6, GotoPc, SMT DEF TypeOK, Locked
      <3>2. SectionAligned(p)'
        BY <1>3, <1>b, <3>1, SMT DEF SectionAligned, Own
      <3>3. PrepAligned(p)'
        BY <3>1, Unlocked
      <3> QED BY <1>0, <1>a, <2>3, <2>4, <2>6, <3>1, <3>2, <3>3, RecAligned, StayAligned, SMT
    <2> QED BY <1>3, <2>5, <2>6
  <1> QED BY <1>1, <1>2, <1>3, Zenon DEF restoreLiveFromStaged, LastEffect

\* Recovery's reconciliation of the config keeps the alignment of the live credential, the config and the locals.
LEMMA RecConfigAligned == ASSUME TypeOK, Files, Aligned, NEW p \in Procs, reconcileConfig(p) PROVE Aligned'
  <1>0. UNCHANGED <<live, active, slot, prev, stash, staged, journal, committed, configLock, env>> /\ pc[p] = "recConfig"
    BY Zenon DEF reconcileConfig
  <1>a. pc[p] \in Rec
    BY <1>0, SMT DEF Rec
  <1>b. Pending' = Pending /\ StagedCopy' = StagedCopy
    BY <1>0, SMT DEF Pending, StagedCopy, Unfinished, finished
  <1>1. CASE Finish(p) /\ UNCHANGED config
    BY <1>0, <1>1, QuietFinish, SMT
  <1>2. CASE config' = restoreConfigFromJournal(journal.undo) /\ (Finish(p) \/ (Goto(p, "close") /\ UNCHANGED loc))
    <2>1. Pending => live = StagedCopy /\ Untouched
      <3>1. Pending => live = StagedCopy
        BY <1>0, <1>a, RecAligned, SMT DEF SectionAligned
      <3> QED BY <1>a, <3>1, RecAligned, SMT DEF LiveMoved
    <2>2. live'.acct = config'.oauth
      BY <1>0, <1>2, <1>a, <2>1, Restored, RecAligned
    <2>3. Pending => Untouched'
      BY <1>0, <1>b, <2>1, <2>2, SMT DEF Untouched
    <2>4. FileAligned'
      BY <1>0, <1>a, <1>b, <2>2, <2>3, RecAligned, SMT DEF FileAligned
    <2>5. SlotOwn'
      BY <1>0, <1>a, RecAligned, SlotStill, SMT DEF SlotOwn
    <2>6. CASE Finish(p)
      BY <1>0, <1>a, <2>4, <2>5, <2>6, RecAligned, FinishAligned, SMT
    <2>7. CASE Goto(p, "close") /\ UNCHANGED loc
      <3>1. pc'[p] = "close" /\ \A q \in Procs : q # p => pc'[q] = pc[q]
        BY <2>7, GotoPc, SMT DEF TypeOK, Locked
      <3>2. SectionAligned(p)'
        BY <2>2, <3>1, SMT DEF SectionAligned, Own
      <3>3. PrepAligned(p)'
        BY <3>1, Unlocked
      <3> QED BY <1>0, <1>a, <2>4, <2>5, <2>7, <3>1, <3>2, <3>3, RecAligned, StayAligned, SMT
    <2> QED BY <1>2, <2>6, <2>7
  <1> QED BY <1>1, <1>2, Zenon DEF reconcileConfig, LastEffect

\* What resolve --back is admitted for: no login cut across the switch.
LEMMA BackLineage ==
    ASSUME TypeOK, Files, Aligned, NEW p \in Procs, pc[p] \in Rec, BackAdmits, Pending
    PROVE  Untouched /\ (live # journal.credsHash => live.acct = StagedCopy.acct)
  <1>1. journal.from \in Accounts /\ SlotOwn /\ live \in Creds
    BY RecAligned, SMT DEF SlotOwn
  <1>2. live.acct \in People /\ live.fam \in Nat /\ live.acct # None
    BY <1>1, AccountsAssumption, SMT DEF Creds
  <1>3. ~LiveMoved \/ (live.acct = journal.from /\ (slot[journal.from].fam = live.fam \/ prev[journal.from].fam = live.fam))
    <2>1. \/ ~LiveMoved
          \/ sameCredentialLineage(live, slot[journal.from])
          \/ sameCredentialLineage(live, prev[journal.from])
      BY RecAligned, Zenon DEF BackAdmits
    <2> QED BY <1>1, <1>2, <2>1, SMT DEF sameCredentialLineage, SlotOwn
  <1>4. ~LoggedIn
    BY <1>1, <1>2, <1>3, SMT DEF LoggedIn
  <1>5. Untouched
    BY <1>4, RecAligned
  <1>6. ASSUME live # journal.credsHash PROVE live.acct = StagedCopy.acct
    <2>1. CASE ~LiveMoved
      BY <1>6, <2>1 DEF LiveMoved
    <2>2. CASE live.acct = journal.from
      BY <1>5, <2>2, RecAligned, SMT DEF Untouched
    <2> QED BY <1>3, <2>1, <2>2
  <1> QED BY <1>5, <1>6

\* resolve --back's config write keeps the alignment of the live credential, the config and the locals.
LEMMA BackConfigAligned == ASSUME TypeOK, Files, Aligned, NEW p \in Procs, resolveBackConfig(p) PROVE Aligned'
  <1>0. UNCHANGED <<live, active, slot, prev, stash, staged, journal, committed, configLock, env>> /\ pc[p] = "backConfig"
    BY Zenon DEF resolveBackConfig
  <1>a. pc[p] \in Rec
    BY <1>0, SMT DEF Rec
  <1>b. Pending' = Pending /\ StagedCopy' = StagedCopy
    BY <1>0, SMT DEF Pending, StagedCopy, Unfinished, finished
  <1>1. CASE Finish(p) /\ UNCHANGED config
    BY <1>0, <1>1, QuietFinish, SMT
  <1>2. CASE /\ BackAdmits /\ config' = restoreConfigFromJournal(journal.undo)
             /\ Finish(p) \/ (Goto(p, "backLive") /\ UNCHANGED loc)
    <2>1. Pending => /\ Untouched /\ config'.oauth = StagedCopy.acct
                     /\ live # journal.credsHash => live.acct = StagedCopy.acct
      BY <1>2, <1>a, BackLineage, Restored
    <2>2. ~Pending => live'.acct = config'.oauth
      BY <1>0, <1>2, <1>a, Restored, RecAligned
    <2>3. Pending => Untouched'
      BY <1>0, <1>b, <2>1, SMT DEF Untouched
    <2>4. FileAligned'
      BY <1>0, <1>a, <1>b, <2>2, <2>3, RecAligned, SMT DEF FileAligned
    <2>5. SlotOwn'
      BY <1>0, <1>a, RecAligned, SlotStill, SMT DEF SlotOwn
    <2>6. CASE Finish(p)
      BY <1>0, <1>a, <2>4, <2>5, <2>6, RecAligned, FinishAligned, SMT
    <2>7. CASE Goto(p, "backLive") /\ UNCHANGED loc
      <3>1. pc'[p] = "backLive" /\ \A q \in Procs : q # p => pc'[q] = pc[q]
        BY <2>7, GotoPc, SMT DEF TypeOK, Locked
      <3>2. SectionAligned(p)'
        BY <1>0, <1>b, <2>1, <3>1, SMT DEF SectionAligned, Own
      <3>3. PrepAligned(p)'
        BY <3>1, Unlocked
      <3> QED BY <1>0, <1>a, <2>4, <2>5, <2>7, <3>1, <3>2, <3>3, RecAligned, StayAligned, SMT
    <2> QED BY <1>2, <2>6, <2>7
  <1> QED BY <1>1, <1>2, Zenon DEF resolveBackConfig, LastEffect

\* resolve --back's write of the live credential keeps the alignment of the live credential, the config and the locals.
LEMMA BackLiveAligned == ASSUME TypeOK, Files, Aligned, NEW p \in Procs, resolveBackLive(p) PROVE Aligned'
  <1>0. UNCHANGED <<config, active, slot, prev, stash, staged, journal, committed, configLock, env>> /\ pc[p] = "backLive"
    BY Zenon DEF resolveBackLive
  <1>a. pc[p] \in Rec
    BY <1>0, SMT DEF Rec
  <1>b. Pending' = Pending /\ StagedCopy' = StagedCopy
    BY <1>0, SMT DEF Pending, StagedCopy, Unfinished, finished
  <1>1. CASE Finish(p) /\ UNCHANGED live
    BY <1>0, <1>1, QuietFinish, SMT
  <1>2. CASE /\ live' = IF journal.undo.credsStarted /\ live = journal.credsHash THEN StagedCopy ELSE live
             /\ Finish(p) \/ (Goto(p, "close") /\ UNCHANGED loc)
    <2>1. live'.acct = config'.oauth /\ live' \in Creds
      <3>1. Pending => IF live = journal.credsHash THEN config.oauth = StagedCopy.acct ELSE live.acct = config.oauth
        BY <1>0, <1>a, RecAligned, SMT DEF SectionAligned
      <3> QED BY <1>0, <1>2, <1>a, <3>1, RecAligned, SMT DEF SlotOwn
    <2>2. Pending => (Untouched \/ LoggedIn)'
      <3>1. CASE Pending /\ live = journal.credsHash
        <4>1. Untouched /\ live' = StagedCopy
          BY <1>2, <1>a, <3>1, RecAligned, SMT DEF LiveMoved
        <4> QED BY <1>0, <1>b, <4>1, SMT DEF Untouched
      <3>2. CASE Pending /\ live # journal.credsHash
        <4>1. live' = live
          BY <1>2, <3>2
        <4>2. \A q \in Procs : pc'[q] = "persist" => pc[q] = "persist" /\ loc'[q] = loc[q]
          BY <1>2, GotoPc, FinishTyped, SMT DEF TypeOK, Locked
        <4>3. FileAligned'
          BY <1>0, <1>a, <4>1, <4>2, RecAligned, FileStill, SMT
        <4> QED BY <1>b, <3>2, <4>3, Zenon DEF FileAligned
      <3> QED BY <3>1, <3>2
    <2>4. FileAligned'
      BY <1>0, <1>a, <1>b, <2>1, <2>2, RecAligned, SMT DEF FileAligned
    <2>5. SlotOwn'
      BY <1>0, <1>a, <2>1, RecAligned, SlotStill, SMT
    <2>6. CASE Finish(p)
      BY <1>0, <1>a, <2>4, <2>5, <2>6, RecAligned, FinishAligned, SMT
    <2>7. CASE Goto(p, "close") /\ UNCHANGED loc
      <3>1. pc'[p] = "close" /\ \A q \in Procs : q # p => pc'[q] = pc[q]
        BY <2>7, GotoPc, SMT DEF TypeOK, Locked
      <3>2. SectionAligned(p)'
        BY <2>1, <3>1, SMT DEF SectionAligned, Own
      <3>3. PrepAligned(p)'
        BY <3>1, Unlocked
      <3> QED BY <1>0, <1>a, <2>4, <2>5, <2>7, <3>1, <3>2, <3>3, RecAligned, StayAligned, SMT
    <2> QED BY <1>2, <2>6, <2>7
  <1> QED BY <1>1, <1>2, Zenon DEF resolveBackLive, LastEffect

\* What resolve --forward is admitted for: the live credential is the target's.
LEMMA ForwardAligned ==
    ASSUME TypeOK, Files, Aligned, NEW p \in Procs, pc[p] \in Rec, ForwardAdmits
    PROVE  Pending /\ Untouched /\ live.acct = journal.to
  <1>1. journal.to \in Accounts /\ SlotOwn /\ live = slot[journal.to] /\ Pending
    BY RecAligned, Zenon DEF ForwardAdmits
  <1>2. live.acct = journal.to /\ live.fam \in Nat
    BY <1>1, SMT DEF SlotOwn, Creds
  <1>3. ~LoggedIn
    BY <1>1, <1>2, SMT DEF LoggedIn
  <1> QED BY <1>1, <1>2, <1>3, RecAligned

\* resolve --forward's config intent keeps the alignment of the live credential, the config and the locals.
LEMMA FwdConfigAligned == ASSUME TypeOK, Files, Aligned, NEW p \in Procs, resolveForwardConfig(p) PROVE Aligned'
  <1>0. UNCHANGED <<live, config, active, slot, prev, stash, staged, committed, env>> /\ pc[p] = "fwdConfig"
    BY Zenon DEF resolveForwardConfig
  <1>a. pc[p] \in Rec
    BY <1>0, SMT DEF Rec
  <1>1. CASE Finish(p) /\ journal' = journal
    BY <1>0, <1>1, QuietFinish, SMT
  <1>2. CASE /\ ForwardAdmits /\ Forwarded
             /\ journal' = journal \/ journal'.undo = ConfigIntent(journal.undo, journal.to)
             /\ \/ Goto(p, "fwdWrite") /\ UNCHANGED <<loc, lock>>
                   /\ (journal.undo.cfgStarted \/ journal'.undo = ConfigIntent(journal.undo, journal.to))
                \/ Finish(p)
    <2>1. Pending /\ Untouched /\ live.acct = journal.to
      BY <1>2, <1>a, ForwardAligned
    <2>2. PICK v : v = ConfigIntent(journal.undo, journal.to)
      OBVIOUS
    <2>3. v.cfgStarted /\ v.credsStarted = journal.undo.credsStarted /\ v.cfgText = config /\ v.cfgHash.oauth = journal.to
      <3>1. config \in Configs /\ journal.undo \in Undos /\ journal.to \in Accounts
        BY <1>a, RecAligned, SMT DEF TypeOK
      <3> QED BY <2>2, <3>1, ConfigIntentTyped
    <2>4. journal.undo.cfgStarted => journal' = journal
      BY <1>2, Zenon DEF resolveForwardConfig, LastEffect
    <2>5. /\ journal' # None /\ journal'.attempt = journal.attempt /\ journal'.from = journal.from /\ journal'.to = journal.to
          /\ journal'.committed = journal.committed /\ journal'.closed = journal.closed
          /\ journal'.undo.credsStarted /\ journal'.credsHash = journal.credsHash
          /\ journal' = journal \/ journal'.undo = v
          /\ (Goto(p, "fwdWrite") /\ UNCHANGED loc /\ journal'.undo.cfgStarted) \/ Finish(p)
      BY <1>2, <2>2, <2>3, <2>4, Zenon DEF Forwarded, SameFile
    <2>6. Pending' /\ StagedCopy' = StagedCopy
      BY <1>0, <2>1, <2>5, SMT DEF Pending, StagedCopy, Unfinished, finished
    <2>7. Untouched'
      BY <1>0, <2>1, <2>3, <2>5, <2>6, SMT DEF Untouched
    <2>8. FileAligned'
      <3>1. journal'.undo.cfgStarted => journal'.undo.cfgText.oauth = StagedCopy.acct /\ journal'.undo.cfgHash.oauth = journal'.to
        <4>1. CASE journal' = journal
          BY <1>a, <2>1, <4>1, RecAligned
        <4>2. CASE journal' # journal
          <5>1. ~journal.undo.cfgStarted /\ journal'.undo = v
            BY <2>4, <2>5, <4>2
          <5> QED BY <2>1, <2>3, <2>5, <5>1, SMT DEF Untouched
        <4> QED BY <4>1, <4>2
      <3> QED BY <1>0, <1>a, <2>1, <2>5, <2>6, <2>7, <3>1, RecAligned, SMT DEF FileAligned
    <2>9. SlotOwn'
      BY <1>0, <1>a, RecAligned, SlotStill, SMT DEF SlotOwn
    <2>10. CASE Finish(p)
      BY <1>0, <1>a, <2>8, <2>9, <2>10, RecAligned, FinishAligned, SMT
    <2>11. CASE Goto(p, "fwdWrite") /\ UNCHANGED loc /\ journal'.undo.cfgStarted
      <3>1. pc'[p] = "fwdWrite" /\ \A q \in Procs : q # p => pc'[q] = pc[q]
        BY <2>11, GotoPc, SMT DEF TypeOK, Locked
      <3>2. SectionAligned(p)'
        BY <1>0, <2>1, <2>5, <2>6, <2>11, <3>1, SMT DEF SectionAligned, Own
      <3>3. PrepAligned(p)'
        BY <3>1, Unlocked
      <3> QED BY <1>0, <1>a, <2>8, <2>9, <2>11, <3>1, <3>2, <3>3, RecAligned, StayAligned, SMT
    <2> QED BY <2>5, <2>10, <2>11
  <1> QED BY <1>1, <1>2, ForwardFile

\* resolve --forward's config write keeps the alignment of the live credential, the config and the locals.
LEMMA FwdWriteAligned == ASSUME TypeOK, Files, Aligned, NEW p \in Procs, resolveForwardWrite(p) PROVE Aligned'
  <1>0. UNCHANGED <<live, active, slot, prev, stash, staged, journal, committed, env>> /\ pc[p] = "fwdWrite"
    BY Zenon DEF resolveForwardWrite
  <1>a. pc[p] \in Rec
    BY <1>0, SMT DEF Rec
  <1>b. Pending' = Pending /\ StagedCopy' = StagedCopy /\ LiveMoved' = LiveMoved
    BY <1>0, SMT DEF Pending, StagedCopy, Unfinished, finished, LiveMoved
  <1>1. CASE Finish(p) /\ UNCHANGED config
    BY <1>0, <1>1, QuietFinish, SMT
  <1>2. CASE config' = journal.undo.cfgHash /\ (Finish(p) \/ (Goto(p, "fwdCommit") /\ UNCHANGED loc))
    <2>1. Pending /\ journal.undo.cfgStarted /\ live.acct = journal.to
      BY <1>0, <1>a, RecAligned, SMT DEF SectionAligned
    <2>2. config'.oauth = journal.to
      BY <1>2, <1>a, <2>1, RecAligned
    <2>3. Untouched'
      BY <1>0, <1>b, <2>1, <2>2, SMT DEF Untouched
    <2>4. FileAligned'
      BY <1>0, <1>a, <1>b, <2>1, <2>3, RecAligned, SMT DEF FileAligned
    <2>5. SlotOwn'
      BY <1>0, <1>a, RecAligned, SlotStill, SMT DEF SlotOwn
    <2>6. CASE Finish(p)
      BY <1>0, <1>a, <2>4, <2>5, <2>6, RecAligned, FinishAligned, SMT
    <2>7. CASE Goto(p, "fwdCommit") /\ UNCHANGED loc
      <3>1. pc'[p] = "fwdCommit" /\ \A q \in Procs : q # p => pc'[q] = pc[q]
        BY <2>7, GotoPc, SMT DEF TypeOK, Locked
      <3>2. SectionAligned(p)'
        BY <1>0, <1>b, <2>1, <2>2, <3>1, SMT DEF SectionAligned, Own
      <3>3. PrepAligned(p)'
        BY <3>1, Unlocked
      <3> QED BY <1>0, <1>a, <2>4, <2>5, <2>7, <3>1, <3>2, <3>3, RecAligned, StayAligned, SMT
    <2> QED BY <1>2, <2>6, <2>7
  <1> QED BY <1>1, <1>2, Zenon DEF resolveForwardWrite, LastEffect

\* resolve --forward's commit keeps the alignment of the live credential, the config and the locals.
LEMMA FwdCommitAligned == ASSUME TypeOK, Files, Aligned, NEW p \in Procs, resolveForwardCommit(p) PROVE Aligned'
  <1>0. UNCHANGED <<live, config, slot, prev, stash, staged, journal, configLock, env>> /\ pc[p] = "fwdCommit"
    BY Zenon DEF resolveForwardCommit
  <1>a. pc[p] \in Rec
    BY <1>0, SMT DEF Rec
  <1>1. CASE Finish(p) /\ UNCHANGED committed
    BY <1>0, <1>1, QuietFinish, SMT
  <1>2. CASE committed' = committed \cup {journal.attempt} /\ Goto(p, "committed") /\ UNCHANGED loc
    <2>1. ~Pending'
      BY <1>0, <1>2, SMT DEF Pending, Unfinished, finished
    <2>2. live.acct = config.oauth
      BY <1>0, <1>a, RecAligned, SMT DEF SectionAligned
    <2>3. FileAligned' /\ SlotOwn'
      BY <1>0, <1>a, <2>1, <2>2, RecAligned, NoPending, SMT
    <2>4. pc'[p] = "committed" /\ \A q \in Procs : q # p => pc'[q] = pc[q]
      BY <1>2, GotoPc, SMT DEF TypeOK, Locked
    <2>5. SectionAligned(p)'
      BY <2>4, SMT DEF SectionAligned, Own
    <2>6. PrepAligned(p)'
      BY <2>4, Unlocked
    <2> QED BY <1>0, <1>2, <1>a, <2>3, <2>4, <2>5, <2>6, RecAligned, StayAligned, SMT
  <1> QED BY <1>1, <1>2, Zenon DEF resolveForwardCommit, commitClaudeSwitch

\* Every step that does not misadopt keeps the alignment.
LEMMA AlignedStep == ASSUME TypeOK, TypeOK', Files, Ages, Aligned, Next, ~misadopted' PROVE Aligned'
  <1>1. ASSUME NEW p \in Procs, Step(p) PROVE Aligned'
    <2>1. CASE acquire(p)
      BY <2>1, QuitAligned
    <2>2. CASE p \in Switchers /\ SwitchStep(p)
      <3>1. CASE start(p) \/ prepareClaudeSwitch(p) \/ postRefresh(p) \/ alreadyFresh(p) \/ persistRefresh(p) \/ refuse(p)
        BY <2>2, <3>1, StartAligned, PrepareAligned, PostAligned, FreshAligned, PersistAligned, QuitAligned
      <3>2. CASE step4(p) \/ step5(p) \/ step6(p) \/ writeStagedRollback(p) \/ stageFailed(p)
        BY <2>2, <3>2, Step4Aligned, Step5Aligned, Step6Aligned, StagedAligned, StageFailedAligned
      <3>3. CASE intent7(p) \/ write7(p) \/ mark7(p) \/ intent8(p) \/ write8(p) \/ commit9(p)
        BY <3>3, Intent7Aligned, Write7Aligned, Mark7Aligned, Intent8Aligned, Write8Aligned, Commit9Aligned
      <3>4. CASE rollbackSource(p) \/ rollbackConfig(p) \/ rollbackLive(p)
        BY <3>4, RollbackSourceAligned, RollbackConfigAligned, RollbackLiveAligned
      <3> QED BY <2>2, <3>1, <3>2, <3>3, <3>4, Zenon DEF SwitchStep
    <2>3. CASE p \notin Switchers /\ RecoveryStep(p)
      <3>1. CASE beginRecovery(p) \/ giveUpRecovery(p) \/ recheck(p)
        BY <3>1, QuitAligned, RecheckAligned
      <3>2. CASE restoreLiveFromStaged(p) \/ reconcileConfig(p) \/ resolveBackConfig(p) \/ resolveBackLive(p)
        BY <3>2, RecLiveAligned, RecConfigAligned, BackConfigAligned, BackLiveAligned
      <3>3. CASE resolveForwardConfig(p) \/ resolveForwardWrite(p) \/ resolveForwardCommit(p)
        BY <3>3, FwdConfigAligned, FwdWriteAligned, FwdCommitAligned
      <3> QED BY <2>3, <3>1, <3>2, <3>3, Zenon DEF RecoveryStep
    <2>4. CASE markCommitted(p) \/ markClosed(p) \/ deleteStagedRollback(p) \/ deleteClaudeSwitchJournal(p)
      BY <2>4, MarkCommittedAligned, MarkClosedAligned, UnstageAligned, RemoveAligned
    <2> QED BY <1>1, <2>1, <2>2, <2>3, <2>4, Zenon DEF Step
  <1>2. ASSUME NEW p \in Procs, crash(p) PROVE Aligned'
    BY <1>2, CrashAligned
  <1>3. CASE lockStale \/ ccRefresh \/ ccSettings
    BY <1>3, StillAligned, ClaudeCodeAligned
  <1>4. ASSUME NEW a \in LoginAccounts, ccLogin(a) PROVE Aligned'
    BY <1>4, ClaudeCodeAligned
  <1> QED BY <1>1, <1>2, <1>3, <1>4, Zenon DEF Next

\* The alignment holds initially.
LEMMA AlignedInit == ASSUME Init PROVE Aligned
  <1>1. \A a \in People : First(a) \in Creds /\ First(a).acct = a
    BY SMT DEF First, Creds
  <1>2. /\ live = First(active) /\ active \in People /\ journal = None /\ config.oauth = active
        /\ \A a \in Accounts : slot[a] = First(a) /\ prev[a] = Wiped /\ a \in People
    BY SMT DEF Init, People
  <1>3. SlotOwn
    <2>1. Wiped.acct = None
      BY SMT DEF Wiped
    <2> QED BY <1>1, <1>2, <2>1, SMT DEF SlotOwn
  <1>4. FileAligned
    BY <1>1, <1>2, SMT DEF FileAligned, Pending, Unfinished
  <1>5. ASSUME NEW p \in Procs PROVE PrepAligned(p) /\ SectionAligned(p)
    <2>1. loc[p] = NoLocals /\ pc[p] \in {"start", "idle"}
      BY SMT DEF Init
    <2>2. PrepAligned(p)
      BY <2>1, EmptyLoc, SMT DEF PrepAligned, Prepped, Before
    <2> QED BY <2>1, <2>2, SMT DEF SectionAligned, Own
  <1> QED BY <1>3, <1>4, <1>5 DEF Aligned

\* Only step 5 misadopts, and nothing forgets it.
LEMMA MisadoptedStays == ASSUME Next, misadopted PROVE misadopted'
  <1>1. ASSUME NEW p \in Procs, Step(p) PROVE misadopted'
    <2>1. CASE acquire(p)
      BY <2>1, Zenon DEF acquire
    <2>2. CASE SwitchStep(p)
      <3>1. CASE start(p) \/ prepareClaudeSwitch(p) \/ postRefresh(p) \/ alreadyFresh(p) \/ persistRefresh(p) \/ refuse(p)
        BY <3>1, Zenon DEF start, prepareClaudeSwitch, postRefresh, alreadyFresh, persistRefresh, refuse
      <3>2. CASE step4(p) \/ step6(p) \/ writeStagedRollback(p) \/ stageFailed(p)
        BY <3>2, Zenon DEF step4, step6, writeStagedRollback, stageFailed
      <3>3. CASE step5(p)
        BY <3>3, Zenon DEF step5
      <3>4. CASE intent7(p) \/ write7(p) \/ mark7(p) \/ intent8(p) \/ write8(p) \/ commit9(p)
        BY <3>4, Zenon DEF intent7, write7, mark7, intent8, write8, commit9
      <3>5. CASE rollbackSource(p) \/ rollbackConfig(p) \/ rollbackLive(p)
        BY <3>5, Zenon DEF rollbackSource, rollbackConfig, rollbackLive
      <3> QED BY <2>2, <3>1, <3>2, <3>3, <3>4, <3>5, Zenon DEF SwitchStep
    <2>3. CASE RecoveryStep(p)
      <3>1. CASE beginRecovery(p) \/ giveUpRecovery(p) \/ recheck(p)
        BY <3>1, Zenon DEF beginRecovery, giveUpRecovery, recheck
      <3>2. CASE restoreLiveFromStaged(p) \/ reconcileConfig(p) \/ resolveBackConfig(p) \/ resolveBackLive(p)
        BY <3>2, Zenon DEF restoreLiveFromStaged, reconcileConfig, resolveBackConfig, resolveBackLive
      <3>3. CASE resolveForwardConfig(p) \/ resolveForwardWrite(p) \/ resolveForwardCommit(p)
        BY <3>3, Zenon DEF resolveForwardConfig, resolveForwardWrite, resolveForwardCommit
      <3> QED BY <2>3, <3>1, <3>2, <3>3, Zenon DEF RecoveryStep
    <2>4. CASE markCommitted(p) \/ markClosed(p) \/ deleteStagedRollback(p) \/ deleteClaudeSwitchJournal(p)
      BY <2>4, Zenon DEF markCommitted, markClosed, deleteStagedRollback, deleteClaudeSwitchJournal
    <2> QED BY <1>1, <2>1, <2>2, <2>3, <2>4, Zenon DEF Step
  <1>2. ASSUME NEW p \in Procs, crash(p) PROVE misadopted'
    BY <1>2, Zenon DEF crash
  <1>3. CASE lockStale \/ ccRefresh \/ ccSettings
    BY <1>3, Zenon DEF lockStale, ccRefresh, ccSettings
  <1>4. ASSUME NEW a \in LoginAccounts, ccLogin(a) PROVE misadopted'
    BY <1>4, Zenon DEF ccLogin
  <1> QED BY <1>1, <1>2, <1>3, <1>4, Zenon DEF Next

\* A stuttering step keeps the age part.
LEMMA AgesQuiet == ASSUME Ages, UNCHANGED vars PROVE Ages'
  BY SMT DEF Ages

\* A stuttering step keeps the alignment.
LEMMA AlignedQuiet == ASSUME Aligned, UNCHANGED vars PROVE Aligned'
  <1>1. Pending' = Pending /\ StagedCopy' = StagedCopy /\ LiveMoved' = LiveMoved
    BY SMT DEF Pending, StagedCopy, Unfinished, finished, LiveMoved
  <1>2. FileAligned' /\ SlotOwn'
    BY <1>1, SMT DEF Aligned, FileAligned, SlotOwn, Untouched, LoggedIn
  <1>3. ASSUME NEW q \in Procs PROVE PrepAligned(q)' /\ SectionAligned(q)'
    BY <1>1, SMT DEF Aligned, PrepAligned, SectionAligned, Undoable
  <1> QED BY <1>2, <1>3 DEF Aligned

\* Whenever no switch is pending, the live credential and the config name one account,
\* after any crash, rollback, recovery, refresh or login (unless an unresolved credential was
\* adopted into another account's slot).
THEOREM AtRestAlignedHolds == Spec => []AtRestAligned
  <1> DEFINE Inv == TypeOK /\ Files /\ Ages /\ (~misadopted => Aligned)
  <1>1. Init => Inv
    BY FilesInit, AgesInit, AlignedInit
  <1>2. Inv /\ [Next]_vars => Inv'
    <2>1. ASSUME Inv, Next PROVE Inv'
      BY <2>1, FilesStep, AgesStep, AlignedStep, MisadoptedStays
    <2>2. ASSUME Inv, UNCHANGED vars PROVE Inv'
      BY <2>2, Quiet, AgesQuiet, AlignedQuiet, SMT DEF TypeOK
    <2> QED BY <2>1, <2>2
  <1>3. Inv => AtRestAligned
    BY SMT DEF AtRestAligned, Aligned, FileAligned, Pending
  <1> QED BY <1>1, <1>2, <1>3, PTL DEF Spec

-----------------------------------------------------------------------------
\* The storage part: no action loses the newest credential of an account.

\* Where a newest credential is safe without a slot.
Safe == gone \cup stash \cup Flying

\* A slot's credential is held.
LEMMA SlotHeld == ASSUME SlotOwn, NEW a \in Accounts PROVE HeldIfNewest(slot[a])
  BY SMT DEF SlotOwn, HeldIfNewest, Held

\* What is held stays held when no copy goes away.
LEMMA HeldGrows ==
    ASSUME newest' = newest, UNCHANGED <<slot, prev>>, Safe \subseteq Safe'
    PROVE  /\ \A a : Held(a) => Held(a)'
           /\ \A c : HeldIfNewest(c) => HeldIfNewest(c)'
           /\ \A a : Rewound(a)' => Rewound(a)
  <1>1. \A a : Held(a) => Held(a)'
    BY SMT DEF Held, Safe
  <1>2. \A c : HeldIfNewest(c) => HeldIfNewest(c)'
    BY <1>1, SMT DEF HeldIfNewest
  <1>3. \A a : Rewound(a)' => Rewound(a)
    BY SMT DEF Rewound, Safe
  <1> QED BY <1>1, <1>2, <1>3

\* A step that moves no slot and loses no copy.
LEMMA KeptFrame ==
    ASSUME SlotOwn, Kept, newest' = newest, UNCHANGED <<slot, prev>>, Safe \subseteq Safe',
           \A a \in People : newest[a].acct = a,
           \A q \in Procs : pc'[q] = "persist" => pc[q] = "persist" /\ loc'[q] = loc[q],
           \A c \in Circ' : c \in Circ \/ \E a \in Accounts : c = slot[a],
           live' = live \/ HeldIfNewest(live),
           Pending' => HeldIfNewest(journal'.credsHash),
           \A q \in Procs : pc'[q] # "step5" => HeldIfNewest(loc'[q].out) \/ loc'[q].out \in Safe',
           \A q \in Procs : \A a \in Accounts : HeldIfNewest(loc'[q].prep.slots[a])
    PROVE  Kept'
  <1>1. /\ \A a : Held(a) => Held(a)'
        /\ \A c : HeldIfNewest(c) => HeldIfNewest(c)'
        /\ \A a : Rewound(a)' => Rewound(a)
    BY HeldGrows
  <1>2. NewestKept'
    <2>1. ASSUME NEW a \in People PROVE Held(a)' \/ live' = newest'[a]
      <3>1. CASE Held(a)
        BY <1>1, <3>1
      <3>2. CASE live = newest[a] /\ ~Held(a)
        <4>1. live \in Creds /\ live.acct = a
          BY <3>2, SMT DEF SlotOwn
        <4>2. ~HeldIfNewest(live)
          BY <3>2, <4>1, SMT DEF HeldIfNewest
        <4> QED BY <3>2, <4>2
      <3> QED BY <3>1, <3>2 DEF Kept, NewestKept
    <2>2. Pending' => HeldIfNewest(journal.credsHash)'
      <3>1. ASSUME NEW h, HeldIfNewest(h) PROVE HeldIfNewest(h)'
        BY <1>1, <3>1
      <3>2. ASSUME Pending', NEW h, h = journal'.credsHash PROVE HeldIfNewest(journal.credsHash)'
        <4>1. HeldIfNewest(h)'
          BY <3>1, <3>2
        <4> QED BY <3>2, <4>1, SMT DEF HeldIfNewest
      <3> QED BY <3>2
    <2>3. ASSUME NEW q \in Procs, pc'[q] # "step5" PROVE HeldIfNewest(loc[q].out)'
      <3>1. PICK h : h = loc'[q].out
        OBVIOUS
      <3>2. HeldIfNewest(h)'
        <4>1. h \in Safe' => HeldIfNewest(h)'
          BY SMT DEF HeldIfNewest, Held, Safe
        <4> QED BY <1>1, <2>3, <3>1, <4>1
      <3> QED BY <3>1, <3>2, SMT DEF HeldIfNewest
    <2>4. ASSUME NEW q \in Procs, NEW a \in Accounts PROVE HeldIfNewest(loc[q].prep.slots[a])'
      <3>1. PICK h : h = loc'[q].prep.slots[a]
        OBVIOUS
      <3>2. HeldIfNewest(h)'
        BY <1>1, <3>1
      <3> QED BY <3>1, <3>2, SMT DEF HeldIfNewest
    <2> QED BY <2>1, <2>2, <2>3, <2>4, Zenon DEF NewestKept
  <1>3. \A a \in Accounts : slot[a].acct = a
    BY DEF SlotOwn
  <1>4. \A q \in Procs : \A a : InFlight(q, a)' => InFlight(q, a) /\ Spent(q)' = Spent(q)
    BY SMT DEF InFlight, Spent
  <1>5. RewoundOK'
    <2>1. ASSUME NEW a \in Accounts, Rewound(a)'
          PROVE  /\ \A c \in Circ' : c.acct = a => c \in {slot'[a], newest'[a]}
                 /\ \A q \in Procs : InFlight(q, a)' => Spent(q)'.fam # slot'[a].fam
      <3>1. /\ \A c \in Circ : c.acct = a => c \in {slot[a], newest[a]}
            /\ \A q \in Procs : InFlight(q, a) => Spent(q).fam # slot[a].fam
        BY <1>1, <2>1 DEF Kept, RewoundOK
      <3> QED BY <1>3, <1>4, <3>1, SMT
    <2> QED BY <2>1, Zenon DEF RewoundOK
  <1>6. FlightOK'
    <2>1. ASSUME NEW q \in Procs, pc'[q] = "persist" PROVE Flight(q)'
      <3> DEFINE a == loc[q].to
                 t == loc[q].tgt
                 f == Spent(q).fam
      <3>1. loc'[q] = loc[q] /\ Spent(q)' = Spent(q) /\ pc[q] = "persist"
        BY <2>1, SMT DEF Spent
      <3>2. Flight(q)
        BY <3>1 DEF Kept, FlightOK
      <3>3. /\ slot[a].fam # t.fam
            /\ \A c \in Circ : c.acct = a => c.fam # t.fam
            /\ slot[a].fam = f \/ \A c \in Circ : c.acct = a => c.fam # f
            /\ \A r \in Procs : r # q /\ InFlight(r, a) => Spent(r).fam # f /\ Spent(r).fam # t.fam
        BY <3>2, Zenon DEF Flight
      <3>4. /\ \A c \in Circ' : c.acct = a => c.fam # t.fam
            /\ slot[a].fam = f \/ \A c \in Circ' : c.acct = a => c.fam # f
        <4> HIDE DEF a, t, f
        <4> QED BY <1>3, <3>3, SMT
      <3>5. \A r \in Procs : r # q /\ InFlight(r, a)' => Spent(r)'.fam # f /\ Spent(r)'.fam # t.fam
        <4>1. ASSUME NEW r \in Procs, r # q, InFlight(r, a)' PROVE Spent(r)'.fam # f /\ Spent(r)'.fam # t.fam
          <5>0. \A b : InFlight(r, b)' => InFlight(r, b) /\ Spent(r)' = Spent(r)
            BY <1>4
          <5>1. InFlight(r, loc[q].to)'
            BY <3>1, <4>1, SMT DEF InFlight
          <5>2. InFlight(r, a) /\ Spent(r)' = Spent(r)
            BY <3>1, <4>1, <5>0, SMT DEF InFlight
          <5> QED BY <3>3, <4>1, <5>2
        <4> QED BY <4>1
      <3>6. /\ f < newest[a].fam
            /\ t.fam = f + 1
            /\ newest[a].fam = t.fam => newest[a] = t
        BY <3>2, Zenon DEF Flight
      <3> QED BY <3>1, <3>3, <3>4, <3>5, <3>6, Zenon DEF Flight
    <2> QED BY <2>1, Zenon DEF FlightOK
  <1> QED BY <1>2, <1>5, <1>6 DEF Kept

\* A wiped or absent credential asks for nothing.
LEMMA NothingHeld == HeldIfNewest(Wiped) /\ HeldIfNewest(None)
  BY NotCreds, Zenon DEF HeldIfNewest

\* What a step leaves in the locals is accounted for.
KeptLocal(p) ==
    /\ pc'[p] # "step5" => HeldIfNewest(loc'[p].out)
    /\ \A a \in Accounts : HeldIfNewest(loc'[p].prep.slots[a])

\* Locals that are kept or emptied are accounted for.
LEMMA KeptCopies ==
    ASSUME Kept, NEW p \in Procs,
           SameCopies(NoLocals, loc'[p]) \/ (SameCopies(loc[p], loc'[p]) /\ (pc[p] # "step5" \/ pc'[p] = "step5"))
    PROVE  KeptLocal(p)
  <1>1. CASE SameCopies(NoLocals, loc'[p])
    <2>1. loc'[p].out = Wiped /\ \A a \in Accounts : loc'[p].prep.slots[a] = Wiped
      BY <1>1, EmptyLoc, SMT DEF SameCopies
    <2> QED BY <2>1, NothingHeld DEF KeptLocal
  <1>2. CASE SameCopies(loc[p], loc'[p]) /\ (pc[p] # "step5" \/ pc'[p] = "step5")
    <2>1. loc'[p].out = loc[p].out /\ loc'[p].prep = loc[p].prep
      BY <1>2 DEF SameCopies
    <2>2. /\ pc[p] # "step5" => HeldIfNewest(loc[p].out)
          /\ \A a \in Accounts : HeldIfNewest(loc[p].prep.slots[a])
      BY DEF Kept, NewestKept
    <2> QED BY <1>2, <2>1, <2>2, Zenon DEF KeptLocal
  <1> QED BY <1>1, <1>2

\* A step of one process that moves no slot and loses no copy.
LEMMA KeptStep ==
    ASSUME Ages, Aligned, Kept, NEW p \in Procs, newest' = newest, UNCHANGED <<slot, prev>>, Safe \subseteq Safe',
           \A q \in Procs : q # p => pc'[q] = pc[q] /\ loc'[q] = loc[q],
           pc'[p] # "persist",
           \A c \in Circ' : c \in Circ \/ \E a \in Accounts : c = slot[a],
           live' = live \/ HeldIfNewest(live),
           Pending' => HeldIfNewest(journal'.credsHash),
           KeptLocal(p)
    PROVE  Kept'
  <1>1. \A q \in Procs : pc'[q] # "step5" => HeldIfNewest(loc'[q].out)
    BY DEF Kept, NewestKept, KeptLocal
  <1>2. \A q \in Procs : \A a \in Accounts : HeldIfNewest(loc'[q].prep.slots[a])
    BY DEF Kept, NewestKept, KeptLocal
  <1>3. SlotOwn /\ \A a \in People : newest[a].acct = a
    BY DEF Aligned, Ages
  <1> QED BY <1>1, <1>2, <1>3, KeptFrame

\* A step of a process with nothing in flight keeps what is safe.
LEMMA SafeStays ==
    ASSUME NEW p \in Procs, pc[p] # "persist", stash \subseteq stash', gone \subseteq gone',
           \A q \in Procs : q # p => pc'[q] = pc[q] /\ loc'[q] = loc[q]
    PROVE  Safe \subseteq Safe'
  BY SMT DEF Safe, Flying

\* A flight that ends in the stash or is discarded keeps what is safe.
LEMMA SafeGone ==
    ASSUME NEW p \in Procs, stash \subseteq stash', gone \subseteq gone',
           pc[p] = "persist" => loc[p].tgt \in stash' \cup gone',
           \A q \in Procs : q # p => pc'[q] = pc[q] /\ loc'[q] = loc[q]
    PROVE  Safe \subseteq Safe'
  BY SMT DEF Safe, Flying

\* The stores that circulate are left alone.
LEMMA KeptStill ==
    ASSUME Ages, Aligned, Kept, NEW p \in Procs, newest' = newest, UNCHANGED <<slot, prev, live, journal, staged, committed>>,
           Safe \subseteq Safe',
           \A q \in Procs : q # p => pc'[q] = pc[q] /\ loc'[q] = loc[q],
           pc'[p] # "persist", KeptLocal(p)
    PROVE  Kept'
  <1>1. Pending' = Pending /\ StagedCopy' = StagedCopy
    BY SMT DEF Pending, StagedCopy, Unfinished, finished
  <1>2. Circ' = Circ
    BY <1>1, SMT DEF Circ
  <1>3. Pending' => HeldIfNewest(journal'.credsHash)
    <2>1. Pending => HeldIfNewest(journal.credsHash)
      BY DEF Kept, NewestKept
    <2> QED BY <1>1, <2>1
  <1> QED BY <1>2, <1>3, KeptStep

\* Finish leaves no copies.
LEMMA FinishCopies ==
    ASSUME TypeOK, NEW p \in Procs, Finish(p)
    PROVE  /\ SameCopies(NoLocals, loc'[p]) /\ pc'[p] \notin {"persist", "step5"}
           /\ \A q \in Procs : q # p => pc'[q] = pc[q] /\ loc'[q] = loc[q]
  BY FinishTyped, SMT DEF SameCopies

\* A return that moves no copy loses no newest credential.
LEMMA KeptFinish ==
    ASSUME TypeOK, Ages, Aligned, Kept, NEW p \in Procs, pc[p] # "persist", Finish(p),
           UNCHANGED <<newest, slot, prev, live, journal, staged, committed, gone, stash>>
    PROVE  Kept'
  <1>1. /\ SameCopies(NoLocals, loc'[p]) /\ pc'[p] \notin {"persist", "step5"}
        /\ \A q \in Procs : q # p => pc'[q] = pc[q] /\ loc'[q] = loc[q]
    BY FinishCopies
  <1>2. KeptLocal(p)
    BY <1>1, KeptCopies
  <1>3. Safe \subseteq Safe'
    BY <1>1, SafeStays, SMT
  <1> QED BY <1>1, <1>2, <1>3, KeptStill, SMT

\* A switch's and a recovery's steps before the lock lose no newest credential.
LEMMA OutsideKept ==
    ASSUME TypeOK, Files, Ages, Aligned, Kept, NEW p \in Procs,
           \/ p \in Switchers /\ (start(p) \/ prepareClaudeSwitch(p) \/ alreadyFresh(p))
           \/ refuse(p) \/ giveUpRecovery(p) \/ beginRecovery(p) \/ acquire(p)
    PROVE  Kept'
  <1>0. UNCHANGED <<newest, slot, prev, live, journal, staged, committed, gone, stash>> /\ pc[p] # "persist"
    <2>0. pc[p] \in {"start", "prepare", "freshen", "lock", "idle"}
      BY Zenon DEF start, prepareClaudeSwitch, alreadyFresh, refuse, giveUpRecovery, beginRecovery, acquire
    <2>1. pc[p] # "persist"
      BY <2>0, SMT
    <2> QED BY <2>1, Zenon DEF start, prepareClaudeSwitch, alreadyFresh, refuse, giveUpRecovery, beginRecovery, acquire
  <1>a. \A a \in Accounts : HeldIfNewest(slot[a])
    BY SlotHeld DEF Aligned
  <1>b. \A a \in Accounts : HeldIfNewest(loc[p].prep.slots[a])
    BY DEF Kept, NewestKept
  <1>c. pc[p] # "step5" => HeldIfNewest(loc[p].out)
    BY DEF Kept, NewestKept
  <1>1. CASE start(p)
    <2>1. /\ SameCopies(loc[p], loc'[p]) /\ pc'[p] = "prepare" /\ pc[p] = "start"
          /\ \A q \in Procs : q # p => loc'[q] = loc[q] /\ pc'[q] = pc[q]
      BY <1>1, StartLoc, Zenon DEF start
    <2>2. KeptLocal(p)
      BY <2>1, KeptCopies, SMT
    <2> QED BY <1>0, <2>1, <2>2, SafeStays, KeptStill, SMT
  <1>2. CASE prepareClaudeSwitch(p)
    <2>1. /\ loc'[p].out = loc[p].out /\ loc'[p].prep.slots = slot /\ pc'[p] \in {"lock", "freshen"} /\ pc[p] = "prepare"
          /\ \A q \in Procs : q # p => loc'[q] = loc[q] /\ pc'[q] = pc[q]
      <3>1. pc[p] = "prepare"
        BY <1>2, Zenon DEF prepareClaudeSwitch
      <3> QED BY <1>2, <3>1, PrepareLoc, SMT
    <2>2. KeptLocal(p)
      BY <1>a, <1>c, <2>1, SMT DEF KeptLocal
    <2> QED BY <1>0, <2>1, <2>2, SafeStays, KeptStill, SMT
  <1>3. CASE alreadyFresh(p)
    <2>0. SlotsSeen(loc[p], loc'[p], loc[p].to, slot[loc[p].to])
      BY <1>3, FreshLoc
    <2>1. /\ pc'[p] = "lock" /\ pc[p] = "freshen" /\ loc'[p].out = loc[p].out
          /\ \A q \in Procs : q # p => loc'[q] = loc[q] /\ pc'[q] = pc[q]
      BY <1>3, <2>0, FreshLoc, SMT DEF alreadyFresh, SlotsSeen
    <2>2. \A a \in Accounts : loc'[p].prep.slots[a] \in {slot[a], loc[p].prep.slots[a]}
      BY <2>0, SMT DEF SlotsSeen
    <2>3. KeptLocal(p)
      BY <1>a, <1>b, <1>c, <2>1, <2>2, SMT DEF KeptLocal
    <2> QED BY <1>0, <2>1, <2>3, SafeStays, KeptStill, SMT
  <1>4. CASE refuse(p) \/ giveUpRecovery(p)
    BY <1>0, <1>4, KeptFinish, Zenon DEF refuse, giveUpRecovery
  <1>5. CASE beginRecovery(p)
    <2>1. PICK f \in BOOLEAN : Goto(p, "lock") /\ Set(p, [NoLocals EXCEPT !.forward = f])
      BY <1>5, Zenon DEF beginRecovery
    <2>2. SameCopies(NoLocals, loc'[p]) /\ pc'[p] = "lock" /\ \A q \in Procs : q # p => loc'[q] = loc[q] /\ pc'[q] = pc[q]
      BY <2>1, BeginLoc
    <2>3. KeptLocal(p)
      BY <2>2, KeptCopies
    <2> QED BY <1>0, <2>2, <2>3, SafeStays, KeptStill, SMT
  <1>6. CASE acquire(p)
    <2>1. /\ pc'[p] \in {"step4", "recheck"} /\ UNCHANGED loc /\ pc[p] = "lock"
          /\ \A q \in Procs : q # p => pc'[q] = pc[q]
      BY <1>6, GotoPc, SMT DEF acquire, TypeOK, Locked
    <2>2. KeptLocal(p)
      BY <2>1, KeptCopies, SMT DEF SameCopies
    <2> QED BY <1>0, <2>1, <2>2, SafeStays, KeptStill, SMT
  <1> QED BY <1>1, <1>2, <1>3, <1>4, <1>5, <1>6

\* A crash loses no newest credential.
LEMMA CrashKept == ASSUME TypeOK, Ages, Aligned, Kept, NEW p \in Procs, crash(p) PROVE Kept'
  <1>1. UNCHANGED <<disk, newest, issued, settings, misadopted>> /\ Set(p, NoLocals)
        /\ gone' = IF pc[p] = "persist" THEN gone \cup {loc[p].tgt} ELSE gone
    BY Zenon DEF crash
  <1>2. PICK label \in {"idle", "crashed"} : Goto(p, label)
    BY Zenon DEF crash
  <1>3. pc'[p] = label /\ loc'[p] = NoLocals /\ \A q \in Procs : q # p => loc'[q] = loc[q] /\ pc'[q] = pc[q]
    BY <1>1, <1>2, OthersStay, SMT
  <1>4. KeptLocal(p)
    BY <1>3, KeptCopies, SMT DEF SameCopies
  <1>5. Safe \subseteq Safe'
    BY <1>1, <1>3, SafeGone, SMT
  <1> QED BY <1>1, <1>3, <1>4, <1>5, KeptStill, SMT

\* The lock holder goes on with the copies it has.
Walked(p) ==
    /\ SameCopies(loc[p], loc'[p]) /\ pc'[p] # "persist"
    /\ \A q \in Procs : q # p => pc'[q] = pc[q] /\ loc'[q] = loc[q]

\* A step that only moves the label goes on with the copies it has.
LEMMA GoWalked ==
    ASSUME TypeOK, NEW p \in Procs, UNCHANGED loc, NEW label \in Locked, Goto(p, label)
    PROVE  Walked(p)
  <1>1. pc'[p] = label /\ \A q \in Procs : q # p => pc'[q] = pc[q]
    BY GotoPc, SMT DEF TypeOK
  <1> QED BY <1>1, SMT DEF Walked, SameCopies, Locked

\* A step of the lock holder that at most moves a circulating copy to live.
LEMMA CalmKept ==
    ASSUME TypeOK, Ages, Aligned, Kept, NEW p \in Procs, pc[p] \in Locked, pc[p] # "step5",
           UNCHANGED <<newest, slot, prev, stash, gone>>, Finish(p) \/ Walked(p),
           Pending' => Pending /\ StagedCopy' = StagedCopy /\ journal'.credsHash = journal.credsHash,
           live' = live \/ (live' \in Circ /\ HeldIfNewest(live))
    PROVE  Kept'
  <1>0. pc[p] # "persist"
    BY SMT DEF Locked
  <1>1. /\ SameCopies(NoLocals, loc'[p]) \/ SameCopies(loc[p], loc'[p])
        /\ pc'[p] # "persist"
        /\ \A q \in Procs : q # p => pc'[q] = pc[q] /\ loc'[q] = loc[q]
    BY FinishCopies, SMT DEF Walked
  <1>2. KeptLocal(p)
    BY <1>1, KeptCopies
  <1>3. Safe \subseteq Safe'
    BY <1>0, <1>1, SafeStays, SMT
  <1>4. Circ' \subseteq Circ
    BY SMT DEF Circ
  <1>5. Pending' => HeldIfNewest(journal'.credsHash)
    <2>1. Pending => HeldIfNewest(journal.credsHash)
      BY DEF Kept, NewestKept
    <2> QED BY <2>1
  <1>6. live' = live \/ HeldIfNewest(live)
    OBVIOUS
  <1> QED BY <1>1, <1>2, <1>3, <1>4, <1>5, <1>6, KeptStep, SMT

\* Pending and the staged copy are read off the files.
LEMMA PendingStill ==
    ASSUME UNCHANGED <<journal, staged, committed>>
    PROVE  Pending' = Pending /\ StagedCopy' = StagedCopy /\ journal'.credsHash = journal.credsHash
  BY SMT DEF Pending, StagedCopy, Unfinished, finished

\* The staged rollback copy loses no newest credential.
LEMMA StagedKept == ASSUME TypeOK, Files, Ages, Aligned, Kept, NEW p \in Procs, writeStagedRollback(p) PROVE Kept'
  <1>0. /\ UNCHANGED <<live, config, active, slot, prev, stash, journal, committed, locks, loc, env>> /\ pc[p] = "stage"
    BY Zenon DEF writeStagedRollback
  <1>1. PICK label \in {"intent7", "stagefail"} : Goto(p, label)
    BY Zenon DEF writeStagedRollback, Effect
  <1>2. Walked(p)
    BY <1>0, <1>1, GoWalked, SMT DEF Locked
  <1>3. ~Pending'
    BY <1>0, SMT DEF Pending, Files, SectionFile
  <1> QED BY <1>0, <1>2, <1>3, CalmKept, SMT DEF Locked

\* Ending a journal loses no newest credential.
LEMMA EndedKept ==
    ASSUME TypeOK, Files, Ages, Aligned, Kept, NEW p \in Procs, stageFailed(p) \/ markCommitted(p) \/ markClosed(p)
    PROVE  Kept'
  <1>0. /\ UNCHANGED <<live, config, active, slot, prev, stash, staged, committed, configLock, env>>
        /\ pc[p] \in {"stagefail", "committed", "close"}
        /\ Finish(p) \/ (UNCHANGED loc /\ Goto(p, "unstage"))
    BY Zenon DEF stageFailed, markCommitted, markClosed, LastEffect
  <1>1. Finish(p) \/ Walked(p)
    BY <1>0, GoWalked, SMT DEF Locked
  <1>2. \/ journal' = journal \/ journal' = [journal EXCEPT !.committed = TRUE]
        \/ \E c \in {"rolled-back", "stage-failed"} : journal' = [journal EXCEPT !.closed = c]
    BY Zenon DEF stageFailed, markCommitted, markClosed, LastEffect
  <1>a. journal \in Journals /\ journal # None
    BY <1>0, InSection, SMT DEF Own, Closing
  <1>3. Pending' => journal' = journal
    <2>1. ASSUME journal' = [journal EXCEPT !.committed = TRUE] PROVE ~Pending'
      BY <1>a, <2>1, JournalCommitted, SMT DEF finished, Pending, Unfinished
    <2>2. ASSUME NEW c \in {"rolled-back", "stage-failed"}, journal' = [journal EXCEPT !.closed = c] PROVE ~Pending'
      BY <1>a, <2>2, JournalClosed, SMT DEF finished, Pending, Unfinished
    <2> QED BY <1>2, <2>1, <2>2
  <1>4. Pending' => Pending /\ StagedCopy' = StagedCopy /\ journal'.credsHash = journal.credsHash
    BY <1>0, <1>3, PendingStill
  <1> QED BY <1>0, <1>1, <1>4, CalmKept, SMT DEF Locked

\* Tidying a finished journal away loses no newest credential.
LEMMA TidyKept ==
    ASSUME TypeOK, Files, Ages, Aligned, Kept, NEW p \in Procs, deleteStagedRollback(p) \/ deleteClaudeSwitchJournal(p)
    PROVE  Kept'
  <1>0. /\ UNCHANGED <<live, config, active, slot, prev, stash, committed, configLock, env>>
        /\ pc[p] \in {"unstage", "unstage4", "remove", "remove4"}
        /\ Finish(p) \/ (UNCHANGED loc /\ \E label \in {"remove", "remove4", "step4"} : Goto(p, label))
        /\ journal' = None \/ journal' = journal
    BY Zenon DEF deleteStagedRollback, deleteClaudeSwitchJournal, LastEffect
  <1>1. Finish(p) \/ Walked(p)
    BY <1>0, GoWalked, SMT DEF Locked
  <1>2. finished(journal)
    BY <1>0, OverAligned, SMT
  <1>3. ~Pending'
    BY <1>0, <1>2, SMT DEF Pending, Unfinished, finished
  <1> QED BY <1>0, <1>1, <1>3, CalmKept, SMT DEF Locked

\* Step 7's mark after the write loses no newest credential.
LEMMA Mark7Kept == ASSUME TypeOK, Files, Ages, Aligned, Kept, NEW p \in Procs, mark7(p) PROVE Kept'
  <1>0. /\ UNCHANGED <<live, config, active, slot, prev, stash, staged, committed, locks, loc, env>> /\ pc[p] = "mark7"
    BY Zenon DEF mark7
  <1>1. PICK label \in {"rollback", "intent8"} : Goto(p, label)
    BY Zenon DEF mark7, Effect
  <1>2. Walked(p)
    BY <1>0, <1>1, GoWalked, SMT DEF Locked
  <1>b. /\ journal'.attempt = journal.attempt /\ journal' # None /\ journal # None
        /\ journal'.credsHash = journal.credsHash /\ journal'.undo = journal.undo
        /\ journal'.committed = journal.committed /\ journal'.closed = journal.closed
    BY <1>0, Mark7File, InSection, Zenon DEF KeptFile, SameFile, Own
  <1>3. Pending' => Pending /\ StagedCopy' = StagedCopy /\ journal'.credsHash = journal.credsHash
    BY <1>0, <1>b, SMT DEF Pending, StagedCopy, Unfinished, finished
  <1> QED BY <1>0, <1>2, <1>3, CalmKept, SMT DEF Locked

\* Step 8's intent in the journal loses no newest credential.
LEMMA Intent8Kept == ASSUME TypeOK, Files, Ages, Aligned, Kept, NEW p \in Procs, intent8(p) PROVE Kept'
  <1>0. /\ UNCHANGED <<live, config, active, slot, prev, stash, staged, committed, lock, env>> /\ pc[p] = "intent8"
        /\ Set(p, [loc[p] EXCEPT !.undo = ConfigIntent(loc[p].undo, loc[p].to)])
    BY Zenon DEF intent8
  <1>a. pc[p] \in Own /\ pc[p] \in Locked
    BY <1>0, SMT DEF Own, Locked
  <1>1. PICK label \in {"rollback", "write8"} : Goto(p, label)
    BY Zenon DEF intent8, Effect
  <1>2. /\ SameCopies(loc[p], loc'[p]) /\ pc'[p] = label
        /\ \A q \in Procs : q # p => loc'[q] = loc[q] /\ pc'[q] = pc[q]
    BY <1>0, <1>1, UndoLoc
  <1>3. Walked(p)
    BY <1>1, <1>2, SMT DEF Walked
  <1>b. /\ journal'.attempt = journal.attempt /\ journal' # None /\ journal'.credsHash = journal.credsHash
        /\ journal'.committed = journal.committed /\ journal'.closed = journal.closed
    BY Intent8File, Zenon DEF KeptFile, SameFile
  <1>4. Pending /\ journal # None
    BY <1>0, <1>a, OwnAt, SMT DEF Files, SectionFile
  <1>5. StagedCopy' = StagedCopy
    BY <1>0, <1>b, SMT DEF StagedCopy
  <1>c. UNCHANGED <<live, slot, prev, stash, newest, gone>>
    BY <1>0
  <1> QED BY <1>a, <1>b, <1>c, <1>0, <1>3, <1>4, <1>5, CalmKept, Zenon

\* resolve --forward's config intent loses no newest credential.
LEMMA FwdConfigKept == ASSUME TypeOK, Files, Ages, Aligned, Kept, NEW p \in Procs, resolveForwardConfig(p) PROVE Kept'
  <1>0. UNCHANGED <<live, config, active, slot, prev, stash, staged, committed, env>> /\ pc[p] = "fwdConfig"
    BY Zenon DEF resolveForwardConfig
  <1>a. pc[p] \in Rec /\ pc[p] \in Locked /\ pc[p] # "step5"
    BY <1>0, SMT DEF Rec, Locked
  <1>1. CASE Finish(p) /\ journal' = journal
    BY <1>0, <1>1, <1>a, PendingStill, CalmKept, SMT
  <1>2. CASE /\ ForwardAdmits /\ Forwarded
             /\ Finish(p) \/ (Goto(p, "fwdWrite") /\ UNCHANGED loc)
    <2>1. Pending
      BY <1>2, <1>a, ForwardAligned
    <2>2. journal'.attempt = journal.attempt /\ journal'.credsHash = journal.credsHash
      BY <1>2, Zenon DEF Forwarded, SameFile
    <2>3. StagedCopy' = StagedCopy
      BY <1>0, <2>2, SMT DEF StagedCopy
    <2>4. Finish(p) \/ Walked(p)
      BY <1>2, GoWalked, SMT DEF Locked
    <2> QED BY <1>0, <1>a, <2>1, <2>2, <2>3, <2>4, CalmKept, SMT
  <1> QED BY <1>1, <1>2, ForwardFile, Zenon

\* A remembered outgoing credential is held once step 5 is over.
LEMMA OutHeld == ASSUME Kept, NEW p \in Procs, pc[p] # "step5" PROVE HeldIfNewest(loc[p].out)
  BY DEF Kept, NewestKept

\* The credential a pending journal names is held.
LEMMA HashHeld == ASSUME Kept, Pending PROVE HeldIfNewest(journal.credsHash)
  BY DEF Kept, NewestKept

\* Step 7's write of the live credential loses no newest credential.
LEMMA Write7Kept == ASSUME TypeOK, Files, Ages, Aligned, Kept, NEW p \in Procs, write7(p) PROVE Kept'
  <1>0. /\ UNCHANGED <<config, active, slot, prev, stash, staged, journal, committed, locks, loc, env>> /\ pc[p] = "write7"
        /\ live' \in {live, loc[p].tgt}
    BY Zenon DEF write7, Effect
  <1>a. pc[p] \in Own /\ pc[p] \in Locked /\ pc[p] # "step5"
    BY <1>0, SMT DEF Own, Locked
  <1>1. PICK label \in {"rollback", "mark7"} : Goto(p, label)
    BY Zenon DEF write7, Effect
  <1>2. Walked(p)
    BY <1>0, <1>1, GoWalked, SMT DEF Locked
  <1>3. Pending /\ live = loc[p].out /\ journal.credsHash = loc[p].tgt
    BY <1>0, <1>a, OwnAt, SMT DEF SectionAligned, Files, SectionFile
  <1>4. HeldIfNewest(live) /\ loc[p].tgt \in Circ
    BY <1>3, <1>a, OutHeld, SMT DEF Circ
  <1> QED BY <1>0, <1>2, <1>4, <1>a, PendingStill, CalmKept, SMT

\* The config write, the commit and resolve --forward's commit lose no newest credential.
LEMMA Write8Kept ==
    ASSUME TypeOK, Files, Ages, Aligned, Kept, NEW p \in Procs, write8(p) \/ commit9(p) \/ resolveForwardCommit(p)
    PROVE  Kept'
  <1>0. /\ UNCHANGED <<live, slot, prev, stash, staged, journal, env>>
        /\ pc[p] \in {"write8", "commit9", "fwdCommit"}
        /\ committed' = committed \/ committed' = committed \cup {journal.attempt}
        /\ (UNCHANGED loc /\ \E label \in {"commit9", "rollback", "committed"} : Goto(p, label)) \/ Finish(p)
    BY Zenon DEF write8, commit9, resolveForwardCommit, commitClaudeSwitch, Effect
  <1>1. Finish(p) \/ Walked(p)
    BY <1>0, GoWalked, SMT DEF Locked
  <1>2. Pending' => Pending /\ StagedCopy' = StagedCopy /\ journal'.credsHash = journal.credsHash
    BY <1>0, SMT DEF Pending, StagedCopy, Unfinished, finished
  <1> QED BY <1>0, <1>1, <1>2, CalmKept, SMT DEF Locked

\* The config writes of a recovery lose no newest credential.
LEMMA ConfigKept ==
    ASSUME TypeOK, Files, Ages, Aligned, Kept, NEW p \in Procs,
           reconcileConfig(p) \/ resolveBackConfig(p) \/ resolveForwardWrite(p) \/ recheck(p)
    PROVE  Kept'
  <1>0. /\ UNCHANGED <<live, active, slot, prev, stash, staged, journal, committed, env>>
        /\ pc[p] \in {"recConfig", "backConfig", "fwdWrite", "recheck"}
        /\ (UNCHANGED loc /\ \E label \in {"close", "backLive", "fwdCommit", "recLive", "backConfig", "fwdConfig"} : Goto(p, label))
           \/ Finish(p)
    BY Zenon DEF reconcileConfig, resolveBackConfig, resolveForwardWrite, recheck, LastEffect
  <1>1. Finish(p) \/ Walked(p)
    BY <1>0, GoWalked, SMT DEF Locked
  <1> QED BY <1>0, <1>1, PendingStill, CalmKept, SMT DEF Locked

\* The rollback's choice and config write lose no newest credential.
LEMMA RollbackKept ==
    ASSUME TypeOK, Files, Ages, Aligned, Kept, NEW p \in Procs, rollbackSource(p) \/ rollbackConfig(p)
    PROVE  Kept'
  <1>0. /\ UNCHANGED <<live, active, slot, prev, stash, staged, journal, committed, env>>
        /\ pc[p] \in {"rollback", "rbConfig"}
    BY Zenon DEF rollbackSource, rollbackConfig
  <1>1. PICK label \in {"rbConfig", "rbLive"} : Goto(p, label)
    BY Zenon DEF rollbackSource, rollbackConfig
  <1>2. Walked(p)
    <2>1. CASE UNCHANGED loc
      BY <1>1, <2>1, GoWalked, SMT DEF Locked
    <2>2. CASE Set(p, [loc[p] EXCEPT !.undo = journal.undo])
      <3>1. /\ SameCopies(loc[p], loc'[p]) /\ pc'[p] = label
            /\ \A q \in Procs : q # p => loc'[q] = loc[q] /\ pc'[q] = pc[q]
        BY <1>1, <2>2, UndoLoc
      <3> QED BY <1>1, <3>1, SMT DEF Walked
    <2>3. CASE Set(p, [loc[p] EXCEPT !.failed = TRUE])
      <3>1. /\ SameCopies(loc[p], loc'[p]) /\ pc'[p] = label
            /\ \A q \in Procs : q # p => loc'[q] = loc[q] /\ pc'[q] = pc[q]
        BY <1>1, <2>3, FailedLoc
      <3> QED BY <1>1, <3>1, SMT DEF Walked
    <2> QED BY <2>1, <2>2, <2>3, Zenon DEF rollbackSource, rollbackConfig
  <1> QED BY <1>0, <1>2, PendingStill, CalmKept, SMT DEF Locked

\* The rollback's write of the live credential loses no newest credential.
LEMMA RollbackLiveKept == ASSUME TypeOK, Files, Ages, Aligned, Kept, NEW p \in Procs, rollbackLive(p) PROVE Kept'
  <1>0. /\ UNCHANGED <<config, active, slot, prev, stash, staged, journal, committed, configLock, env>> /\ pc[p] = "rbLive"
        /\ live' \in {live, loc[p].out}
        /\ Finish(p) \/ (Goto(p, "close") /\ UNCHANGED loc)
    BY Zenon DEF rollbackLive
  <1>a. pc[p] \in Own /\ pc[p] \in Locked
    BY <1>0, SMT DEF Own, Locked
  <1>1. /\ live = loc[p].out \/ (live = loc[p].tgt /\ Pending /\ journal.credsHash = loc[p].tgt)
        /\ StagedCopy = loc[p].out
    BY <1>0, <1>a, OwnAt, SMT DEF SectionAligned
  <1>2. Finish(p) \/ Walked(p)
    BY <1>0, GoWalked, SMT DEF Locked
  <1>3. live' = live \/ (live' \in Circ /\ HeldIfNewest(live))
    <2>1. ASSUME live' # live PROVE live' \in Circ /\ HeldIfNewest(live)
      <3>1. Pending /\ live = journal.credsHash /\ live' = StagedCopy
        BY <1>0, <1>1, <2>1
      <3> QED BY <3>1, HashHeld, SMT DEF Circ
    <2> QED BY <2>1
  <1> QED BY <1>0, <1>2, <1>3, PendingStill, CalmKept, SMT DEF Locked

\* A recovery's write of the live credential loses no newest credential.
LEMMA RecLiveKept ==
    ASSUME TypeOK, Files, Ages, Aligned, Kept, NEW p \in Procs, restoreLiveFromStaged(p) \/ resolveBackLive(p)
    PROVE  Kept'
  <1>0. /\ UNCHANGED <<config, active, slot, prev, stash, staged, journal, committed, configLock, env>>
        /\ pc[p] \in {"recLive", "backLive"}
        /\ Finish(p) \/ (UNCHANGED loc /\ \E label \in {"recConfig", "close"} : Goto(p, label))
        /\ live' = live \/ (journal.undo.credsStarted /\ ~LiveMoved /\ live' = StagedCopy)
    BY Zenon DEF restoreLiveFromStaged, resolveBackLive, LastEffect, LiveMoved
  <1>a. pc[p] \in Rec
    BY <1>0, SMT DEF Rec
  <1>1. Finish(p) \/ Walked(p)
    BY <1>0, GoWalked, SMT DEF Locked
  <1>2. live' = live \/ (live' \in Circ /\ HeldIfNewest(live))
    <2>1. ASSUME live' # live PROVE live' \in Circ /\ HeldIfNewest(live)
      <3>1. Pending /\ live' = StagedCopy /\ ~LiveMoved
        BY <1>0, <1>a, <2>1, RecAligned
      <3>2. live = journal.credsHash
        BY <2>1, <3>1 DEF LiveMoved
      <3> QED BY <3>1, <3>2, HashHeld, SMT DEF Circ
    <2> QED BY <2>1
  <1> QED BY <1>0, <1>1, <1>2, PendingStill, CalmKept, SMT DEF Locked

\* Step 7's intent in the journal loses no newest credential.
LEMMA Intent7Kept == ASSUME TypeOK, Files, Ages, Aligned, Kept, NEW p \in Procs, intent7(p) PROVE Kept'
  <1>0. /\ UNCHANGED <<live, config, active, slot, prev, stash, staged, committed, locks, env>> /\ pc[p] = "intent7"
    BY Zenon DEF intent7
  <1>a. pc[p] \in Own /\ pc[p] # "step5" /\ pc[p] # "persist"
    BY <1>0, SMT DEF Own
  <1>1. /\ SameCopies(loc[p], loc'[p])
        /\ \A q \in Procs : q # p => loc'[q] = loc[q] /\ pc'[q] = pc[q]
    BY Intent7Loc
  <1>2. journal' = journal \/ CredsStarted(journal, loc[p].tgt, journal')
    BY Intent7File
  <1>3. PICK label \in {"rollback", "write7"} : Goto(p, label)
    BY Zenon DEF intent7, Effect
  <1>4. pc'[p] = label
    BY <1>3, GotoPc, SMT DEF TypeOK, Locked
  <1>5. live = loc[p].out /\ StagedCopy = loc[p].out /\ loc[p].tgt = slot[loc[p].to] /\ loc[p].to \in Accounts /\ journal # None
    BY <1>0, <1>a, OwnAt, LocalFields, SMT DEF SectionAligned
  <1>6. KeptLocal(p)
    BY <1>1, <1>a, KeptCopies
  <1>7. Safe \subseteq Safe'
    BY <1>0, <1>1, <1>a, SafeStays, SMT
  <1>8. ~Pending
    BY <1>0, SMT DEF Pending, Files, SectionFile
  <1>9. StagedCopy' = StagedCopy /\ (Pending' => journal'.credsHash = loc[p].tgt)
    BY <1>0, <1>2, <1>8, SMT DEF CredsStarted, SameFile, StagedCopy, Pending, Unfinished, finished
  <1>10. \A c \in Circ' : c \in Circ \/ \E a \in Accounts : c = slot[a]
    BY <1>0, <1>5, <1>9, SMT DEF Circ
  <1>11. Pending' => HeldIfNewest(journal'.credsHash)
    <2>1. HeldIfNewest(slot[loc[p].to])
      BY <1>5, SlotHeld DEF Aligned
    <2> QED BY <1>5, <1>9, <2>1
  <1>12. pc'[p] # "persist"
    BY <1>3, <1>4, SMT
  <1>13. newest' = newest /\ UNCHANGED <<slot, prev, live>>
    BY <1>0
  <1> QED BY <1>1, <1>6, <1>7, <1>10, <1>11, <1>12, <1>13, KeptStep

\* Step 6 (the target slot re-read and the journal written) loses no newest credential.
LEMMA Step6Kept == ASSUME TypeOK, Files, Ages, Aligned, Kept, NEW p \in Procs, p \in Switchers, step6(p) PROVE Kept'
  <1>0. UNCHANGED <<live, config, active, slot, prev, stash, staged, committed, configLock, env, faults>> /\ pc[p] = "step6"
    BY Zenon DEF step6
  <1>1. CASE Finish(p) /\ UNCHANGED journal
    BY <1>0, <1>1, KeptFinish, SMT
  <1>2. CASE /\ Set(p, [loc[p] EXCEPT !.tgt = slot[loc[p].to]])
             /\ Goto(p, "stage")
             /\ journal' = [attempt |-> p, from |-> loc[p].from, to |-> loc[p].to,
                            republish |-> loc[p].republish, undo |-> NoUndo, credsHash |-> None,
                            credsWritten |-> FALSE, closed |-> "open", committed |-> FALSE]
    <2>1. /\ loc'[p].out = loc[p].out /\ loc'[p].prep = loc[p].prep /\ pc'[p] = "stage"
          /\ \A q \in Procs : q # p => loc'[q] = loc[q] /\ pc'[q] = pc[q]
      BY <1>2, TargetLoc, Zenon
    <2>2. journal'.undo = NoUndo
      BY <1>2, SMT
    <2>3. ~Pending'
      BY <2>2, NothingUndone, SMT DEF Pending
    <2>4. KeptLocal(p)
      <3>1. HeldIfNewest(loc[p].out) /\ \A a \in Accounts : HeldIfNewest(loc[p].prep.slots[a])
        BY <1>0, OutHeld, SMT DEF Kept, NewestKept
      <3> QED BY <2>1, <3>1 DEF KeptLocal
    <2>5. Safe \subseteq Safe'
      BY <1>0, <2>1, SafeStays, SMT
    <2>6. Circ' \subseteq Circ
      BY <1>0, <2>3, SMT DEF Circ
    <2>7. newest' = newest /\ UNCHANGED <<slot, prev, live>> /\ pc'[p] # "persist"
      BY <1>0, <2>1, SMT
    <2>8. \A c \in Circ' : c \in Circ \/ \E a \in Accounts : c = slot[a]
      BY <2>6
    <2> QED BY <2>1, <2>3, <2>4, <2>5, <2>7, <2>8, KeptStep
  <1> QED BY <1>1, <1>2, Zenon DEF step6

\* Step 4 (the journal and active checks under the lock) loses no newest credential.
LEMMA Step4Kept == ASSUME TypeOK, Files, Ages, Aligned, Kept, NEW p \in Procs, p \in Switchers, step4(p) PROVE Kept'
  <1>0. UNCHANGED <<disk, configLock, env, faults>> /\ pc[p] = "step4"
    BY Zenon DEF step4
  <1>1. CASE Finish(p)
    BY <1>0, <1>1, KeptFinish, SMT
  <1>2. CASE Goto(p, "unstage4") /\ UNCHANGED loc
    <2>1. Walked(p)
      BY <1>2, GoWalked, SMT DEF Locked
    <2> QED BY <1>0, <2>1, PendingStill, CalmKept, SMT DEF Locked
  <1>3. CASE /\ Goto(p, "start")
             /\ Set(p, [NoLocals EXCEPT !.to = loc[p].to, !.republish = loc[p].republish,
                                        !.verdict = loc[p].verdict, !.retried = TRUE])
    <2>1. /\ SameCopies(NoLocals, loc'[p]) /\ pc'[p] = "start"
          /\ \A q \in Procs : q # p => loc'[q] = loc[q] /\ pc'[q] = pc[q]
      BY <1>3, RetryLoc
    <2>2. KeptLocal(p)
      BY <2>1, KeptCopies
    <2> QED BY <1>0, <2>1, <2>2, SafeStays, KeptStill, SMT
  <1>4. CASE /\ Goto(p, "step5")
             /\ Set(p, [loc[p] EXCEPT !.from = active, !.out = live, !.republish = @ \/ active = loc[p].to])
    <2>1. /\ loc'[p].prep = loc[p].prep /\ pc'[p] = "step5"
          /\ \A q \in Procs : q # p => loc'[q] = loc[q] /\ pc'[q] = pc[q]
      BY <1>4, OutgoingLoc, Zenon
    <2>2. KeptLocal(p)
      BY <2>1, SMT DEF KeptLocal, Kept, NewestKept
    <2>3. UNCHANGED <<newest, slot, prev, live, journal, staged, committed, stash, gone>>
      BY <1>0
    <2>4. Safe \subseteq Safe'
      BY <1>0, <2>1, <2>3, SafeStays, SMT
    <2> QED BY <2>1, <2>2, <2>3, <2>4, KeptStill, SMT
  <1> QED BY <1>1, <1>2, <1>3, <1>4, Zenon DEF step4

\* Nobody moves a credential.
LEMMA StillKept ==
    ASSUME Ages, Aligned, Kept, UNCHANGED <<newest, slot, prev, live, journal, staged, committed, stash, gone, pc, loc>>
    PROVE  Kept'
  <1>1. Pending' = Pending /\ StagedCopy' = StagedCopy /\ journal'.credsHash = journal.credsHash
    BY PendingStill
  <1>2. Circ' = Circ
    BY <1>1, SMT DEF Circ
  <1>3. Safe \subseteq Safe'
    BY SMT DEF Safe, Flying
  <1>4. Pending' => HeldIfNewest(journal'.credsHash)
    BY <1>1, HashHeld
  <1>5. SlotOwn /\ \A a \in People : newest[a].acct = a
    BY DEF Aligned, Ages
  <1>6. /\ \A q \in Procs : pc'[q] # "step5" => HeldIfNewest(loc'[q].out)
        /\ \A q \in Procs : \A a \in Accounts : HeldIfNewest(loc'[q].prep.slots[a])
    BY DEF Kept, NewestKept
  <1> QED BY <1>2, <1>3, <1>4, <1>5, <1>6, KeptFrame

\* A stale lock and a settings write lose no newest credential.
LEMMA ElsewhereKept == ASSUME Ages, Aligned, Kept, lockStale \/ ccSettings PROVE Kept'
  <1>1. UNCHANGED <<newest, slot, prev, live, journal, staged, committed, stash, gone, pc, loc>>
    BY Zenon DEF lockStale, ccSettings
  <1> QED BY <1>1, StillKept

\* writeSlot(a, c) over another credential of the account.
LEMMA OverwriteKept ==
    ASSUME TypeOK, Ages, Aligned, Kept, NEW p \in Procs, NEW a \in Accounts, NEW c, c.acct = a,
           UNCHANGED <<newest, live, journal, staged, committed>>,
           slot'[a] = c, prev'[a] = slot[a],
           \A b \in Accounts : b # a => slot'[b] = slot[b] /\ prev'[b] = prev[b],
           \A x \in Safe : x = c \/ x \in Safe',
           \A q \in Procs : q # p => pc'[q] = pc[q] /\ loc'[q] = loc[q],
           pc'[p] # "persist",
           Rewound(a) => newest[a] = c,
           Rewound(a)' => /\ \A x \in Circ : x.acct = a => x \in {c, newest[a]}
                          /\ \A q \in Procs : q # p /\ InFlight(q, a) => Spent(q).fam # c.fam,
           \A q \in Procs : q # p /\ InFlight(q, a) =>
              /\ c.fam # loc[q].tgt.fam
              /\ c.fam = Spent(q).fam \/ \A x \in Circ : x.acct = a => x.fam # Spent(q).fam,
           pc'[p] # "step5" => HeldIfNewest(loc'[p].out) \/ loc'[p].out = c,
           \A b \in Accounts : HeldIfNewest(loc'[p].prep.slots[b]) \/ loc'[p].prep.slots[b] = c
    PROVE  Kept'
  <1>0. /\ \A b \in People : newest[b].acct = b
        /\ Pending' = Pending /\ StagedCopy' = StagedCopy /\ journal'.credsHash = journal.credsHash
    BY PendingStill DEF Ages
  <1>1. Circ' = Circ
    BY <1>0, SMT DEF Circ
  <1>2. ASSUME NEW b \in People, Held(b) PROVE Held(b)'
    <2>1. CASE newest[b] = c
      <3>1. b = a
        BY <1>0, <2>1
      <3> QED BY <2>1, <3>1, SMT DEF Held
    <2>2. CASE newest[b] # c /\ newest[b] \in Safe
      BY <2>2, SMT DEF Held, Safe
    <2>3. CASE newest[b] # c /\ newest[b] \notin Safe /\ b # a
      BY <1>2, <2>3, SMT DEF Held, Safe
    <2>4. CASE newest[b] # c /\ newest[b] \notin Safe /\ b = a
      <3>1. ~Rewound(a)
        BY <2>4
      <3>2. newest[a] = slot[a]
        BY <1>2, <2>4, <3>1, SMT DEF Held, Safe, Rewound
      <3> QED BY <2>4, <3>2, SMT DEF Held
    <2> QED BY <2>1, <2>2, <2>3, <2>4
  <1>3. ASSUME NEW x, HeldIfNewest(x) PROVE HeldIfNewest(x)'
    <2>1. x \in Creds => x.acct \in People
      BY SMT DEF Creds
    <2> QED BY <1>2, <1>3, <2>1, SMT DEF HeldIfNewest
  <1>4. HeldIfNewest(c)'
    BY SMT DEF HeldIfNewest, Held
  <1>5. NewestKept'
    <2>1. \A b \in People : Held(b)' \/ live' = newest'[b]
      BY <1>2 DEF Kept, NewestKept
    <2>2. Pending' => HeldIfNewest(journal.credsHash)'
      <3>1. PICK h : h = journal.credsHash
        OBVIOUS
      <3>2. Pending => HeldIfNewest(h)'
        BY <1>3, <3>1, HashHeld
      <3> QED BY <1>0, <3>1, <3>2, SMT DEF HeldIfNewest
    <2>3. ASSUME NEW q \in Procs, pc'[q] # "step5" PROVE HeldIfNewest(loc[q].out)'
      <3>1. PICK h : h = loc'[q].out
        OBVIOUS
      <3>2. HeldIfNewest(h) \/ h = c
        BY <2>3, <3>1 DEF Kept, NewestKept
      <3>3. HeldIfNewest(h)'
        BY <1>3, <1>4, <3>2
      <3> QED BY <3>1, <3>3, SMT DEF HeldIfNewest
    <2>4. ASSUME NEW q \in Procs, NEW b \in Accounts PROVE HeldIfNewest(loc[q].prep.slots[b])'
      <3>1. PICK h : h = loc'[q].prep.slots[b]
        OBVIOUS
      <3>2. HeldIfNewest(h) \/ h = c
        BY <3>1 DEF Kept, NewestKept
      <3>3. HeldIfNewest(h)'
        BY <1>3, <1>4, <3>2
      <3> QED BY <3>1, <3>3, SMT DEF HeldIfNewest
    <2> QED BY <2>1, <2>2, <2>3, <2>4, Zenon DEF NewestKept
  <1>6. ASSUME NEW q \in Procs, NEW b, InFlight(q, b)' PROVE q # p /\ InFlight(q, b) /\ Spent(q)' = Spent(q)
    BY <1>6, SMT DEF InFlight, Spent
  <1>7. RewoundOK'
    <2>1. ASSUME NEW b \in Accounts, Rewound(b)'
          PROVE  /\ \A x \in Circ' : x.acct = b => x \in {slot'[b], newest'[b]}
                 /\ \A q \in Procs : InFlight(q, b)' => Spent(q)'.fam # slot'[b].fam
      <3>1. CASE b = a
        <4>1. \A q \in Procs : q # p /\ InFlight(q, a) => Spent(q).fam # c.fam
          BY <2>1, <3>1
        <4>2. \A q \in Procs : InFlight(q, b)' => Spent(q)'.fam # slot'[b].fam
          BY <1>6, <3>1, <4>1
        <4>3. \A x \in Circ' : x.acct = b => x \in {slot'[b], newest'[b]}
          BY <1>1, <2>1, <3>1
        <4> QED BY <4>2, <4>3
      <3>2. CASE b # a
        <4>0. b \in People
          BY SMT DEF People
        <4>1. Rewound(b)
          BY <1>0, <2>1, <3>2, <4>0, SMT DEF Rewound, Safe
        <4>2. /\ \A x \in Circ : x.acct = b => x \in {slot[b], newest[b]}
              /\ \A q \in Procs : InFlight(q, b) => Spent(q).fam # slot[b].fam
          BY <4>1 DEF Kept, RewoundOK
        <4>3. slot'[b] = slot[b] /\ newest'[b] = newest[b]
          BY <3>2
        <4>4. \A q \in Procs : InFlight(q, b)' => Spent(q)'.fam # slot'[b].fam
          BY <1>6, <4>2, <4>3
        <4> QED BY <1>1, <4>2, <4>3, <4>4
      <3> QED BY <3>1, <3>2
    <2> QED BY <2>1, Zenon DEF RewoundOK
  <1>8. FlightOK'
    <2>1. ASSUME NEW q \in Procs, pc'[q] = "persist" PROVE Flight(q)'
      <3> DEFINE b == loc[q].to
                 t == loc[q].tgt
                 f == Spent(q).fam
      <3>1. loc'[q] = loc[q] /\ Spent(q)' = Spent(q) /\ pc[q] = "persist" /\ q # p
        BY <2>1, SMT DEF Spent
      <3>2. Flight(q)
        BY <3>1 DEF Kept, FlightOK
      <3>3. /\ slot[b].fam # t.fam
            /\ \A x \in Circ : x.acct = b => x.fam # t.fam
            /\ slot[b].fam = f \/ \A x \in Circ : x.acct = b => x.fam # f
            /\ \A r \in Procs : r # q /\ InFlight(r, b) => Spent(r).fam # f /\ Spent(r).fam # t.fam
        BY <3>2, Zenon DEF Flight
      <3>4. /\ slot'[b].fam # t.fam
            /\ slot'[b].fam = f \/ \A x \in Circ' : x.acct = b => x.fam # f
        <4>1. CASE b = a
          <5>1. InFlight(q, a)
            BY <3>1, <4>1 DEF InFlight
          <5> QED BY <1>1, <3>1, <4>1, <5>1
        <4>2. CASE b # a
          <5>1. b \in Accounts => slot'[b] = slot[b]
            BY <4>2
          <5>2. b \in Accounts
            BY LocalFields, SMT DEF TypeOK
          <5> QED BY <1>1, <3>3, <5>1, <5>2
        <4> QED BY <4>1, <4>2
      <3>5. \A r \in Procs : r # q /\ InFlight(r, b)' => Spent(r)'.fam # f /\ Spent(r)'.fam # t.fam
        <4>1. ASSUME NEW r \in Procs, r # q, InFlight(r, b)' PROVE Spent(r)'.fam # f /\ Spent(r)'.fam # t.fam
          <5>1. InFlight(r, loc[q].to)'
            BY <3>1, <4>1, SMT DEF InFlight
          <5>2. PICK d : d = b
            OBVIOUS
          <5>3. InFlight(r, d)'
            BY <3>1, <5>1, <5>2, SMT DEF InFlight
          <5>4. InFlight(r, d) /\ Spent(r)' = Spent(r)
            BY <1>6, <5>3
          <5> QED BY <3>3, <4>1, <5>2, <5>4
        <4> QED BY <4>1
      <3>6. /\ f < newest[b].fam
            /\ t.fam = f + 1
            /\ newest[b].fam = t.fam => newest[b] = t
        BY <3>2, Zenon DEF Flight
      <3>7. \A x \in Circ' : x.acct = b => x.fam # t.fam
        BY <1>1, <3>3
      <3> QED BY <3>1, <3>4, <3>5, <3>6, <3>7, Zenon DEF Flight
    <2> QED BY <2>1, Zenon DEF FlightOK
  <1> QED BY <1>5, <1>7, <1>8 DEF Kept

\* What is known of a successor credential in flight.
LEMMA InFlightAt ==
    ASSUME TypeOK, Ages, Aligned, Kept, NEW p \in Procs, pc[p] = "persist"
    PROVE  /\ loc[p].to \in Accounts /\ loc[p].to \in People /\ loc[p].tgt \in Creds /\ loc[p].tgt.acct = loc[p].to
           /\ Spent(p) \in Blobs /\ Spent(p).fam \in Nat /\ loc[p].tgt.fam \in Nat
           /\ newest[loc[p].to].fam \in Nat /\ slot[loc[p].to].fam \in Nat
           /\ Flight(p)
  <1>1. loc[p].to \in Accounts /\ loc[p].tgt \in Creds /\ loc[p].tgt.acct = loc[p].to
    BY LocalFields, SMT DEF TypeOK, Aligned, PrepAligned
  <1>2. Spent(p) \in Blobs
    BY <1>1, LocalFields, SMT DEF TypeOK, Spent
  <1>3. Spent(p).fam \in Nat /\ loc[p].tgt.fam \in Nat
    BY <1>1, <1>2, SMT DEF Blobs, Creds, Wiped
  <1>4. Flight(p)
    BY DEF Kept, FlightOK
  <1>5. SlotOwn
    BY DEF Aligned
  <1> QED BY <1>1, <1>2, <1>3, <1>4, <1>5, OldSlots

\* The write of a refreshed credential loses no newest credential.
LEMMA PersistKept == ASSUME TypeOK, TypeOK', Files, Ages, Aligned, Kept, NEW p \in Procs, p \in Switchers, persistRefresh(p) PROVE Kept'
  <1> DEFINE a == loc[p].to
             t == loc[p].tgt
  <1>0. /\ UNCHANGED <<live, config, active, staged, journal, committed, configLock, newest, gone, issued, settings, misadopted, faults>>
        /\ pc[p] = "persist"
    BY Zenon DEF persistRefresh
  <1>1. /\ a \in Accounts /\ t \in Creds /\ t.acct = a /\ a \in People
        /\ Spent(p).fam < newest[a].fam /\ t.fam = Spent(p).fam + 1 /\ slot[a].fam # t.fam
        /\ Spent(p).fam \in Nat /\ slot[a].fam \in Nat /\ newest[a].fam \in Nat
        /\ \A r \in Procs : r # p /\ InFlight(r, a) =>
              Spent(r).fam # Spent(p).fam /\ Spent(r).fam # t.fam
    BY <1>0, InFlightAt, Zenon DEF Flight
  <1>2. /\ HeldIfNewest(loc[p].out)
        /\ \A b \in Accounts : HeldIfNewest(loc[p].prep.slots[b]) /\ HeldIfNewest(slot[b])
    BY <1>0, OutHeld, SlotHeld, SMT DEF Kept, NewestKept, Aligned
  <1>3. CASE Finish(p) /\ stash' = stash \cup {t} /\ UNCHANGED <<slot, prev>>
    <2>1. /\ SameCopies(NoLocals, loc'[p]) /\ pc'[p] \notin {"persist", "step5"}
          /\ \A q \in Procs : q # p => pc'[q] = pc[q] /\ loc'[q] = loc[q]
      BY <1>3, FinishCopies
    <2>2. KeptLocal(p)
      BY <2>1, KeptCopies
    <2>3. Safe \subseteq Safe'
      BY <1>0, <1>3, <2>1, SafeGone, SMT
    <2> QED BY <1>0, <1>3, <2>1, <2>2, <2>3, KeptStill, SMT
  <1>4. CASE /\ Goto(p, "lock")
             /\ Set(p, [loc[p] EXCEPT !.prep.slots[loc[p].to] = slot'[loc[p].to], !.prep.freshened = TRUE, !.tgt = Wiped])
             /\ stash' = stash \cup {t} /\ UNCHANGED <<slot, prev>>
    <2>1. /\ SlotsSeen(loc[p], loc'[p], a, slot'[a]) /\ pc'[p] = "lock"
          /\ \A q \in Procs : q # p => loc'[q] = loc[q] /\ pc'[q] = pc[q]
      BY <1>4, PersistLoc
    <2>2. loc'[p].out = loc[p].out /\ \A b \in Accounts : loc'[p].prep.slots[b] \in {slot[b], loc[p].prep.slots[b]}
      BY <1>4, <2>1, SMT DEF SlotsSeen
    <2>3. KeptLocal(p)
      BY <1>2, <2>2, SMT DEF KeptLocal
    <2>4. UNCHANGED <<newest, slot, prev, live, journal, staged, committed>> /\ gone' = gone /\ t \in stash' /\ stash \subseteq stash'
      BY <1>0, <1>4
    <2>5. Safe \subseteq Safe'
      BY <2>1, <2>4, SafeGone, SMT
    <2> QED BY <2>1, <2>3, <2>4, <2>5, KeptStill, SMT
  <1>5. CASE /\ Goto(p, "lock")
             /\ Set(p, [loc[p] EXCEPT !.prep.slots[loc[p].to] = slot'[loc[p].to], !.prep.freshened = TRUE, !.tgt = Wiped])
             /\ sameCredentialLineage(slot[a], loc[p].prep.slots[a]) /\ writeSlot(a, t) /\ UNCHANGED stash
    <2>1. /\ SlotsSeen(loc[p], loc'[p], a, slot'[a]) /\ pc'[p] = "lock"
          /\ \A q \in Procs : q # p => loc'[q] = loc[q] /\ pc'[q] = pc[q]
      BY <1>5, PersistLoc
    <2>2. /\ slot'[a] = t /\ prev'[a] = slot[a]
          /\ \A b \in Accounts : b # a => slot'[b] = slot[b] /\ prev'[b] = prev[b]
      <3>1. slot[a] # t
        BY <1>1
      <3>2. slot \in [Accounts -> Blobs] /\ prev \in [Accounts -> Blobs]
        BY DEF TypeOK
      <3>3. writeSlot(a, t)
        BY <1>5
      <3> HIDE DEF a, t
      <3> QED BY <1>1, <3>1, <3>2, <3>3, SMT DEF writeSlot
    <2>3. slot[a].fam = Spent(p).fam
      BY <1>5, Zenon DEF sameCredentialLineage, Spent
    <2>4. loc'[p].out = loc[p].out /\ loc'[p].prep.slots[a] = t
          /\ \A b \in Accounts : b # a => loc'[p].prep.slots[b] = loc[p].prep.slots[b]
      BY <2>1, <2>2, SMT DEF SlotsSeen
    <2>5. UNCHANGED <<newest, live, journal, staged, committed>> /\ gone' = gone /\ stash' = stash
      BY <1>0, <1>5
    <2>6. \A x \in Safe : x = t \/ x \in Safe'
      BY <2>1, <2>5, SMT DEF Safe, Flying
    <2>7. ~Rewound(a)
      <3>1. ~Rewound(a) \/ ~InFlight(p, a) \/ Spent(p).fam # slot[a].fam
        BY <1>1, Zenon DEF Kept, RewoundOK
      <3>2. InFlight(p, a)
        BY <1>0 DEF InFlight
      <3> QED BY <2>3, <3>1, <3>2
    <2>b. PICK e \in Accounts : e = a
      BY <1>1
    <2>8. ~Rewound(e)'
      <3>1. prev'[e] = slot[e] /\ newest'[e] = newest[e]
        BY <2>2, <2>5, <2>b
      <3>2. slot[e].fam = Spent(p).fam /\ Spent(p).fam < newest[e].fam /\ Spent(p).fam \in Nat /\ newest[e].fam \in Nat
        BY <1>1, <2>3, <2>b
      <3>3. slot[e] # newest[e]
        BY <3>2, SMT
      <3> QED BY <3>1, <3>3 DEF Rewound
    <2>9. ASSUME NEW q \in Procs, q # p, InFlight(q, a)
          PROVE  /\ t.fam # loc[q].tgt.fam
                 /\ t.fam = Spent(q).fam \/ \A x \in Circ : x.acct = a => x.fam # Spent(q).fam
      <3>1. pc[q] = "persist" /\ loc[q].to = a
        BY <2>9 DEF InFlight
      <3>2. Spent(q).fam \in Nat /\ Flight(q)
        BY <3>1, InFlightAt
      <3>3. loc[q].tgt.fam = Spent(q).fam + 1
            /\ (slot[a].fam = Spent(q).fam \/ \A x \in Circ : x.acct = a => x.fam # Spent(q).fam)
        BY <3>1, <3>2, Zenon DEF Flight
      <3>4. Spent(q).fam # Spent(p).fam
        BY <1>1, <2>9
      <3> HIDE DEF a, t
      <3>5. t.fam # loc[q].tgt.fam
        BY <1>1, <3>2, <3>3, <3>4, SMT
      <3> QED BY <2>3, <3>3, <3>4, <3>5
    <2>10. \A b \in Accounts : HeldIfNewest(loc'[p].prep.slots[b]) \/ loc'[p].prep.slots[b] = t
      <3>1. ASSUME NEW b \in Accounts PROVE HeldIfNewest(loc'[p].prep.slots[b]) \/ loc'[p].prep.slots[b] = t
        <4>1. CASE b = a
          BY <2>4, <4>1
        <4>2. CASE b # a
          BY <1>2, <2>4, <4>2
        <4> QED BY <4>1, <4>2
      <3> QED BY <3>1
    <2>11. HeldIfNewest(loc'[p].out)
      BY <1>2, <2>4
    <2>12. pc'[p] # "persist"
      BY <2>1, SMT
    <2>c. PICK c : c = t
      OBVIOUS
    <2>13. /\ c.acct = e /\ slot'[e] = c /\ prev'[e] = slot[e]
           /\ \A d \in Accounts : d # e => slot'[d] = slot[d] /\ prev'[d] = prev[d]
           /\ \A x \in Safe : x = c \/ x \in Safe'
           /\ ~Rewound(e)
      BY <1>1, <2>2, <2>6, <2>7, <2>b, <2>c
    <2>14. /\ \A q \in Procs : q # p => pc'[q] = pc[q] /\ loc'[q] = loc[q]
           /\ \A d \in Accounts : HeldIfNewest(loc'[p].prep.slots[d]) \/ loc'[p].prep.slots[d] = c
      BY <2>1, <2>10, <2>c
    <2>15. \A q \in Procs : q # p /\ InFlight(q, e) =>
              /\ c.fam # loc[q].tgt.fam
              /\ c.fam = Spent(q).fam \/ \A x \in Circ : x.acct = e => x.fam # Spent(q).fam
      BY <2>9, <2>b, <2>c
    <2> HIDE DEF a, t
    <2> QED BY <2>5, <2>8, <2>11, <2>12, <2>13, <2>14, <2>15, OverwriteKept
  <1> QED BY <1>3, <1>4, <1>5, Zenon DEF persistRefresh

\* The outgoing credential is accounted for when step 5 does not write it over the slot.
LEMMA OutgoingHeld ==
    ASSUME TypeOK, Files, Ages, Aligned, Kept, NEW p \in Procs, p \in Switchers, pc[p] = "step5",
           NEW k, k = OutgoingKind(p),
           k \in {"own-bytes", "wiped"} \/ (k = "foreign-synced" /\ loc[p].prep.slots[loc[p].out.acct] = loc[p].out)
    PROVE  HeldIfNewest(loc[p].out)
  <1>1. loc[p].from \in Accounts /\ (loc[p].prep.resolved # None => loc[p].prep.resolved = loc[p].prep.live.acct)
    BY LocalFields, SMT DEF TypeOK, Aligned, PrepAligned, Prepped
  <1>2. CASE loc[p].republish /\ loc[p].prep.freshened
    <2>1. loc[p].out.acct = loc[p].from /\ loc[p].out.n < newest[loc[p].from].n
      BY <1>2, Zenon DEF Aligned, SectionAligned
    <2>2. newest[loc[p].from].n \in Nat
      BY <1>1, SMT DEF TypeOK, Creds, People
    <2> QED BY <2>1, <2>2, SMT DEF HeldIfNewest
  <1>3. CASE ~(loc[p].republish /\ loc[p].prep.freshened)
    <2>1. k = Kind(p, [acct |-> loc[p].from, live |-> loc[p].out])
      BY <1>3, Zenon DEF OutgoingKind
    <2>2. /\ k = "own-bytes" => slot[loc[p].from] = loc[p].out
          /\ k = "foreign-synced" => loc[p].prep.resolved \in Accounts /\ loc[p].prep.live = loc[p].out /\ loc[p].prep.resolved # None
          /\ k = "wiped" => loc[p].out = Wiped
      BY <2>1, KindFacts
    <2>3. CASE k = "own-bytes"
      <3>1. HeldIfNewest(slot[loc[p].from])
        BY <1>1, SlotHeld DEF Aligned
      <3> QED BY <2>2, <2>3, <3>1
    <2>4. CASE k = "wiped"
      BY <2>2, <2>4, NothingHeld
    <2>5. CASE k = "foreign-synced" /\ loc[p].prep.slots[loc[p].out.acct] = loc[p].out
      <3>1. loc[p].out.acct \in Accounts
        BY <1>1, <2>2, <2>5
      <3>2. HeldIfNewest(loc[p].prep.slots[loc[p].out.acct])
        BY <3>1 DEF Kept, NewestKept
      <3> QED BY <2>5, <3>2
    <2> QED BY <2>3, <2>4, <2>5
  <1> QED BY <1>2, <1>3

\* An outgoing credential that is to be written over its slot is not the one in it.
LEMMA KindSlot ==
    ASSUME NEW p \in Procs, OutgoingKind(p) \in {"own-family", "own-rotated", "unresolved"}
    PROVE  slot[loc[p].from] # loc[p].out
  <1>1. ~(loc[p].republish /\ loc[p].prep.freshened)
    BY SMT DEF OutgoingKind
  <1>2. PICK o : o = [acct |-> loc[p].from, live |-> loc[p].out]
    OBVIOUS
  <1>3. o.acct = loc[p].from /\ o.live = loc[p].out
    BY <1>2
  <1>4. OutgoingKind(p) = Kind(p, o)
    BY <1>1, <1>2, Zenon DEF OutgoingKind
  <1> QED BY <1>3, <1>4, SMT DEF Kind

\* Step 5 (the outgoing credential kept, stashed or refused) loses no newest credential.
LEMMA Step5Kept ==
    ASSUME TypeOK, Files, Ages, Aligned, Kept, NEW p \in Procs, p \in Switchers, step5(p), ~misadopted'
    PROVE  Kept'
  <1>0. UNCHANGED <<live, config, active, staged, journal, committed, configLock,
                    newest, gone, issued, settings, faults>> /\ pc[p] = "step5" /\ pc[p] # "persist"
    BY SMT DEF step5
  <1>1. CASE Finish(p) /\ UNCHANGED <<slot, prev, stash, misadopted>>
    BY <1>0, <1>1, KeptFinish, SMT
  <1>2. ASSUME NEW k, k = OutgoingKind(p), NEW out, out = loc[p].out, NEW from, from = loc[p].from,
               misadopted' = (misadopted \/ (k = "unresolved" /\ out.acct # from)), Goto(p, "step6"), UNCHANGED loc,
               \/ k \in {"own-family", "own-rotated", "unresolved"} /\ writeSlot(from, out) /\ UNCHANGED stash
               \/ stash' = stash \cup {out} /\ UNCHANGED <<slot, prev>>
               \/ /\ k \in {"own-bytes", "wiped"} \/ (k = "foreign-synced" /\ loc[p].prep.slots[out.acct] = out)
                  /\ UNCHANGED <<slot, prev, stash>>
        PROVE  Kept'
    <2>1. pc'[p] = "step6" /\ \A q \in Procs : q # p => pc'[q] = pc[q] /\ loc'[q] = loc[q]
      BY <1>2, GotoPc, SMT DEF TypeOK, Locked
    <2>2. live = out /\ journal = None
      BY <1>0, <1>2, SMT DEF Aligned, SectionAligned, Files, SectionFile
    <2>3. Circ = {live}
      BY <2>2, SMT DEF Circ, Pending, Unfinished
    <2>4. \A b \in Accounts : HeldIfNewest(loc'[p].prep.slots[b])
      BY <1>2 DEF Kept, NewestKept
    <2>5. pc'[p] # "persist" /\ pc'[p] # "step5"
      BY <2>1, SMT
    <2>6. CASE UNCHANGED <<slot, prev>> /\ stash \subseteq stash' /\ (HeldIfNewest(out) \/ out \in stash')
      <3>1. Safe \subseteq Safe'
        BY <1>0, <2>1, <2>6, SafeStays, SMT
      <3>2. Circ' \subseteq Circ /\ ~Pending'
        BY <1>0, <2>2, <2>3, SMT DEF Circ, Pending, Unfinished
      <3>3. HeldIfNewest(loc'[p].out) \/ loc'[p].out \in Safe'
        BY <1>2, <2>6 DEF Safe
      <3>4. \A q \in Procs : pc'[q] # "step5" => HeldIfNewest(loc'[q].out) \/ loc'[q].out \in Safe'
        BY <2>1, <3>3 DEF Kept, NewestKept
      <3>5. \A q \in Procs : \A b \in Accounts : HeldIfNewest(loc'[q].prep.slots[b])
        BY <1>2 DEF Kept, NewestKept
      <3>6. SlotOwn /\ \A a \in People : newest[a].acct = a
        BY DEF Aligned, Ages
      <3>7. \A q \in Procs : pc'[q] = "persist" => pc[q] = "persist" /\ loc'[q] = loc[q]
        BY <1>2, <2>1, <2>5
      <3>8. newest' = newest /\ live' = live /\ UNCHANGED <<slot, prev>>
        BY <1>0, <2>6
      <3>9. \A c \in Circ' : c \in Circ \/ \E a \in Accounts : c = slot[a]
        BY <3>2
      <3> QED BY <3>1, <3>2, <3>4, <3>5, <3>6, <3>7, <3>8, <3>9, KeptFrame
    <2>7. CASE k \in {"own-family", "own-rotated", "unresolved"} /\ writeSlot(from, out) /\ UNCHANGED stash
      <3>1. from \in Accounts /\ out.acct = from /\ slot[from] # out
        <4>1. k = "unresolved" => out.acct = from
          BY <1>2, Zenon
        <4>2. out.acct = from
          BY <1>0, <1>2, <2>7, <4>1, WrittenOwn
        <4>3. from \in Accounts
          BY <1>2, LocalFields, SMT DEF TypeOK
        <4> QED BY <1>2, <2>7, <4>2, <4>3, KindSlot
      <3>2. /\ slot'[from] = out /\ prev'[from] = slot[from]
            /\ \A b \in Accounts : b # from => slot'[b] = slot[b] /\ prev'[b] = prev[b]
        BY <2>7, <3>1, SMT DEF writeSlot, TypeOK
      <3>3. \A x \in Safe : x \in Safe'
        BY <1>0, <2>1, <2>7, SafeStays, SMT
      <3>4. Rewound(from) => newest[from] = out
        <4>1. Rewound(from) /\ live.acct = from => live \in {slot[from], newest[from]}
          BY <2>3, <3>1, SMT DEF Kept, RewoundOK
        <4> QED BY <2>2, <3>1, <4>1
      <3>5. UNCHANGED <<newest, live, journal, staged, committed>>
        BY <1>0
      <3>6. ASSUME NEW q \in Procs, q # p, InFlight(q, from)
            PROVE  /\ out.fam # loc[q].tgt.fam
                   /\ Spent(q).fam < newest[from].fam /\ Spent(q).fam \in Nat /\ newest[from].fam \in Nat
                   /\ slot[from].fam = Spent(q).fam \/ out.fam # Spent(q).fam
        <4>1. pc[q] = "persist" /\ loc[q].to = from
          BY <3>6 DEF InFlight
        <4>2. Flight(q) /\ Spent(q).fam \in Nat /\ newest[from].fam \in Nat
          BY <4>1, InFlightAt
        <4>3. /\ Spent(q).fam < newest[from].fam
              /\ \A x \in Circ : x.acct = from => x.fam # loc[q].tgt.fam
              /\ slot[from].fam = Spent(q).fam \/ \A x \in Circ : x.acct = from => x.fam # Spent(q).fam
          BY <4>1, <4>2, Zenon DEF Flight
        <4> QED BY <2>2, <2>3, <3>1, <4>2, <4>3
      <3>7. Rewound(from)' => /\ \A x \in Circ : x.acct = from => x \in {out, newest[from]}
                              /\ \A q \in Procs : q # p /\ InFlight(q, from) => Spent(q).fam # out.fam
        <4>1. ASSUME Rewound(from)', NEW q \in Procs, q # p, InFlight(q, from) PROVE Spent(q).fam # out.fam
          <5>1. slot[from] = newest[from]
            BY <3>2, <3>5, <4>1 DEF Rewound
          <5>2. slot[from].fam # Spent(q).fam
            BY <3>6, <4>1, <5>1, SMT
          <5> QED BY <3>6, <4>1, <5>2
        <4> QED BY <2>2, <2>3, <4>1
      <3>8. \A q \in Procs : q # p /\ InFlight(q, from) =>
               /\ out.fam # loc[q].tgt.fam
               /\ out.fam = Spent(q).fam \/ \A x \in Circ : x.acct = from => x.fam # Spent(q).fam
        BY <2>2, <2>3, <3>6
      <3>9. loc'[p].out = out /\ \A b \in Accounts : HeldIfNewest(loc'[p].prep.slots[b])
        BY <1>2, <2>4
      <3>10. \A x \in Safe : x = out \/ x \in Safe'
        BY <3>3
      <3> QED BY <2>1, <2>5, <3>1, <3>2, <3>4, <3>5, <3>7, <3>8, <3>9, <3>10, OverwriteKept
    <2>8. CASE stash' = stash \cup {out} /\ UNCHANGED <<slot, prev>>
      BY <2>6, <2>8
    <2>9. CASE /\ k \in {"own-bytes", "wiped"} \/ (k = "foreign-synced" /\ loc[p].prep.slots[out.acct] = out)
               /\ UNCHANGED <<slot, prev, stash>>
      <3>1. HeldIfNewest(out)
        BY <1>0, <1>2, <2>9, OutgoingHeld
      <3> QED BY <2>6, <2>9, <3>1
    <2> QED BY <1>2, <2>7, <2>8, <2>9
  <1>3. PICK k : k = OutgoingKind(p)
    OBVIOUS
  <1>4. PICK out : out = loc[p].out
    OBVIOUS
  <1>5. PICK from : from = loc[p].from
    OBVIOUS
  <1> QED BY <1>1, <1>2, <1>3, <1>4, <1>5, Zenon DEF step5

\* What was issued before is not the newest any more.
LEMMA NotRenewed ==
    ASSUME TypeOK, NEW a \in People, NEW c \in Creds, c.acct = a, c.n = newest[a].n + 1,
           NEW x, OlderThan(x, newest)
    PROVE  x # c
  <1>1. newest[a].n \in Nat
    BY SMT DEF TypeOK, Creds
  <1> QED BY <1>1, SMT DEF OlderThan

\* Issuing the next credential of an account keeps every newest one, when the copy goes to
\* live or into flight and only the one it replaces is given up.
LEMMA Renewed ==
    ASSUME TypeOK, Ages, Aligned, Kept, NEW a \in People, NEW c \in Creds, c.acct = a, c.n = newest[a].n + 1,
           newest'[a] = c, \A b \in People : b # a => newest'[b] = newest[b],
           UNCHANGED <<slot, prev, journal, staged, committed>>, Safe \subseteq Safe',
           c \in Safe' \/ live' = c,
           live' = live \/ live \in Safe' \/ live = newest[a],
           \A x \in Circ' : x \in Circ \/ x = c,
           \A q \in Procs : pc'[q] # "step5" => pc[q] # "step5" /\ loc'[q].out = loc[q].out,
           \A q \in Procs : \A b \in Accounts : loc'[q].prep.slots[b] \in {loc[q].prep.slots[b], slot[b]},
           \A q \in Procs : \A b : b # a /\ InFlight(q, b)' => InFlight(q, b) /\ Spent(q)' = Spent(q)
    PROVE  NewestKept' /\ RewoundOK'
  <1>0. \A b \in People : newest[b].acct = b
    BY DEF Ages
  <1>1. ASSUME NEW b \in People, b # a, Held(b) PROVE Held(b)'
    BY <1>1, SMT DEF Held, Safe
  <1>2. ASSUME NEW x, HeldIfNewest(x), OlderThan(x, newest) PROVE HeldIfNewest(x)'
    <2>1. x # c
      BY <1>2, NotRenewed
    <2>2. x \in Creds => x.acct \in People
      BY SMT DEF Creds
    <2>3. ASSUME x \in Creds, x = newest'[x.acct] PROVE Held(x.acct)'
      <3>1. PICK b \in People : b = x.acct
        BY <2>2, <2>3
      <3>2. b # a
        BY <2>1, <2>3, <3>1
      <3>3. Held(b)
        BY <1>2, <2>3, <3>1, <3>2, SMT DEF HeldIfNewest
      <3>4. Held(b)'
        BY <1>1, <3>2, <3>3
      <3> QED BY <3>1, <3>4, SMT DEF Held
    <2> QED BY <2>3, SMT DEF HeldIfNewest
  <1>3. NewestKept'
    <2>1. ASSUME NEW b \in People PROVE Held(b)' \/ live' = newest'[b]
      <3>1. CASE b = a
        BY <3>1, SMT DEF Held, Safe
      <3>2. CASE b # a /\ Held(b)
        BY <1>1, <3>2
      <3>3. CASE b # a /\ live = newest[b]
        <4>1. live # newest[a]
          BY <1>0, <3>3
        <4>2. CASE live' = live
          BY <3>3, <4>2
        <4>3. CASE live \in Safe'
          BY <3>3, <4>3, SMT DEF Held, Safe
        <4> QED BY <4>1, <4>2, <4>3
      <3> QED BY <3>1, <3>2, <3>3 DEF Kept, NewestKept
    <2>2. Pending' => HeldIfNewest(journal.credsHash)'
      <3>1. PICK h : h = journal.credsHash
        OBVIOUS
      <3>2. Pending' => Pending
        BY PendingStill
      <3>3. Pending => HeldIfNewest(h) /\ OlderThan(h, newest)
        BY <3>1, HashHeld, SMT DEF Pending, Unfinished, Ages
      <3>4. Pending' => HeldIfNewest(h)'
        BY <1>2, <3>2, <3>3
      <3> QED BY <3>1, <3>4, SMT DEF HeldIfNewest
    <2>3. ASSUME NEW q \in Procs, pc'[q] # "step5" PROVE HeldIfNewest(loc[q].out)'
      <3>1. PICK h : h = loc'[q].out
        OBVIOUS
      <3>2. HeldIfNewest(h) /\ OlderThan(h, newest)
        BY <2>3, <3>1 DEF Kept, NewestKept, Ages, OldLocals
      <3>3. HeldIfNewest(h)'
        BY <1>2, <3>2
      <3> QED BY <3>1, <3>3, SMT DEF HeldIfNewest
    <2>4. ASSUME NEW q \in Procs, NEW b \in Accounts PROVE HeldIfNewest(loc[q].prep.slots[b])'
      <3>1. PICK h : h = loc'[q].prep.slots[b]
        OBVIOUS
      <3>2. HeldIfNewest(loc[q].prep.slots[b]) /\ OlderThan(loc[q].prep.slots[b], newest)
        BY DEF Kept, NewestKept, Ages, OldLocals
      <3>3. HeldIfNewest(slot[b]) /\ OlderThan(slot[b], newest)
        BY SlotHeld DEF Aligned, Ages
      <3>4. HeldIfNewest(h) /\ OlderThan(h, newest)
        BY <3>1, <3>2, <3>3
      <3>5. HeldIfNewest(h)'
        BY <1>2, <3>4
      <3> QED BY <3>1, <3>5, SMT DEF HeldIfNewest
    <2> QED BY <2>1, <2>2, <2>3, <2>4, Zenon DEF NewestKept
  <1>4. RewoundOK'
    <2>1. ASSUME NEW b \in Accounts, Rewound(b)'
          PROVE  /\ \A x \in Circ' : x.acct = b => x \in {slot'[b], newest'[b]}
                 /\ \A q \in Procs : InFlight(q, b)' => Spent(q)'.fam # slot'[b].fam
      <3>1. b # a
        <4>1. OlderThan(prev[b], newest)
          BY DEF Ages
        <4>2. prev[b] # c
          BY <4>1, NotRenewed
        <4> QED BY <2>1, <4>2 DEF Rewound
      <3>2. b \in People
        BY DEF People
      <3>3. Rewound(b) /\ newest'[b] = newest[b]
        BY <2>1, <3>1, <3>2, SMT DEF Rewound, Safe
      <3>4. /\ \A x \in Circ : x.acct = b => x \in {slot[b], newest[b]}
            /\ \A q \in Procs : InFlight(q, b) => Spent(q).fam # slot[b].fam
        BY <3>3 DEF Kept, RewoundOK
      <3>5. \A x \in Circ' : x.acct = b => x \in {slot'[b], newest'[b]}
        BY <3>1, <3>3, <3>4
      <3>6. \A q \in Procs : InFlight(q, b)' => Spent(q)'.fam # slot'[b].fam
        BY <3>1, <3>4
      <3> QED BY <3>5, <3>6
    <2> QED BY <2>1, Zenon DEF RewoundOK
  <1> QED BY <1>3, <1>4

\* Credentials in circulation are older than the newest of their account.
LEMMA CircOld ==
    ASSUME TypeOK, Files, Ages, Aligned, NEW a \in People, NEW x \in Circ, x.acct = a
    PROVE  x \in Creds /\ x.fam \in Nat /\ x.fam <= newest[a].fam /\ newest[a].fam \in Nat /\ OlderThan(x, newest)
  <1>1. live \in Creds /\ OlderThan(live, newest)
    BY DEF Aligned, SlotOwn, Ages
  <1>2. Pending => /\ StagedCopy \in Creds /\ journal.credsHash \in Creds
                   /\ OlderThan(StagedCopy, newest) /\ OlderThan(journal.credsHash, newest)
    <2>1. Pending => journal # None /\ journal \in Journals
      BY SMT DEF Pending, Unfinished, TypeOK
    <2>2. Pending => journal.attempt \in Switchers
      BY <2>1, JournalFields
    <2> QED BY <2>1, <2>2, SMT DEF Aligned, FileAligned, Ages, StagedCopy
  <1>3. x \in Creds /\ OlderThan(x, newest)
    BY <1>1, <1>2, SMT DEF Circ
  <1> QED BY <1>3, SMT DEF OlderThan, Creds, TypeOK

\* The provider's answer to a refresh loses no newest credential.
LEMMA PostKept == ASSUME TypeOK, Files, Ages, Aligned, Kept, NEW p \in Procs, p \in Switchers, postRefresh(p) PROVE Kept'
  <1>0. \A b \in People : newest[b].acct = b
    BY DEF Ages
  <1>1. PICK a : a = loc[p].to
    OBVIOUS
  <1>2. PICK c : c = Rotated(newest[a])
    OBVIOUS
  <1>3. /\ a \in Accounts /\ a \in People /\ c \in Creds /\ Issue(a, c)
        /\ c.acct = a /\ c.n = newest[a].n + 1 /\ c.fam = newest[a].fam + 1 /\ slot[a].fam = newest[a].fam
        /\ UNCHANGED <<live, config, active, slot, prev, stash, staged, journal, committed, lock, configLock,
                       gone, settings, misadopted, faults>>
    BY <1>0, <1>1, <1>2, Posted
  <1>4. /\ SlotsSeen(loc[p], loc'[p], a, slot[a]) /\ loc'[p].tgt = c /\ pc'[p] = "persist" /\ pc[p] = "freshen"
        /\ \A q \in Procs : q # p => loc'[q] = loc[q] /\ pc'[q] = pc[q]
    BY <1>1, <1>2, PostLoc, Zenon DEF postRefresh
  <1>5. newest' \in [People -> Creds] /\ newest'[a] = c /\ \A b \in People : b # a => newest'[b] = newest[b]
    BY <1>0, <1>3, Issued
  <1>6. /\ loc'[p].to = a /\ loc'[p].out = loc[p].out /\ loc'[p].prep.slots[a] = slot[a]
        /\ \A b \in Accounts : loc'[p].prep.slots[b] \in {loc[p].prep.slots[b], slot[b]}
    BY <1>1, <1>4, SMT DEF SlotsSeen, SameRequest
  <1>7. Spent(p)' = slot[a]
    BY <1>6, SMT DEF Spent
  <1>8. Safe \subseteq Safe' /\ c \in Safe'
    BY <1>3, <1>4, SMT DEF Safe, Flying
  <1>9. Circ' = Circ
    <2>1. Pending' = Pending /\ StagedCopy' = StagedCopy /\ journal'.credsHash = journal.credsHash
      BY <1>3, PendingStill
    <2> QED BY <1>3, <2>1, SMT DEF Circ
  <1>10. NewestKept' /\ RewoundOK'
    <2>1. \A q \in Procs : pc'[q] # "step5" => pc[q] # "step5" /\ loc'[q].out = loc[q].out
      BY <1>4, <1>6, SMT
    <2>2. \A q \in Procs : \A b \in Accounts : loc'[q].prep.slots[b] \in {loc[q].prep.slots[b], slot[b]}
      BY <1>4, <1>6
    <2>3. \A q \in Procs : \A b : b # a /\ InFlight(q, b)' => InFlight(q, b) /\ Spent(q)' = Spent(q)
      BY <1>4, <1>6, SMT DEF InFlight, Spent
    <2>4. UNCHANGED <<slot, prev, journal, staged, committed, live>>
      BY <1>3
    <2> QED BY <1>3, <1>5, <1>8, <1>9, <2>1, <2>2, <2>3, <2>4, Renewed
  <1>11. newest[a].fam \in Nat /\ c.fam \in Nat
    BY <1>3, SMT DEF Creds, TypeOK
  <1>12. ASSUME NEW q \in Procs, q # p, InFlight(q, a)
         PROVE  /\ Spent(q).fam \in Nat /\ loc[q].tgt.fam = Spent(q).fam + 1 /\ Spent(q).fam < newest[a].fam
                /\ newest[a].fam # loc[q].tgt.fam
    <2>1. pc[q] = "persist" /\ loc[q].to = a
      BY <1>12 DEF InFlight
    <2>2. Flight(q) /\ Spent(q).fam \in Nat
      BY <2>1, InFlightAt
    <2>3. loc[q].tgt.fam = Spent(q).fam + 1 /\ Spent(q).fam < newest[a].fam /\ slot[a].fam # loc[q].tgt.fam
      BY <2>1, <2>2, Zenon DEF Flight
    <2> QED BY <1>3, <2>2, <2>3
  <1>13. ASSUME NEW q \in Procs, pc'[q] = "persist" PROVE Flight(q)'
    <2>1. CASE q = p
      <3>1. \A r \in Procs : r # p /\ InFlight(r, a)' => Spent(r)'.fam # slot[a].fam /\ Spent(r)'.fam # c.fam
        <4>1. ASSUME NEW r \in Procs, r # p, InFlight(r, a)' PROVE Spent(r)'.fam # slot[a].fam /\ Spent(r)'.fam # c.fam
          <5>1. InFlight(r, a) /\ Spent(r)' = Spent(r)
            BY <1>4, <4>1, SMT DEF InFlight, Spent
          <5> QED BY <1>3, <1>11, <1>12, <4>1, <5>1, SMT
        <4> QED BY <4>1
      <3>2. \A x \in Circ' : x.acct = a => x.fam # c.fam
        <4>1. \A x \in Circ : x.acct = a => x.fam \in Nat /\ x.fam <= newest[a].fam
          BY <1>3, CircOld
        <4> QED BY <1>3, <1>9, <1>11, <4>1, SMT
      <3>3. \A r \in Procs : r # q /\ InFlight(r, loc[q].to)' => Spent(r)'.fam # slot[a].fam /\ Spent(r)'.fam # c.fam
        BY <1>6, <2>1, <3>1, SMT DEF InFlight
      <3>4. slot[a].fam < c.fam /\ c.fam = slot[a].fam + 1 /\ slot[a].fam # c.fam
        BY <1>3, <1>11, SMT
      <3>5. /\ loc'[q].to = a /\ loc'[q].tgt = c /\ Spent(q)' = slot[a] /\ newest'[a] = c /\ slot' = slot
        BY <1>3, <1>4, <1>5, <1>6, <1>7, <2>1
      <3> QED BY <3>2, <3>3, <3>4, <3>5, Zenon DEF Flight
    <2>2. CASE q # p
      <3> DEFINE b == loc[q].to
                 t == loc[q].tgt
                 f == Spent(q).fam
      <3>1. loc'[q] = loc[q] /\ Spent(q)' = Spent(q) /\ pc[q] = "persist"
        BY <1>4, <1>13, <2>2, SMT DEF Spent
      <3>2. Flight(q) /\ b \in People
        BY <3>1, InFlightAt
      <3>3. /\ slot[b].fam # t.fam
            /\ \A x \in Circ : x.acct = b => x.fam # t.fam
            /\ slot[b].fam = f \/ \A x \in Circ : x.acct = b => x.fam # f
            /\ \A r \in Procs : r # q /\ InFlight(r, b) => Spent(r).fam # f /\ Spent(r).fam # t.fam
            /\ f < newest[b].fam /\ t.fam = f + 1
            /\ newest[b].fam = t.fam => newest[b] = t
        BY <3>2, Zenon DEF Flight
      <3>4. f < newest'[b].fam /\ (newest'[b].fam = t.fam => newest'[b] = t)
        <4>1. CASE b = a
          <5>1. InFlight(q, a)
            BY <3>1, <4>1 DEF InFlight
          <5>2. /\ f \in Nat /\ t.fam = f + 1 /\ f < newest[a].fam
            BY <1>12, <2>2, <5>1
          <5>3. newest'[b].fam = newest[a].fam + 1
            BY <1>3, <1>5, <4>1
          <5> HIDE DEF f, t, b
          <5> QED BY <1>11, <5>2, <5>3, SMT
        <4>2. CASE b # a
          BY <1>5, <3>2, <3>3, <4>2
        <4> QED BY <4>1, <4>2
      <3>5. \A r \in Procs : r # q /\ InFlight(r, b)' => Spent(r)'.fam # f /\ Spent(r)'.fam # t.fam
        <4>1. ASSUME NEW r \in Procs, r # q, InFlight(r, b)' PROVE Spent(r)'.fam # f /\ Spent(r)'.fam # t.fam
          <5>1. PICK d : d = b
            OBVIOUS
          <5>2. InFlight(r, d)'
            BY <3>1, <4>1, <5>1, SMT DEF InFlight
          <5>3. CASE r = p
            <6>1. d = a
              BY <1>6, <5>2, <5>3, SMT DEF InFlight
            <6>2. InFlight(q, a)
              BY <3>1, <5>1, <6>1 DEF InFlight
            <6> QED BY <1>3, <1>7, <1>12, <2>2, <5>3, <6>2, SMT
          <5>4. CASE r # p
            <6>1. InFlight(r, d) /\ Spent(r)' = Spent(r)
              BY <1>4, <5>2, <5>4, SMT DEF InFlight, Spent
            <6> QED BY <3>3, <4>1, <5>1, <6>1
          <5> QED BY <5>3, <5>4
        <4> QED BY <4>1
      <3>6. slot' = slot
        BY <1>3
      <3> QED BY <1>9, <3>1, <3>3, <3>4, <3>5, <3>6, Zenon DEF Flight
    <2> QED BY <2>1, <2>2
  <1>14. FlightOK'
    BY <1>13, Zenon DEF FlightOK
  <1> QED BY <1>10, <1>14 DEF Kept

\* A write by Claude Code of a credential it was just issued.
LEMMA IssuedKept ==
    ASSUME TypeOK, Files, Ages, Aligned, Kept, NEW a \in People, NEW c \in Creds, Issue(a, c),
           c.acct = a, c.n = newest[a].n + 1, c.fam \in {newest[a].fam, newest[a].fam + 1},
           live' = c, lock = None, gone \subseteq gone',
           UNCHANGED <<slot, prev, stash, staged, journal, committed, pc, loc>>,
           live = newest[a] \/ (live \in gone' /\ c.fam = newest[a].fam + 1)
    PROVE  Kept'
  <1>0. \A b \in People : newest[b].acct = b
    BY DEF Ages
  <1>1. newest' \in [People -> Creds] /\ newest'[a] = c /\ \A b \in People : b # a => newest'[b] = newest[b]
    BY <1>0, Issued
  <1>2. Safe \subseteq Safe'
    BY SMT DEF Safe, Flying
  <1>3. \A q \in Procs : pc[q] # "step5"
    <2>1. \A q \in Procs : pc[q] \notin Locked
      BY ProcsAssumption, SMT DEF Files, LockHeld
    <2> QED BY <2>1, SMT DEF Locked
  <1>4. \A x \in Circ' : x \in Circ \/ x = c
    <2>1. Pending' = Pending /\ StagedCopy' = StagedCopy /\ journal'.credsHash = journal.credsHash
      BY PendingStill
    <2> QED BY <2>1, SMT DEF Circ
  <1>5. \A q \in Procs : \A b : InFlight(q, b)' <=> InFlight(q, b)
    BY SMT DEF InFlight
  <1>6. \A q \in Procs : Spent(q)' = Spent(q)
    BY SMT DEF Spent
  <1>7. NewestKept' /\ RewoundOK'
    <2>1. live' = live \/ live \in Safe' \/ live = newest[a]
      BY DEF Safe
    <2>2. \A q \in Procs : pc'[q] # "step5" => pc[q] # "step5" /\ loc'[q].out = loc[q].out
      BY <1>3
    <2>3. \A q \in Procs : \A b : b # a /\ InFlight(q, b)' => InFlight(q, b) /\ Spent(q)' = Spent(q)
      BY <1>5, <1>6
    <2>4. \A q \in Procs : \A b \in Accounts : loc'[q].prep.slots[b] \in {loc[q].prep.slots[b], slot[b]}
      OBVIOUS
    <2>5. c \in Safe' \/ live' = c
      OBVIOUS
    <2> QED BY <1>1, <1>2, <1>4, <2>1, <2>2, <2>3, <2>4, <2>5, Renewed
  <1>8. newest[a].fam \in Nat /\ c.fam \in Nat
    BY SMT DEF Creds, TypeOK
  <1>9. ASSUME NEW q \in Procs, pc'[q] = "persist" PROVE Flight(q)'
    <2> DEFINE b == loc[q].to
               t == loc[q].tgt
               f == Spent(q).fam
    <2>1. loc'[q] = loc[q] /\ pc[q] = "persist"
      BY <1>9
    <2>2. Flight(q) /\ b \in People /\ f \in Nat
      BY <2>1, InFlightAt
    <2>3. /\ slot[b].fam # t.fam
          /\ \A x \in Circ : x.acct = b => x.fam # t.fam
          /\ slot[b].fam = f \/ \A x \in Circ : x.acct = b => x.fam # f
          /\ \A r \in Procs : r # q /\ InFlight(r, b) => Spent(r).fam # f /\ Spent(r).fam # t.fam
          /\ f < newest[b].fam /\ t.fam = f + 1
          /\ newest[b].fam = t.fam => newest[b] = t
      BY <2>2, Zenon DEF Flight
    <2>4. b = a => c.fam # t.fam /\ c.fam # f /\ f < c.fam
      <3>1. b = a /\ c.fam = newest[a].fam => newest[a].fam # t.fam
        <4>1. CASE live = newest[a]
          <5>1. live \in Circ /\ live.acct = a
            BY <1>0, <4>1, SMT DEF Circ
          <5> QED BY <2>3, <4>1, <5>1
        <4>2. CASE c.fam = newest[a].fam + 1
          BY <1>8, <4>2, SMT
        <4> QED BY <4>1, <4>2
      <3>2. b = a => f < newest[a].fam
        BY <2>3
      <3>3. t.fam = f + 1
        BY <2>3
      <3> HIDE DEF b, t, f
      <3> QED BY <1>8, <2>2, <3>1, <3>2, <3>3, SMT
    <2>5. f < newest'[b].fam /\ (newest'[b].fam = t.fam => newest'[b] = t)
      BY <1>1, <2>2, <2>3, <2>4
    <2>6. /\ \A x \in Circ' : x.acct = b => x.fam # t.fam
          /\ slot[b].fam = f \/ \A x \in Circ' : x.acct = b => x.fam # f
      <3> HIDE DEF b, t, f
      <3> QED BY <1>4, <2>3, <2>4
    <2>7. \A r \in Procs : r # q /\ InFlight(r, b)' => Spent(r)'.fam # f /\ Spent(r)'.fam # t.fam
      BY <1>6, <2>1, <2>3, SMT DEF InFlight
    <2>8. Spent(q)' = Spent(q)
      BY <1>6
    <2> QED BY <2>1, <2>3, <2>5, <2>6, <2>7, <2>8, Zenon DEF Flight
  <1>10. FlightOK'
    BY <1>9, Zenon DEF FlightOK
  <1> QED BY <1>7, <1>10 DEF Kept

\* Claude Code's own refresh or a login in it loses no newest credential.
LEMMA ClaudeCodeKept ==
    ASSUME TypeOK, Files, Ages, Aligned, Kept, ccRefresh \/ \E a \in LoginAccounts : ccLogin(a)
    PROVE  Kept'
  <1>0. \A a \in People : newest[a].acct = a
    BY Zenon DEF Ages
  <1>1. CASE ccRefresh
    <2>1. PICK c \in Creds :
             /\ Issue(live.acct, c) /\ live' = c /\ live.acct \in People /\ live = newest[live.acct]
             /\ c.acct = live.acct /\ c.n = newest[live.acct].n + 1 /\ c.fam \in {newest[live.acct].fam, newest[live.acct].fam + 1}
             /\ lock = None /\ UNCHANGED <<slot, prev, stash, staged, journal, committed, pc, loc, gone>>
      BY <1>0, <1>1, Refreshed, Zenon
    <2> QED BY <2>1, IssuedKept
  <1>2. ASSUME NEW a \in LoginAccounts, ccLogin(a) PROVE Kept'
    <2> DEFINE c == Rotated(newest[a])
    <2>1. /\ a \in People /\ c \in Creds /\ Issue(a, c) /\ live' = c
          /\ c.acct = a /\ c.n = newest[a].n + 1 /\ c.fam = newest[a].fam + 1
          /\ lock = None /\ gone' = gone \cup ({live} \ {Wiped})
          /\ UNCHANGED <<slot, prev, stash, staged, journal, committed, pc, loc>>
      BY <1>0, <1>2, LoggedInAs, SMT
    <2>2. live \in gone' /\ gone \subseteq gone'
      <3>1. live # Wiped
        BY NotCreds DEF Aligned, SlotOwn
      <3> QED BY <2>1, <3>1
    <2> HIDE DEF c
    <2> QED BY <2>1, <2>2, IssuedKept
  <1> QED BY <1>1, <1>2

\* Every step that does not misadopt keeps every newest credential.
LEMMA KeptNext == ASSUME TypeOK, TypeOK', Files, Ages, Aligned, Kept, Next, ~misadopted' PROVE Kept'
  <1>1. ASSUME NEW p \in Procs, Step(p) PROVE Kept'
    <2>1. CASE acquire(p)
      BY <2>1, OutsideKept
    <2>2. CASE p \in Switchers /\ SwitchStep(p)
      <3>1. CASE start(p) \/ prepareClaudeSwitch(p) \/ alreadyFresh(p) \/ refuse(p)
        BY <2>2, <3>1, OutsideKept
      <3>2. CASE postRefresh(p) \/ persistRefresh(p)
        BY <2>2, <3>2, PostKept, PersistKept
      <3>3. CASE step4(p) \/ step5(p) \/ step6(p) \/ writeStagedRollback(p) \/ stageFailed(p)
        BY <2>2, <3>3, Step4Kept, Step5Kept, Step6Kept, StagedKept, EndedKept
      <3>4. CASE intent7(p) \/ write7(p) \/ mark7(p) \/ intent8(p) \/ write8(p) \/ commit9(p)
        BY <3>4, Intent7Kept, Write7Kept, Mark7Kept, Intent8Kept, Write8Kept
      <3>5. CASE rollbackSource(p) \/ rollbackConfig(p) \/ rollbackLive(p)
        BY <3>5, RollbackKept, RollbackLiveKept
      <3> QED BY <2>2, <3>1, <3>2, <3>3, <3>4, <3>5, Zenon DEF SwitchStep
    <2>3. CASE p \notin Switchers /\ RecoveryStep(p)
      <3>1. CASE beginRecovery(p) \/ giveUpRecovery(p)
        BY <3>1, OutsideKept
      <3>2. CASE restoreLiveFromStaged(p) \/ resolveBackLive(p)
        BY <3>2, RecLiveKept
      <3>3. CASE reconcileConfig(p) \/ resolveBackConfig(p) \/ resolveForwardWrite(p) \/ recheck(p)
        BY <3>3, ConfigKept
      <3>4. CASE resolveForwardConfig(p) \/ resolveForwardCommit(p)
        BY <3>4, FwdConfigKept, Write8Kept
      <3> QED BY <2>3, <3>1, <3>2, <3>3, <3>4, Zenon DEF RecoveryStep
    <2>4. CASE markCommitted(p) \/ markClosed(p) \/ deleteStagedRollback(p) \/ deleteClaudeSwitchJournal(p)
      BY <2>4, EndedKept, TidyKept
    <2> QED BY <1>1, <2>1, <2>2, <2>3, <2>4, Zenon DEF Step
  <1>2. ASSUME NEW p \in Procs, crash(p) PROVE Kept'
    BY <1>2, CrashKept
  <1>3. CASE lockStale \/ ccRefresh \/ ccSettings
    BY <1>3, ElsewhereKept, ClaudeCodeKept
  <1>4. ASSUME NEW a \in LoginAccounts, ccLogin(a) PROVE Kept'
    BY <1>4, ClaudeCodeKept
  <1> QED BY <1>1, <1>2, <1>3, <1>4, Zenon DEF Next

\* Every newest credential is kept initially.
LEMMA KeptInit == ASSUME Init PROVE Kept
  <1>1. \A a \in People : First(a) \in Creds /\ First(a).acct = a
    BY SMT DEF First, Creds
  <1>2. /\ live = First(active) /\ active \in Accounts /\ journal = None /\ gone = {First(Alien)}
        /\ \A a \in Accounts : slot[a] = First(a) /\ prev[a] = Wiped
        /\ \A a \in People : newest[a] = First(a)
        /\ \A p \in Procs : loc[p] = NoLocals /\ pc[p] \notin {"persist", "step5"}
    BY SMT DEF Init
  <1>3. \A a \in People : Held(a)
    BY <1>2, SMT DEF Held, People
  <1>4. ~Pending
    BY <1>2, SMT DEF Pending, Unfinished
  <1>5. ASSUME NEW p \in Procs
        PROVE  HeldIfNewest(loc[p].out) /\ \A a \in Accounts : HeldIfNewest(loc[p].prep.slots[a])
    BY <1>2, EmptyLoc, NothingHeld, SMT
  <1>6. NewestKept
    BY <1>3, <1>4, <1>5, SMT DEF NewestKept
  <1>7. \A a \in Accounts : ~Rewound(a)
    <2>1. ASSUME NEW a \in Accounts, Rewound(a) PROVE FALSE
      <3>1. First(a) \in Creds
        BY <1>1 DEF People
      <3>2. Wiped = First(a)
        BY <1>2, <2>1, SMT DEF Rewound, People
      <3> QED BY <3>1, <3>2, NotCreds, Zenon
    <2> QED BY <2>1
  <1>8. RewoundOK
    BY <1>7 DEF RewoundOK
  <1>9. FlightOK
    BY <1>2, SMT DEF FlightOK
  <1> QED BY <1>6, <1>8, <1>9 DEF Kept

\* A stuttering step keeps every newest credential.
LEMMA KeptQuiet == ASSUME Ages, Aligned, Kept, UNCHANGED vars PROVE Kept'
  BY StillKept

\* What the properties say follows from the invariant.
LEMMA KeptStored == ASSUME Kept PROVE \A a \in People : newest[a] \in Stored \cup gone
  BY SMT DEF Kept, NewestKept, Held, Stored, Flying

\* Unless an unresolved credential was adopted into another account's slot, the newest
\* credential of every account is live, in a slot or its ':prev', stashed, staged, in flight, or
\* was discarded by Claude Code or the death of its only holder: neither a switch nor a rollback
\* nor a recovery overwrites the last copy.
THEOREM NoCredentialLostHolds == Spec => []NoCredentialLost
  <1> DEFINE Inv == TypeOK /\ Files /\ Ages /\ (~misadopted => Aligned /\ Kept)
  <1>1. Init => Inv
    BY FilesInit, AgesInit, AlignedInit, KeptInit
  <1>2. Inv /\ [Next]_vars => Inv'
    <2>1. ASSUME Inv, Next PROVE Inv'
      BY <2>1, FilesStep, AgesStep, AlignedStep, MisadoptedStays, KeptNext
    <2>2. ASSUME Inv, UNCHANGED vars PROVE Inv'
      BY <2>2, Quiet, AgesQuiet, AlignedQuiet, KeptQuiet, SMT DEF TypeOK
    <2> QED BY <2>1, <2>2
  <1>3. Inv => NoCredentialLost
    BY KeptStored DEF NoCredentialLost
  <1> QED BY <1>1, <1>2, <1>3, PTL DEF Spec

\* The three safety properties of the switch together, for every set of accounts, switchers
\* and daemons and every bound (SwitchSafe of the run).
THEOREM SwitchSafeHolds == Spec => []SwitchSafe
  BY AtRestAlignedHolds, NoCredentialLostHolds, RollbackCopyKeptHolds, PTL DEF SwitchSafe

-----------------------------------------------------------------------------
\* The atomicity part, for as long as nobody logs in with Claude Code: seen through the
\* journal, the three stores name one account. The switch implements AtomicSwitch.

\* What the outside sees names the active login: the outgoing account while a
\* switch is pending, whatever its own writes have done so far.
Anchored == IF Pending THEN StagedCopy.acct = active /\ Untouched ELSE live.acct = active

\* The journal at work was written for the active login.
Agreed == Unfinished => /\ journal.from = active
                        /\ journal.republish => journal.to = active

\* What Steady adds at the labels from which a switch goes on without looking again.
Special == {"step5", "step6", "close", "backLive"}

\* A step 5 starts from the active login; a journal is closed, and the live credential is
\* restored by resolve --back, at the active login.
Entry(p) ==
    /\ pc[p] \in {"step5", "step6"} => loc[p].from = active
    /\ pc[p] = "close" => live.acct = active
    /\ pc[p] = "backLive" /\ Pending => config.oauth = active

\* The atomicity part of the inductive invariant, for as long as nobody logs in.
Steady == Anchored /\ Agreed /\ \A p \in Procs : Entry(p)

\* Elsewhere nothing is added.
LEMMA EntryElsewhere == ASSUME NEW q \in Procs, pc'[q] \notin Special PROVE Entry(q)'
  BY SMT DEF Entry, Special

\* The accounts seen from outside stand still.
LEMMA AnchorStill ==
    ASSUME Steady, live'.acct = live.acct, config'.oauth = config.oauth,
           UNCHANGED <<journal, staged, committed, active>>
    PROVE  Anchored' /\ Agreed' /\ Pending' = Pending
  <1>1. Pending' = Pending /\ StagedCopy' = StagedCopy
    BY PendingStill
  <1>2. Unfinished' = Unfinished
    BY SMT DEF Unfinished, finished
  <1>3. Anchored'
    BY <1>1, SMT DEF Steady, Anchored, Untouched
  <1>4. Agreed'
    BY <1>2, SMT DEF Steady, Agreed
  <1> QED BY <1>1, <1>3, <1>4

\* A step of one process that leaves those accounts alone.
LEMMA CalmSteady ==
    ASSUME Steady, NEW p \in Procs, live'.acct = live.acct, config'.oauth = config.oauth,
           UNCHANGED <<journal, staged, committed, active>>,
           \A q \in Procs : q # p => pc'[q] = pc[q] /\ loc'[q] = loc[q],
           Entry(p)'
    PROVE  Steady'
  <1>1. Anchored' /\ Agreed' /\ Pending' = Pending
    BY AnchorStill
  <1>2. ASSUME NEW q \in Procs, q # p PROVE Entry(q)'
    <2>1. Entry(q)
      BY DEF Steady
    <2> QED BY <1>1, <1>2, <2>1, SMT DEF Entry
  <1> QED BY <1>1, <1>2 DEF Steady

\* The same, for a process that goes to a label of no interest.
LEMMA WalkSteady ==
    ASSUME TypeOK, Steady, NEW p \in Procs, live'.acct = live.acct, config'.oauth = config.oauth,
           UNCHANGED <<journal, staged, committed, active>>,
           Finish(p) \/ \E label : label \notin Special /\ Goto(p, label),
           UNCHANGED loc \/ \E l : Set(p, l)
    PROVE  Steady'
  <1>1. CASE Finish(p)
    <2>1. pc'[p] \notin Special /\ \A q \in Procs : q # p => pc'[q] = pc[q] /\ loc'[q] = loc[q]
      BY <1>1, FinishTyped, SMT DEF Special
    <2>2. Entry(p)'
      BY <2>1, EntryElsewhere
    <2> QED BY <2>1, <2>2, CalmSteady
  <1>2. ASSUME NEW label, label \notin Special, Goto(p, label) PROVE Steady'
    <2>1. PICK l : UNCHANGED loc \/ Set(p, l)
      OBVIOUS
    <2>2. pc'[p] = label /\ \A q \in Procs : q # p => pc'[q] = pc[q] /\ loc'[q] = loc[q]
      BY <1>2, <2>1, OthersStay
    <2>3. Entry(p)'
      BY <1>2, <2>2, EntryElsewhere
    <2> QED BY <2>2, <2>3, CalmSteady
  <1> QED BY <1>1, <1>2

\* A step of the lock holder: nobody else is at a label of interest.
LEMMA HolderSteady ==
    ASSUME Files, NEW p \in Procs, pc[p] \in Locked, \A q \in Procs : q # p => pc'[q] = pc[q],
           Anchored', Agreed', Entry(p)'
    PROVE  Steady'
  <1>1. ASSUME NEW q \in Procs, q # p PROVE Entry(q)'
    <2>1. pc[q] \notin Locked
      BY <1>1, Solo
    <2>2. pc'[q] \notin Special
      BY <1>1, <2>1, SMT DEF Special, Locked
    <2> QED BY <2>2, EntryElsewhere
  <1> QED BY <1>1 DEF Steady

\* The same, for a holder that goes to a label of no interest.
LEMMA GoSteady ==
    ASSUME TypeOK, Files, NEW p \in Procs, pc[p] \in Locked, Anchored', Agreed',
           Finish(p) \/ \E label : label \notin Special /\ Goto(p, label)
    PROVE  Steady'
  <1>1. CASE Finish(p)
    <2>1. pc'[p] \notin Special /\ \A q \in Procs : q # p => pc'[q] = pc[q]
      BY <1>1, FinishTyped, SMT DEF Special
    <2> QED BY <2>1, EntryElsewhere, HolderSteady
  <1>2. ASSUME NEW label, label \notin Special, Goto(p, label) PROVE Steady'
    <2>2. pc'[p] = label /\ \A q \in Procs : q # p => pc'[q] = pc[q]
      BY <1>2, SMT DEF Goto, TypeOK
    <2> QED BY <1>2, <2>2, EntryElsewhere, HolderSteady
  <1> QED BY <1>1, <1>2

\* Phase A, the start of a recovery and a crash leave the accounts alone.
LEMMA OutsideSteady ==
    ASSUME TypeOK, Steady, NEW p \in Procs,
           \/ start(p) \/ prepareClaudeSwitch(p) \/ postRefresh(p) \/ alreadyFresh(p) \/ persistRefresh(p) \/ refuse(p)
           \/ acquire(p) \/ beginRecovery(p) \/ giveUpRecovery(p) \/ crash(p) \/ recheck(p) \/ rollbackSource(p)
    PROVE  Steady' /\ misadopted' = misadopted
  <1>1. UNCHANGED <<live, config, active, staged, journal, committed, misadopted>>
    BY Zenon DEF start, prepareClaudeSwitch, postRefresh, alreadyFresh, persistRefresh, refuse, acquire,
         beginRecovery, giveUpRecovery, crash, recheck, rollbackSource
  <1>2. Finish(p) \/ \E label \in (LockFree \cup Locked) \ Special : Goto(p, label)
    <2>1. \A label \in {"idle", "start", "prepare", "freshen", "persist", "lock", "crashed", "recheck", "step4",
                        "recLive", "backConfig", "fwdConfig", "rbConfig"} : label \in (LockFree \cup Locked) \ Special
      BY SMT DEF LockFree, Locked, Special
    <2>2. Finish(p) \/ \E label \in {"idle", "start", "prepare", "freshen", "persist", "lock", "crashed", "recheck", "step4",
                        "recLive", "backConfig", "fwdConfig", "rbConfig"} : Goto(p, label)
      <3>1. CASE start(p) \/ prepareClaudeSwitch(p) \/ postRefresh(p) \/ alreadyFresh(p) \/ persistRefresh(p) \/ refuse(p)
        BY <3>1, Zenon DEF start, prepareClaudeSwitch, postRefresh, alreadyFresh, persistRefresh, refuse
      <3>2. CASE acquire(p)
        <4>1. PICK label : Goto(p, label) /\ label = IF p \in Switchers THEN "step4" ELSE "recheck"
          BY <3>2, Zenon DEF acquire
        <4> QED BY <4>1, SMT
      <3>3. CASE beginRecovery(p) \/ giveUpRecovery(p) \/ crash(p) \/ recheck(p) \/ rollbackSource(p)
        BY <3>3, Zenon DEF beginRecovery, giveUpRecovery, crash, recheck, rollbackSource
      <3> QED BY <3>1, <3>2, <3>3
    <2> QED BY <2>1, <2>2
  <1>3. UNCHANGED loc \/ \E l : Set(p, l)
    <2>1. Finish(p) => \E l : Set(p, l)
      BY Zenon DEF Finish
    <2>2. Finish(p) \/ UNCHANGED loc \/ \E l : Set(p, l)
      BY Zenon DEF start, prepareClaudeSwitch, postRefresh, alreadyFresh, persistRefresh, refuse, acquire,
         beginRecovery, giveUpRecovery, crash, recheck, rollbackSource
    <2> QED BY <2>1, <2>2
  <1> QED BY <1>1, <1>2, <1>3, WalkSteady

\* Step 4 keeps the atomicity part.
LEMMA Step4Steady == ASSUME TypeOK, Steady, NEW p \in Procs, step4(p) PROVE Steady' /\ misadopted' = misadopted
  <1>1. UNCHANGED <<live, config, active, staged, journal, committed, misadopted>>
    BY Zenon DEF step4
  <1>2. CASE Goto(p, "step5") /\ Set(p, [loc[p] EXCEPT !.from = active, !.out = live,
                                         !.republish = @ \/ active = loc[p].to])
    <2>1. loc'[p].from = active /\ pc'[p] = "step5" /\ \A q \in Procs : q # p => loc'[q] = loc[q] /\ pc'[q] = pc[q]
      BY <1>2, OutgoingLoc
    <2>2. Entry(p)'
      BY <1>1, <2>1, SMT DEF Entry
    <2> QED BY <1>1, <2>1, <2>2, CalmSteady
  <1>3. CASE Finish(p)
    <2>1. \E l : Set(p, l)
      BY <1>3, Zenon DEF Finish
    <2> QED BY <1>1, <1>3, <2>1, WalkSteady
  <1>4. CASE Goto(p, "unstage4") /\ UNCHANGED loc
    BY <1>1, <1>4, WalkSteady, SMT DEF Special
  <1>5. CASE Goto(p, "start") /\ \E l : Set(p, l)
    BY <1>1, <1>5, WalkSteady, SMT DEF Special
  <1> QED BY <1>2, <1>3, <1>4, <1>5, Zenon DEF step4

\* Without a login the live credential at step 5 is the outgoing account's.
LEMMA Step5Steady ==
    ASSUME TypeOK, Files, Aligned, Steady, NEW p \in Procs, step5(p), ~misadopted
    PROVE  Steady' /\ ~misadopted'
  <1>0. UNCHANGED <<live, config, active, staged, journal, committed>> /\ pc[p] = "step5"
    BY Zenon DEF step5
  <1>1. loc[p].from = active /\ live = loc[p].out
    BY <1>0, SMT DEF Steady, Entry, Aligned, SectionAligned
  <1>2. live.acct = active
    <2>1. ~Pending
      BY <1>0, SMT DEF Files, SectionFile, Pending, Unfinished
    <2> QED BY <2>1 DEF Steady, Anchored
  <1>3. CASE Finish(p) /\ UNCHANGED misadopted
    <2>1. \E l : Set(p, l)
      BY <1>3, Zenon DEF Finish
    <2> QED BY <1>0, <1>3, <2>1, WalkSteady
  <1>4. CASE Goto(p, "step6") /\ UNCHANGED loc /\ \E k : misadopted' = (misadopted \/ (k /\ loc[p].out.acct # loc[p].from))
    <2>1. pc'[p] = "step6" /\ \A q \in Procs : q # p => loc'[q] = loc[q] /\ pc'[q] = pc[q]
      BY <1>4, OthersStay
    <2>2. Entry(p)'
      BY <1>0, <1>1, <1>4, <2>1, SMT DEF Entry
    <2>3. ~misadopted'
      BY <1>1, <1>2, <1>4, Zenon
    <2> QED BY <1>0, <2>1, <2>2, <2>3, CalmSteady
  <1> QED BY <1>3, <1>4, Zenon DEF step5

\* Step 6 keeps the atomicity part: the journal it creates names the active login.
LEMMA Step6Steady ==
    ASSUME TypeOK, Files, Aligned, Steady, NEW p \in Procs, step6(p)
    PROVE  Steady' /\ misadopted' = misadopted
  <1>0. UNCHANGED <<live, config, active, staged, committed, misadopted>> /\ pc[p] = "step6"
    BY Zenon DEF step6
  <1>a. pc[p] \in Locked
    BY <1>0, SMT DEF Locked
  <1>1. CASE Finish(p) /\ UNCHANGED journal
    <2>1. \E l : Set(p, l)
      BY <1>1, Zenon DEF Finish
    <2> QED BY <1>0, <1>1, <2>1, WalkSteady
  <1>2. CASE /\ journal' = [attempt |-> p, from |-> loc[p].from, to |-> loc[p].to,
                            republish |-> loc[p].republish, undo |-> NoUndo, credsHash |-> None,
                            credsWritten |-> FALSE, closed |-> "open", committed |-> FALSE]
             /\ Goto(p, "stage")
    <2>1. loc[p].from = active /\ (loc[p].republish <=> loc[p].from = loc[p].to)
      BY <1>0, SMT DEF Steady, Entry, Aligned, SectionAligned
    <2>2. live.acct = active
      <3>1. ~Pending
        BY <1>0, SMT DEF Files, SectionFile, Pending, Unfinished
      <3> QED BY <3>1 DEF Steady, Anchored
    <2>3. Anchored'
      <3>1. ~Pending'
        BY <1>2, SMT DEF Pending, NoUndo
      <3> QED BY <1>0, <2>2, <3>1, SMT DEF Anchored
    <2>4. Agreed'
      BY <1>0, <1>2, <2>1, SMT DEF Agreed
    <2> QED BY <1>0, <1>a, <1>2, <2>3, <2>4, GoSteady, SMT DEF Special
  <1> QED BY <1>1, <1>2, Zenon DEF step6

\* What a switch in its own section knows of the accounts.
LEMMA OwnSteady ==
    ASSUME TypeOK, Files, Aligned, Steady, NEW p \in Procs, pc[p] \in Own
    PROVE  /\ journal.from = active /\ (journal.republish => journal.to = active)
           /\ Pending => StagedCopy.acct = active /\ Untouched
           /\ ~Pending => live.acct = active
           /\ pc[p] \notin {"stage", "stagefail"} /\ Pending => loc[p].out.acct = active
           /\ Unfinished /\ journal # None /\ pc[p] \in Locked
  BY OwnAt, SMT DEF Steady, Anchored, Agreed, Unfinished

\* The staged copy is written before anything outside has changed.
LEMMA StagedSteady ==
    ASSUME TypeOK, Files, Aligned, Steady, NEW p \in Procs, writeStagedRollback(p)
    PROVE  Steady' /\ misadopted' = misadopted
  <1>0. UNCHANGED <<live, config, active, journal, committed, loc, misadopted>> /\ pc[p] = "stage"
    BY Zenon DEF writeStagedRollback
  <1>a. pc[p] \in Own /\ pc[p] \in Locked
    BY <1>0, SMT DEF Own, Locked
  <1>1. ~Pending
    BY <1>0, SMT DEF Files, SectionFile, Pending
  <1>2. ~Pending' /\ Unfinished' = Unfinished
    BY <1>0, <1>1, SMT DEF Pending, Unfinished, finished
  <1>3. Anchored' /\ Agreed'
    BY <1>0, <1>1, <1>2, SMT DEF Steady, Anchored, Agreed
  <1>4. PICK label \in {"intent7", "stagefail"} : Goto(p, label)
    BY Zenon DEF writeStagedRollback, Effect
  <1> QED BY <1>0, <1>a, <1>3, <1>4, GoSteady, SMT DEF Special

\* Ending and tidying away a journal.
LEMMA EndedSteady ==
    ASSUME TypeOK, Files, Aligned, Steady, NEW p \in Procs,
           stageFailed(p) \/ markCommitted(p) \/ markClosed(p)
    PROVE  Steady' /\ misadopted' = misadopted
  <1>0. /\ UNCHANGED <<live, config, active, staged, committed, misadopted>>
        /\ pc[p] \in {"stagefail", "committed", "close"}
    BY Zenon DEF stageFailed, markCommitted, markClosed
  <1>a. pc[p] \in Locked
    BY <1>0, SMT DEF Locked
  <1>b. KeptFile(journal, journal') /\ journal'.undo = journal.undo
    BY EndedFile
  <1>1. Finish(p) \/ Goto(p, "unstage")
    BY Zenon DEF stageFailed, markCommitted, markClosed, LastEffect
  <1>2. journal # None
    BY <1>0, SMT DEF Files, SectionFile, Own, Closing
  <1>3. live.acct = active
    <2>1. pc[p] # "close" => ~Pending
      BY <1>0, SMT DEF Files, SectionFile, Pending, Unfinished
    <2> QED BY <1>0, <2>1, SMT DEF Steady, Anchored, Entry
  <1>4. journal' = journal \/ finished(journal)'
    <2>1. PICK j : j = [journal EXCEPT !.closed = "stage-failed"] \/ j = [journal EXCEPT !.committed = TRUE]
                   \/ j = [journal EXCEPT !.closed = "rolled-back"]
      OBVIOUS
    <2>2. /\ journal \in Journals
      BY <1>2, SMT DEF TypeOK
    <2>3. CASE stageFailed(p)
      <3>1. journal' = journal \/ journal' = [journal EXCEPT !.closed = "stage-failed"]
        BY <2>3, Zenon DEF stageFailed, LastEffect
      <3> QED BY <2>2, <3>1, JournalClosed, SMT DEF finished
    <2>4. CASE markCommitted(p)
      <3>1. journal' = journal \/ journal' = [journal EXCEPT !.committed = TRUE]
        BY <2>4, Zenon DEF markCommitted, LastEffect
      <3> QED BY <2>2, <3>1, JournalCommitted, SMT DEF finished
    <2>5. CASE markClosed(p)
      <3>1. journal' = journal \/ journal' = [journal EXCEPT !.closed = "rolled-back"]
        BY <2>5, Zenon DEF markClosed, LastEffect
      <3> QED BY <2>2, <3>1, JournalClosed, SMT DEF finished
    <2> QED BY <2>3, <2>4, <2>5
  <1>5. CASE journal' = journal
    <2>1. Anchored' /\ Agreed'
      BY <1>0, <1>5, AnchorStill
    <2> QED BY <1>0, <1>a, <1>1, <2>1, GoSteady, SMT DEF Special
  <1>6. CASE finished(journal)'
    <2>1. ~Unfinished' /\ ~Pending'
      BY <1>6, SMT DEF Unfinished, Pending
    <2>2. Anchored' /\ Agreed'
      BY <1>0, <1>3, <2>1, SMT DEF Anchored, Agreed
    <2> QED BY <1>0, <1>a, <1>1, <2>2, GoSteady, SMT DEF Special
  <1> QED BY <1>4, <1>5, <1>6

\* Tidying away a finished journal shows nothing outside.
LEMMA TidySteady ==
    ASSUME TypeOK, Files, Aligned, Steady, NEW p \in Procs,
           deleteStagedRollback(p) \/ deleteClaudeSwitchJournal(p)
    PROVE  Steady' /\ misadopted' = misadopted
  <1>0. /\ UNCHANGED <<live, config, active, committed, misadopted>>
        /\ pc[p] \in {"unstage", "unstage4", "remove", "remove4"}
        /\ journal' \in {journal, None}
    BY Zenon DEF deleteStagedRollback, deleteClaudeSwitchJournal, LastEffect
  <1>a. pc[p] \in Locked
    BY <1>0, SMT DEF Locked
  <1>1. finished(journal) /\ ~Pending
    BY <1>0, OverAligned, SMT
  <1>2. ~Unfinished' /\ ~Pending'
    BY <1>0, <1>1, SMT DEF Unfinished, Pending, finished
  <1>3. Anchored' /\ Agreed'
    BY <1>0, <1>1, <1>2, SMT DEF Steady, Anchored, Agreed
  <1>4. Finish(p) \/ \E label \in {"remove", "remove4", "step4"} : Goto(p, label)
    <2>1. CASE deleteStagedRollback(p)
      <3>1. PICK label : label = IF pc[p] = "unstage" THEN "remove" ELSE "remove4"
        OBVIOUS
      <3>2. Finish(p) \/ Goto(p, label)
        BY <2>1, <3>1, Zenon DEF deleteStagedRollback, LastEffect
      <3> QED BY <3>1, <3>2
    <2>2. CASE deleteClaudeSwitchJournal(p)
      BY <2>2, Zenon DEF deleteClaudeSwitchJournal
    <2> QED BY <2>1, <2>2
  <1> QED BY <1>0, <1>a, <1>3, <1>4, GoSteady, SMT DEF Special

\* A pending switch goes on, and what it shows the outside is still the outgoing account.
LEMMA StillPending ==
    ASSUME Steady, Pending, Pending', Untouched', UNCHANGED <<staged, active>>,
           journal'.attempt = journal.attempt, journal'.from = journal.from, journal'.to = journal.to,
           journal'.republish = journal.republish
    PROVE  Anchored' /\ Agreed'
  <1>1. Unfinished
    BY DEF Pending
  <1> QED BY <1>1, SMT DEF Steady, Anchored, Agreed, StagedCopy

\* A switch is not pending, and its file stays as it is.
LEMMA StillResting ==
    ASSUME Steady, ~Pending, live' = live, UNCHANGED <<journal, staged, committed, active>>
    PROVE  Anchored' /\ Agreed'
  <1>1. Pending' = Pending /\ Unfinished' = Unfinished
    BY SMT DEF Pending, Unfinished, finished
  <1> QED BY <1>1, SMT DEF Steady, Anchored, Agreed

\* With step 7's intent on file, the staged copy stands for the live credential.
LEMMA Intent7Steady ==
    ASSUME TypeOK, Files, Aligned, Steady, NEW p \in Procs, intent7(p)
    PROVE  Steady' /\ misadopted' = misadopted
  <1>0. UNCHANGED <<live, config, active, staged, committed, misadopted>> /\ pc[p] = "intent7"
    BY Zenon DEF intent7
  <1>a. pc[p] \in Own /\ pc[p] \in Locked
    BY <1>0, SMT DEF Own, Locked
  <1>1. PICK label \in {"write7", "rollback"} : Goto(p, label)
    BY Zenon DEF intent7, Effect
  <1>2. journal' = journal \/ CredsStarted(journal, loc[p].tgt, journal')
    BY Intent7File
  <1>3. CASE journal' = journal
    <2>1. Anchored' /\ Agreed'
      BY <1>0, <1>3, AnchorStill
    <2> QED BY <1>0, <1>a, <1>1, <2>1, GoSteady, SMT DEF Special
  <1>4. CASE CredsStarted(journal, loc[p].tgt, journal')
    <2>1. ~Pending /\ StagedCopy = loc[p].out /\ live = loc[p].out /\ live.acct = config.oauth
      <3>1. ~Pending /\ StagedCopy = loc[p].out
        BY <1>0, <1>a, OwnAt, SMT DEF Files, SectionFile
      <3>2. live = loc[p].out
        BY <1>0, <1>a, OwnAt, Zenon DEF SectionAligned
      <3> QED BY <1>a, <3>1, <3>2, OwnAt, Zenon DEF FileAligned
    <2>2. live.acct = active /\ journal.from = active /\ (journal.republish => journal.to = active)
      BY <1>a, <2>1, OwnSteady
    <2>3. /\ journal'.attempt = journal.attempt /\ journal'.from = journal.from /\ journal'.to = journal.to
          /\ journal'.republish = journal.republish
      BY <1>4, Zenon DEF CredsStarted, SameFile
    <2>4. StagedCopy' = StagedCopy
      BY <1>0, <2>3, SMT DEF StagedCopy
    <2>5. Anchored'
      BY <1>0, <2>1, <2>2, <2>4, SMT DEF Anchored, Untouched
    <2>6. Agreed'
      BY <1>0, <2>2, <2>3, SMT DEF Agreed
    <2> QED BY <1>0, <1>a, <1>1, <2>5, <2>6, GoSteady, SMT DEF Special
  <1> QED BY <1>2, <1>3, <1>4

\* Step 7's write is hidden by the pending journal.
LEMMA Write7Steady ==
    ASSUME TypeOK, Files, Aligned, Steady, NEW p \in Procs, write7(p)
    PROVE  Steady' /\ misadopted' = misadopted
  <1>0. /\ UNCHANGED <<config, active, staged, journal, committed, misadopted>> /\ pc[p] = "write7"
        /\ live' \in {live, loc[p].tgt}
    BY Zenon DEF write7, Effect
  <1>a. pc[p] \in Own /\ pc[p] \in Locked
    BY <1>0, SMT DEF Own, Locked
  <1>1. PICK label \in {"mark7", "rollback"} : Goto(p, label)
    BY Zenon DEF write7, Effect
  <1>2. Pending /\ loc[p].tgt.acct = journal.to
    BY <1>0, <1>a, OwnAt, SMT DEF Files, SectionFile
  <1>3. Pending' /\ StagedCopy' = StagedCopy
    BY <1>0, <1>2, PendingStill
  <1>4. Untouched'
    BY <1>0, <1>2, <1>3, SMT DEF Steady, Anchored, Untouched
  <1>5. Anchored' /\ Agreed'
    BY <1>0, <1>2, <1>3, <1>4, StillPending
  <1> QED BY <1>0, <1>a, <1>1, <1>5, GoSteady, SMT DEF Special

\* Marking step 7's write changes nothing outside.
LEMMA Mark7Steady ==
    ASSUME TypeOK, Files, Aligned, Steady, NEW p \in Procs, mark7(p)
    PROVE  Steady' /\ misadopted' = misadopted
  <1>0. UNCHANGED <<live, config, active, staged, committed, misadopted>> /\ pc[p] = "mark7"
    BY Zenon DEF mark7
  <1>a. pc[p] \in Own /\ pc[p] \in Locked
    BY <1>0, SMT DEF Own, Locked
  <1>1. PICK label \in {"rollback", "intent8"} : Goto(p, label)
    BY Zenon DEF mark7, Effect
  <1>2. /\ journal'.attempt = journal.attempt /\ journal'.from = journal.from /\ journal'.to = journal.to
        /\ journal'.republish = journal.republish /\ journal' # None /\ journal'.undo = journal.undo
        /\ journal'.committed = journal.committed /\ journal'.closed = journal.closed
    BY Mark7File, Zenon DEF KeptFile, SameFile
  <1>3. Pending
    BY <1>0, <1>a, OwnAt, SMT DEF Files, SectionFile
  <1>4. Pending' /\ StagedCopy' = StagedCopy
    BY <1>0, <1>2, <1>3, SMT DEF Pending, StagedCopy, Unfinished, finished
  <1>5. Untouched'
    BY <1>0, <1>2, <1>3, <1>4, SMT DEF Steady, Anchored, Untouched
  <1>6. Anchored' /\ Agreed'
    BY <1>0, <1>2, <1>3, <1>4, <1>5, StillPending
  <1> QED BY <1>0, <1>a, <1>1, <1>6, GoSteady, SMT DEF Special

\* With step 8's intent on file, the text it keeps stands for the config.
LEMMA Intent8Steady ==
    ASSUME TypeOK, Files, Aligned, Steady, NEW p \in Procs, intent8(p)
    PROVE  Steady' /\ misadopted' = misadopted
  <1>0. UNCHANGED <<live, config, active, staged, committed, misadopted>> /\ pc[p] = "intent8"
    BY Zenon DEF intent8
  <1>a. pc[p] \in Own /\ pc[p] \in Locked
    BY <1>0, SMT DEF Own, Locked
  <1>1. PICK label \in {"rollback", "write8"} : Goto(p, label)
    BY Zenon DEF intent8, Effect
  <1>2. PICK v : v = ConfigIntent(journal.undo, loc[p].to)
    OBVIOUS
  <1>3. v.credsStarted = journal.undo.credsStarted /\ v.cfgStarted
    <2>1. journal.undo \in Undos /\ loc[p].to \in Accounts /\ config \in Configs
      BY <1>a, OwnAt, SMT DEF TypeOK
    <2> QED BY <1>2, <2>1, ConfigIntentTyped
  <1>4. /\ journal'.attempt = journal.attempt /\ journal'.from = journal.from /\ journal'.to = journal.to
        /\ journal'.republish = journal.republish /\ journal' # None
        /\ journal'.committed = journal.committed /\ journal'.closed = journal.closed
        /\ journal' = journal \/ journal'.undo = v
    BY <1>2, Intent8File, Zenon DEF KeptFile, SameFile
  <1>5. Pending /\ ~journal.undo.cfgStarted
    BY <1>0, <1>a, OwnAt, SMT DEF Files, SectionFile, SectionAligned
  <1>6. Pending' /\ StagedCopy' = StagedCopy
    <2>1. journal.undo.credsStarted /\ ~finished(journal)
      BY <1>5 DEF Pending, Unfinished
    <2>2. journal'.undo.credsStarted
      BY <1>3, <1>4, <2>1
    <2> QED BY <1>0, <1>4, <2>1, <2>2, SMT DEF Pending, StagedCopy, Unfinished, finished
  <1>7. Untouched'
    BY <1>0, <1>4, <1>5, <1>6, SMT DEF Steady, Anchored, Untouched
  <1>8. Anchored' /\ Agreed'
    BY <1>0, <1>4, <1>5, <1>6, <1>7, StillPending
  <1> QED BY <1>0, <1>a, <1>1, <1>8, GoSteady, SMT DEF Special

\* Step 8's write is hidden by the pending journal.
LEMMA Write8Steady ==
    ASSUME TypeOK, Files, Aligned, Steady, NEW p \in Procs, write8(p)
    PROVE  Steady' /\ misadopted' = misadopted
  <1>0. /\ UNCHANGED <<live, active, staged, journal, committed, misadopted>> /\ pc[p] = "write8"
        /\ config' \in {config, loc[p].undo.cfgHash}
    BY Zenon DEF write8, Effect
  <1>a. pc[p] \in Own /\ pc[p] \in Locked
    BY <1>0, SMT DEF Own, Locked
  <1>1. PICK label \in {"commit9", "rollback"} : Goto(p, label)
    BY Zenon DEF write8, Effect
  <1>2. Pending /\ journal.undo.cfgStarted /\ loc[p].undo.cfgHash.oauth = journal.to
    <2>1. journal.undo.cfgStarted /\ loc[p].undo.cfgHash.oauth = loc[p].to
      BY <1>0, <1>a, OwnAt, Zenon DEF SectionAligned
    <2> QED BY <1>a, <2>1, OwnAt
  <1>3. Pending' /\ StagedCopy' = StagedCopy
    BY <1>0, <1>2, PendingStill
  <1>4. Untouched'
    BY <1>0, <1>2, <1>3, SMT DEF Steady, Anchored, Untouched
  <1>5. Anchored' /\ Agreed'
    BY <1>0, <1>2, <1>3, <1>4, StillPending
  <1> QED BY <1>0, <1>a, <1>1, <1>5, GoSteady, SMT DEF Special

\* The commit moves the active login to the account published and named by then.
LEMMA CommitSteady ==
    ASSUME TypeOK, Files, Aligned, Steady, NEW p \in Procs, commit9(p) \/ resolveForwardCommit(p)
    PROVE  Steady' /\ misadopted' = misadopted
  <1>0. UNCHANGED <<live, config, staged, journal, misadopted>> /\ pc[p] \in {"commit9", "fwdCommit"}
    BY Zenon DEF commit9, resolveForwardCommit
  <1>a. pc[p] \in Own \cup Rec /\ pc[p] \in Locked
    BY <1>0, SMT DEF Own, Rec, Locked
  <1>1. Finish(p) \/ \E label \in {"committed", "rollback"} : Goto(p, label)
    BY Zenon DEF commit9, resolveForwardCommit
  <1>2. CASE UNCHANGED <<committed, active>>
    <2>1. Anchored' /\ Agreed'
      BY <1>0, <1>2, AnchorStill
    <2> QED BY <1>0, <1>a, <1>1, <2>1, GoSteady, SMT DEF Special
  <1>3. CASE commitClaudeSwitch(journal)
    <2>1. live.acct = journal.to /\ Unfinished
      <3>1. CASE pc[p] = "commit9"
        <4>1. pc[p] \in Own
          BY <3>1, SMT DEF Own
        <4>2. live = loc[p].tgt
          BY <3>1, <4>1, OwnAt, Zenon DEF SectionAligned
        <4> QED BY <4>1, <4>2, OwnAt, SMT DEF Unfinished
      <3>2. CASE pc[p] = "fwdCommit"
        <4>1. pc[p] \in Rec
          BY <3>2, SMT DEF Rec
        <4>2. live.acct = journal.to
          BY <3>2, <4>1, RecAligned, Zenon DEF SectionAligned
        <4> QED BY <4>1, <4>2, RecAligned, SMT DEF Unfinished
      <3> QED BY <1>0, <3>1, <3>2
    <2>2. active' = journal.to
      BY <1>3, <2>1, SMT DEF commitClaudeSwitch, Steady, Agreed
    <2>3. ~Unfinished'
      BY <1>0, <1>3, SMT DEF commitClaudeSwitch, Unfinished, finished
    <2>4. Anchored' /\ Agreed'
      BY <1>0, <2>1, <2>2, <2>3, SMT DEF Anchored, Agreed, Pending
    <2> QED BY <1>0, <1>a, <1>1, <2>4, GoSteady, SMT DEF Special
  <1> QED BY <1>2, <1>3, Zenon DEF commit9, resolveForwardCommit

\* A rollback's config write is hidden by the pending journal.
LEMMA RollbackConfigSteady ==
    ASSUME TypeOK, Files, Aligned, Steady, NEW p \in Procs, rollbackConfig(p)
    PROVE  Steady' /\ misadopted' = misadopted
  <1>0. /\ UNCHANGED <<live, active, staged, journal, committed, misadopted>> /\ pc[p] = "rbConfig"
        /\ Goto(p, "rbLive")
        /\ config' \in {config, restoreConfigFromJournal(loc[p].undo)}
    BY Zenon DEF rollbackConfig
  <1>a. pc[p] \in Own /\ pc[p] \in Locked
    BY <1>0, SMT DEF Own, Locked
  <1>1. Anchored' /\ Agreed'
    <2>1. CASE config' = config
      BY <1>0, <2>1, AnchorStill
    <2>2. CASE ~Pending
      BY <1>0, <2>2, StillResting
    <2>3. CASE Pending /\ config' = restoreConfigFromJournal(loc[p].undo)
      <3>1. config'.oauth = loc[p].out.acct /\ StagedCopy = loc[p].out
        <4>1. loc[p].undo \in Undos /\ config \in Configs /\ StagedCopy = loc[p].out
          BY <1>0, <1>a, OwnAt, SMT DEF TypeOK
        <4>2. Undoable(loc[p], loc[p].undo)
          BY <1>0, <1>a, OwnAt, SMT DEF SectionAligned
        <4> QED BY <2>3, <4>1, <4>2, RestoreTyped, SMT DEF Undoable
      <3>2. Pending' /\ StagedCopy' = StagedCopy
        BY <1>0, <2>3, PendingStill
      <3>3. Untouched'
        BY <1>0, <2>3, <3>1, <3>2, SMT DEF Steady, Anchored, Untouched
      <3> QED BY <1>0, <2>3, <3>2, <3>3, StillPending
    <2> QED BY <1>0, <2>1, <2>2, <2>3
  <1> QED BY <1>0, <1>a, <1>1, GoSteady, SMT DEF Special

\* A rollback that restored both stores goes on to close the journal at the active login.
LEMMA RollbackLiveSteady ==
    ASSUME TypeOK, Files, Aligned, Steady, NEW p \in Procs, rollbackLive(p)
    PROVE  Steady' /\ misadopted' = misadopted
  <1>0. UNCHANGED <<config, active, staged, journal, committed, misadopted>> /\ pc[p] = "rbLive"
    BY Zenon DEF rollbackLive
  <1>a. pc[p] \in Own /\ pc[p] \in Locked
    BY <1>0, SMT DEF Own, Locked
  <1>1. /\ ~loc[p].undo.credsStarted => live = loc[p].out
        /\ ~Pending => live = loc[p].out
        /\ StagedCopy = loc[p].out
    BY <1>0, <1>a, OwnAt, SMT DEF SectionAligned
  <1>2. CASE /\ live' = IF loc[p].undo.credsStarted THEN loc[p].out ELSE live
             /\ Finish(p) \/ Goto(p, "close")
    <2>1. live' = loc[p].out
      BY <1>1, <1>2
    <2>2. Anchored' /\ Agreed' /\ live'.acct = active'
      <3>1. CASE Pending
        <4>1. Pending' /\ StagedCopy' = StagedCopy
          BY <1>0, <3>1, PendingStill
        <4>2. Untouched'
          BY <1>0, <1>1, <2>1, <3>1, <4>1, SMT DEF Steady, Anchored, Untouched
        <4>3. Anchored' /\ Agreed'
          BY <1>0, <3>1, <4>1, <4>2, StillPending
        <4> QED BY <1>0, <1>1, <2>1, <3>1, <4>3 DEF Steady, Anchored
      <3>2. CASE ~Pending
        <4>1. live' = live
          BY <1>1, <2>1, <3>2
        <4>2. Anchored' /\ Agreed'
          BY <1>0, <3>2, <4>1, StillResting
        <4> QED BY <1>0, <3>2, <4>1, <4>2 DEF Steady, Anchored
      <3> QED BY <3>1, <3>2
    <2>3. CASE Finish(p)
      BY <1>0, <1>a, <2>2, <2>3, GoSteady
    <2>4. CASE Goto(p, "close")
      <3>1. pc'[p] = "close" /\ \A q \in Procs : q # p => pc'[q] = pc[q]
        BY <2>4, GotoPc, SMT DEF TypeOK, Locked
      <3>2. Entry(p)'
        BY <2>2, <3>1, SMT DEF Entry
      <3> QED BY <1>0, <1>a, <2>2, <3>1, <3>2, HolderSteady
    <2> QED BY <1>2, <2>3, <2>4
  <1>3. CASE Finish(p) /\ UNCHANGED live
    <2>1. Anchored' /\ Agreed'
      BY <1>0, <1>3, AnchorStill
    <2> QED BY <1>0, <1>3, <1>a, <2>1, GoSteady
  <1> QED BY <1>2, <1>3, Zenon DEF rollbackLive

\* A recovery gives up, or its effect does not take place.
LEMMA QuitSteady ==
    ASSUME TypeOK, Files, Steady, NEW p \in Procs, pc[p] \in Locked, Finish(p),
           UNCHANGED <<live, config, journal, staged, committed, active>>
    PROVE  Steady'
  <1>1. Anchored' /\ Agreed'
    BY AnchorStill
  <1> QED BY <1>1, GoSteady

\* restoreLiveFromStaged is hidden by the pending journal.
LEMMA RecLiveSteady ==
    ASSUME TypeOK, Files, Aligned, Steady, NEW p \in Procs, restoreLiveFromStaged(p)
    PROVE  Steady' /\ misadopted' = misadopted
  <1>0. UNCHANGED <<config, active, staged, journal, committed, misadopted>> /\ pc[p] = "recLive"
    BY Zenon DEF restoreLiveFromStaged
  <1>a. pc[p] \in Rec /\ pc[p] \in Locked
    BY <1>0, SMT DEF Rec, Locked
  <1>1. CASE UNCHANGED live /\ (Finish(p) \/ Goto(p, "recConfig"))
    <2>1. Anchored' /\ Agreed'
      BY <1>0, <1>1, AnchorStill
    <2> QED BY <1>0, <1>1, <1>a, <2>1, GoSteady, SMT DEF Special
  <1>2. CASE /\ journal.undo.credsStarted /\ live' = StagedCopy
             /\ Finish(p) \/ Goto(p, "recConfig")
    <2>1. Pending
      BY <1>2, <1>a, RecAligned
    <2>2. Pending' /\ StagedCopy' = StagedCopy
      BY <1>0, <2>1, PendingStill
    <2>3. Untouched'
      BY <1>0, <1>2, <2>1, <2>2, SMT DEF Steady, Anchored, Untouched
    <2>4. Anchored' /\ Agreed'
      BY <1>0, <2>1, <2>2, <2>3, StillPending
    <2> QED BY <1>0, <1>2, <1>a, <2>4, GoSteady, SMT DEF Special
  <1> QED BY <1>1, <1>2, Zenon DEF restoreLiveFromStaged, LastEffect

\* Recovering the config restores the account of the active login.
LEMMA RecConfigSteady ==
    ASSUME TypeOK, Files, Aligned, Steady, NEW p \in Procs, reconcileConfig(p) \/ resolveBackConfig(p)
    PROVE  Steady' /\ misadopted' = misadopted
  <1>0. UNCHANGED <<live, active, staged, journal, committed, misadopted>> /\ pc[p] \in {"recConfig", "backConfig"}
    BY Zenon DEF reconcileConfig, resolveBackConfig
  <1>a. pc[p] \in Rec /\ pc[p] \in Locked
    BY <1>0, SMT DEF Rec, Locked
  <1>1. CASE Finish(p) /\ UNCHANGED config
    BY <1>0, <1>1, <1>a, QuitSteady
  <1>2. CASE /\ config' = restoreConfigFromJournal(journal.undo)
             /\ \/ Finish(p)
                \/ Goto(p, "close") /\ pc[p] = "recConfig"
                \/ Goto(p, "backLive") /\ pc[p] = "backConfig"
    <2>1. Anchored' /\ Agreed' /\ (Pending' => config'.oauth = active')
      <3>1. CASE Pending
        <4>1. Pending' /\ StagedCopy' = StagedCopy
          BY <1>0, <3>1, PendingStill
        <4>2. Untouched /\ StagedCopy.acct = active
          BY <3>1 DEF Steady, Anchored
        <4>3. config'.oauth = StagedCopy.acct
          BY <1>2, <1>a, <3>1, <4>2, Restored
        <4>4. Untouched'
          BY <1>0, <4>1, <4>2, <4>3, SMT DEF Untouched
        <4>5. Anchored' /\ Agreed'
          BY <1>0, <3>1, <4>1, <4>4, StillPending
        <4> QED BY <1>0, <4>2, <4>3, <4>5
      <3>2. CASE ~Pending
        <4>1. Anchored' /\ Agreed' /\ ~Pending'
          BY <1>0, <3>2, StillResting, PendingStill
        <4> QED BY <4>1
      <3> QED BY <3>1, <3>2
    <2>2. CASE Finish(p)
      BY <1>0, <1>a, <2>1, <2>2, GoSteady
    <2>3. CASE Goto(p, "close") /\ pc[p] = "recConfig"
      <3>1. pc'[p] = "close" /\ \A q \in Procs : q # p => pc'[q] = pc[q]
        BY <2>3, GotoPc, SMT DEF TypeOK, Locked
      <3>2. live.acct = active
        <4>1. Pending => live = StagedCopy
          BY <1>a, <2>3, RecAligned, SMT DEF SectionAligned
        <4> QED BY <4>1 DEF Steady, Anchored
      <3>3. Entry(p)'
        BY <1>0, <3>1, <3>2, SMT DEF Entry
      <3> QED BY <1>0, <1>a, <2>1, <3>1, <3>3, HolderSteady
    <2>4. CASE Goto(p, "backLive") /\ pc[p] = "backConfig"
      <3>1. pc'[p] = "backLive" /\ \A q \in Procs : q # p => pc'[q] = pc[q]
        BY <2>4, GotoPc, SMT DEF TypeOK, Locked
      <3>2. Entry(p)'
        BY <2>1, <3>1, SMT DEF Entry
      <3> QED BY <1>0, <1>a, <2>1, <3>1, <3>2, HolderSteady
    <2> QED BY <1>2, <2>2, <2>3, <2>4
  <1> QED BY <1>0, <1>1, <1>2, Zenon DEF reconcileConfig, resolveBackConfig, LastEffect

\* resolve --back goes on to close the journal at the active login.
LEMMA BackLiveSteady ==
    ASSUME TypeOK, Files, Aligned, Steady, NEW p \in Procs, resolveBackLive(p)
    PROVE  Steady' /\ misadopted' = misadopted
  <1>0. UNCHANGED <<config, active, staged, journal, committed, misadopted>> /\ pc[p] = "backLive"
    BY Zenon DEF resolveBackLive
  <1>a. pc[p] \in Rec /\ pc[p] \in Locked
    BY <1>0, SMT DEF Rec, Locked
  <1>1. CASE Finish(p) /\ UNCHANGED live
    BY <1>0, <1>1, <1>a, QuitSteady
  <1>2. CASE /\ live' = IF journal.undo.credsStarted /\ live = journal.credsHash THEN StagedCopy ELSE live
             /\ Finish(p) \/ Goto(p, "close")
    <2>1. Anchored' /\ Agreed' /\ live'.acct = active'
      <3>1. CASE Pending
        <4>1. Pending' /\ StagedCopy' = StagedCopy /\ journal.undo.credsStarted
          BY <1>0, <3>1, PendingStill DEF Pending
        <4>2. Untouched /\ StagedCopy.acct = active /\ config.oauth = active
          BY <1>0, <3>1, SMT DEF Steady, Anchored, Entry
        <4>3. live # journal.credsHash => live.acct = config.oauth
          BY <1>0, <1>a, <3>1, RecAligned, SMT DEF SectionAligned
        <4>4. live'.acct = active
          BY <1>2, <4>1, <4>2, <4>3
        <4>5. Untouched'
          BY <1>0, <4>1, <4>2, <4>4, SMT DEF Untouched
        <4>6. Anchored' /\ Agreed'
          BY <1>0, <3>1, <4>1, <4>5, StillPending
        <4> QED BY <1>0, <4>4, <4>6
      <3>2. CASE ~Pending
        <4>1. live' = live
          BY <1>2, <1>a, <3>2, RecAligned
        <4>2. Anchored' /\ Agreed'
          BY <1>0, <3>2, <4>1, StillResting
        <4> QED BY <1>0, <3>2, <4>1, <4>2 DEF Steady, Anchored
      <3> QED BY <3>1, <3>2
    <2>2. CASE Finish(p)
      BY <1>0, <1>a, <2>1, <2>2, GoSteady
    <2>3. CASE Goto(p, "close")
      <3>1. pc'[p] = "close" /\ \A q \in Procs : q # p => pc'[q] = pc[q]
        BY <2>3, GotoPc, SMT DEF TypeOK, Locked
      <3>2. Entry(p)'
        BY <2>1, <3>1, SMT DEF Entry
      <3> QED BY <1>0, <1>a, <2>1, <3>1, <3>2, HolderSteady
    <2> QED BY <1>2, <2>2, <2>3
  <1> QED BY <1>1, <1>2, Zenon DEF resolveBackLive, LastEffect

\* resolve --forward's intent changes nothing outside.
LEMMA FwdConfigSteady ==
    ASSUME TypeOK, Files, Aligned, Steady, NEW p \in Procs, resolveForwardConfig(p)
    PROVE  Steady' /\ misadopted' = misadopted
  <1>0. UNCHANGED <<live, config, active, staged, committed, misadopted>> /\ pc[p] = "fwdConfig"
    BY Zenon DEF resolveForwardConfig
  <1>a. pc[p] \in Rec /\ pc[p] \in Locked
    BY <1>0, SMT DEF Rec, Locked
  <1>1. CASE Finish(p) /\ journal' = journal
    BY <1>0, <1>1, <1>a, QuitSteady
  <1>2. CASE /\ Forwarded
             /\ journal.undo.cfgStarted => journal' = journal
             /\ Goto(p, "fwdWrite") \/ Finish(p)
    <2>1. /\ journal'.attempt = journal.attempt /\ journal'.from = journal.from /\ journal'.to = journal.to
          /\ journal'.republish = journal.republish /\ journal' # None /\ journal'.undo.credsStarted
          /\ journal'.committed = journal.committed /\ journal'.closed = journal.closed
          /\ journal.undo.credsStarted
      BY <1>2, Zenon DEF Forwarded, SameFile
    <2>2. Pending
      BY <1>a, <2>1, RecAligned
    <2>3. Pending' /\ StagedCopy' = StagedCopy
      BY <1>0, <2>1, <2>2, SMT DEF Pending, StagedCopy, Unfinished, finished
    <2>4. Untouched'
      BY <1>0, <1>2, <2>1, <2>2, <2>3, SMT DEF Steady, Anchored, Untouched
    <2>5. Anchored' /\ Agreed'
      BY <1>0, <2>1, <2>2, <2>3, <2>4, StillPending
    <2> QED BY <1>0, <1>2, <1>a, <2>5, GoSteady, SMT DEF Special
  <1>3. ForwardAdmits => (journal.undo.cfgStarted => journal' = journal)
    BY Zenon DEF resolveForwardConfig, LastEffect
  <1> QED BY <1>1, <1>2, <1>3, ForwardFile

\* resolve --forward's write is hidden by the pending journal.
LEMMA FwdWriteSteady ==
    ASSUME TypeOK, Files, Aligned, Steady, NEW p \in Procs, resolveForwardWrite(p)
    PROVE  Steady' /\ misadopted' = misadopted
  <1>0. /\ UNCHANGED <<live, active, staged, journal, committed, misadopted>> /\ pc[p] = "fwdWrite"
        /\ config' \in {config, journal.undo.cfgHash} /\ (Finish(p) \/ Goto(p, "fwdCommit"))
    BY Zenon DEF resolveForwardWrite, LastEffect
  <1>a. pc[p] \in Rec /\ pc[p] \in Locked
    BY <1>0, SMT DEF Rec, Locked
  <1>1. Pending /\ journal.undo.cfgStarted
    BY <1>0, <1>a, RecAligned, SMT DEF SectionAligned
  <1>2. journal.undo.cfgHash.oauth = journal.to
    BY <1>1, <1>a, RecAligned
  <1>3. Pending' /\ StagedCopy' = StagedCopy
    BY <1>0, <1>1, PendingStill
  <1>4. Untouched'
    BY <1>0, <1>1, <1>2, <1>3, SMT DEF Steady, Anchored, Untouched
  <1>5. Anchored' /\ Agreed'
    BY <1>0, <1>1, <1>3, <1>4, StillPending
  <1> QED BY <1>0, <1>a, <1>5, GoSteady, SMT DEF Special

\* Claude Code's refreshes and unrelated edits keep the account.
LEMMA ElsewhereSteady ==
    ASSUME TypeOK, Steady, lockStale \/ ccRefresh \/ ccSettings
    PROVE  Steady' /\ misadopted' = misadopted
  <1>1. UNCHANGED <<journal, staged, committed, active, pc, loc, misadopted>>
    BY Zenon DEF lockStale, ccRefresh, ccSettings
  <1>2. live'.acct = live.acct /\ config'.oauth = config.oauth
    <2>1. CASE lockStale
      BY <2>1, Zenon DEF lockStale
    <2>2. CASE ccRefresh
      <3>1. config' = config
        BY <2>2, Zenon DEF ccRefresh
      <3> QED BY <2>2, <3>1, CcRefreshed
    <2>3. CASE ccSettings
      <3>1. live' = live
        BY <2>3, Zenon DEF ccSettings
      <3> QED BY <2>3, <3>1, SettingsKept
    <2> QED BY <2>1, <2>2, <2>3
  <1>3. Anchored' /\ Agreed' /\ Pending' = Pending
    BY <1>1, <1>2, AnchorStill
  <1>4. ASSUME NEW q \in Procs PROVE Entry(q)'
    <2>1. Entry(q)
      BY DEF Steady
    <2> QED BY <1>1, <1>2, <1>3, <2>1, SMT DEF Entry
  <1> QED BY <1>1, <1>3, <1>4 DEF Steady

\* Every step keeps the atomicity part while nobody logs in, and none misadopts.
LEMMA SteadyNext ==
    ASSUME TypeOK, Files, Aligned, Steady, Next, ~misadopted, LoginAccounts = {}
    PROVE  Steady' /\ ~misadopted'
  <1>1. ASSUME NEW p \in Procs, Step(p) PROVE Steady' /\ ~misadopted'
    <2>1. CASE acquire(p)
      BY <2>1, OutsideSteady
    <2>2. CASE SwitchStep(p)
      <3>1. CASE start(p) \/ prepareClaudeSwitch(p) \/ postRefresh(p) \/ alreadyFresh(p) \/ persistRefresh(p) \/ refuse(p)
        BY <3>1, OutsideSteady
      <3>2. CASE step4(p) \/ step5(p) \/ step6(p) \/ writeStagedRollback(p) \/ stageFailed(p)
        BY <3>2, Step4Steady, Step5Steady, Step6Steady, StagedSteady, EndedSteady
      <3>3. CASE intent7(p) \/ write7(p) \/ mark7(p) \/ intent8(p) \/ write8(p) \/ commit9(p)
        BY <3>3, Intent7Steady, Write7Steady, Mark7Steady, Intent8Steady, Write8Steady, CommitSteady
      <3>4. CASE rollbackSource(p) \/ rollbackConfig(p) \/ rollbackLive(p)
        BY <3>4, OutsideSteady, RollbackConfigSteady, RollbackLiveSteady
      <3> QED BY <2>2, <3>1, <3>2, <3>3, <3>4, Zenon DEF SwitchStep
    <2>3. CASE RecoveryStep(p)
      <3>1. CASE beginRecovery(p) \/ giveUpRecovery(p) \/ recheck(p)
        BY <3>1, OutsideSteady
      <3>2. CASE restoreLiveFromStaged(p) \/ reconcileConfig(p) \/ resolveBackConfig(p) \/ resolveBackLive(p)
        BY <3>2, RecLiveSteady, RecConfigSteady, BackLiveSteady
      <3>3. CASE resolveForwardConfig(p) \/ resolveForwardWrite(p) \/ resolveForwardCommit(p)
        BY <3>3, FwdConfigSteady, FwdWriteSteady, CommitSteady
      <3> QED BY <2>3, <3>1, <3>2, <3>3, Zenon DEF RecoveryStep
    <2>4. CASE markCommitted(p) \/ markClosed(p) \/ deleteStagedRollback(p) \/ deleteClaudeSwitchJournal(p)
      BY <2>4, EndedSteady, TidySteady
    <2> QED BY <1>1, <2>1, <2>2, <2>3, <2>4, Zenon DEF Step
  <1>2. ASSUME NEW p \in Procs, crash(p) PROVE Steady' /\ ~misadopted'
    BY <1>2, OutsideSteady
  <1>3. CASE lockStale \/ ccRefresh \/ ccSettings
    BY <1>3, ElsewhereSteady
  <1>4. ~\E a \in LoginAccounts : ccLogin(a)
    OBVIOUS
  <1> QED BY <1>1, <1>2, <1>3, <1>4, Zenon DEF Next

\* The atomicity part holds initially.
LEMMA SteadyInit == ASSUME Init PROVE Steady /\ ~misadopted
  <1>1. live.acct = active
    BY SMT DEF Init, First
  <1>2. ~Unfinished /\ ~Pending
    BY SMT DEF Init, Unfinished, Pending
  <1>3. \A p \in Procs : pc[p] \in {"start", "idle"}
    BY SMT DEF Init
  <1>4. \A p \in Procs : Entry(p)
    BY <1>3, SMT DEF Entry
  <1>5. ~misadopted
    BY Zenon DEF Init
  <1> QED BY <1>1, <1>2, <1>4, <1>5 DEF Steady, Anchored, Agreed

\* A stuttering step keeps the atomicity part.
LEMMA SteadyQuiet == ASSUME Steady, UNCHANGED vars PROVE Steady'
  <1>1. Anchored' /\ Agreed' /\ Pending' = Pending
    BY AnchorStill
  <1>2. ASSUME NEW q \in Procs PROVE Entry(q)'
    <2>1. Entry(q)
      BY DEF Steady
    <2> QED BY <1>1, <2>1, SMT DEF Entry
  <1> QED BY <1>1, <1>2 DEF Steady

\* The account published, as AtomicSwitch sees it.
Published == IF Unfinished /\ (Unfinished => journal.undo.credsStarted)
             THEN staged[journal.attempt].acct ELSE live.acct

\* The account named, as AtomicSwitch sees it.
Named == IF Unfinished /\ (Unfinished => journal.undo.cfgStarted)
         THEN journal.undo.cfgText.oauth ELSE config.oauth

\* The accounts published and named are the active login, in every state.
LEMMA Seen == ASSUME Files, Aligned, Steady PROVE Published = active /\ Named = active
  <1>1. Published = active
    BY SMT DEF Published, Steady, Anchored, Pending, StagedCopy
  <1>2. CASE Pending
    <2>1. StagedCopy.acct = active /\ Untouched
      BY <1>2 DEF Steady, Anchored
    <2>2. journal.undo.cfgStarted => journal.undo.cfgText.oauth = active
      BY <1>2, <2>1, SMT DEF Aligned, FileAligned
    <2>3. ~journal.undo.cfgStarted => config.oauth = active
      BY <2>1 DEF Untouched
    <2>4. Unfinished
      BY <1>2 DEF Pending
    <2> QED BY <1>1, <2>2, <2>3, <2>4 DEF Named
  <1>3. CASE ~Pending
    <2>1. config.oauth = active
      BY <1>3, SMT DEF Steady, Anchored, Aligned, FileAligned
    <2>2. ~(Unfinished /\ (Unfinished => journal.undo.cfgStarted))
      BY <1>3, SMT DEF Files, FileSound, Pending, Unfinished
    <2> QED BY <1>1, <2>1, <2>2 DEF Named
  <1> QED BY <1>2, <1>3

\* As long as the user does not log in with Claude Code itself, the switch with its
\* rollback and recovery implements AtomicSwitch: seen through the journal, the account of the
\* live credential, the account the config names and the active login change together, whatever
\* effect fails and wherever a process dies.
THEOREM RefinesAtomicSwitchHolds == ASSUME LoginAccounts = {} PROVE Spec => RefinesAtomicSwitch
  <1> DEFINE Inv == TypeOK /\ Files /\ Ages /\ Aligned /\ Steady /\ ~misadopted
  <1>1. Init => Inv
    BY FilesInit, AgesInit, AlignedInit, SteadyInit
  <1>2. Inv /\ [Next]_vars => Inv'
    <2>1. ASSUME Inv, Next PROVE Inv'
      <3>1. Steady' /\ ~misadopted'
        BY <2>1, SteadyNext
      <3> QED BY <2>1, <3>1, FilesStep, AgesStep, AlignedStep
    <2>2. ASSUME Inv, UNCHANGED vars PROVE Inv'
      BY <2>2, Quiet, AgesQuiet, AlignedQuiet, SteadyQuiet, SMT DEF TypeOK
    <2> QED BY <2>1, <2>2
  <1> DEFINE Agree == active \in Accounts /\ Published = active /\ Named = active
  <1>3. Inv => Agree
    BY Seen DEF TypeOK
  <1>4. Agree => Atomic!Init
    BY DEF Atomic!Init, Published, Named
  <1>5. Agree' => Atomic!Next
    <2> SUFFICES ASSUME Agree' PROVE Atomic!Switch(active')
      BY DEF Atomic!Next
    <2> QED BY DEF Atomic!Switch, Published, Named
  <1> HIDE DEF Inv, Agree
  <1> QED BY <1>1, <1>2, <1>3, <1>4, <1>5, PTL DEF Spec, RefinesAtomicSwitch, Atomic!Spec
=============================================================================
