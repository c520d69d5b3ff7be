----------------------------- MODULE CodexSwitch -----------------------------
(***************************************************************************)
(* Switching the Codex login between managed accounts, its recovery and    *)
(* its watch (src/codex-switch.ts and the statements of src/store.ts it    *)
(* commits through).                                                       *)
(*                                                                         *)
(* A switch publishes the target slot's document to auth.json, which Codex *)
(* itself reads and rewrites at any time, and then commits active_login.   *)
(* A journal written before the rename says what was attempted; whoever    *)
(* finds it later attributes what auth.json holds by then and resolves it, *)
(* or fences the accounts involved until the user has logged in.  A        *)
(* committed switch is watched for a Codex session of the old account that *)
(* writes its own login back.                                              *)
(*                                                                         *)
(* A document is an account and a token number; fingerprints are the       *)
(* documents themselves.  The inside of an adoption (Keychain, row, edge)  *)
(* is CodexSlot's; here it is one step, and a slot is "ok", "lost" (item   *)
(* unreadable) or "split" (item not the recorded document).  "*", every    *)
(* account, is the set of all managed accounts.                            *)
(***************************************************************************)
EXTENDS Naturals, Sequences, FiniteSets

CONSTANTS
    Procs,                        \* QLB processes
    Accounts,                     \* managed accounts
    First,                        \* the account that is active at the start
    Targets,                      \* the accounts switches go to
    Stranger, Missing, Wiped,     \* auth.json: an unmanaged account, no file, no tokens
    None,
    MaxTok,                       \* bound: documents issued
    MaxAttempts,                  \* bound: switches
    MaxTrouble                    \* bound: logins and logouts by the user, failing calls, damaged slots,
                                  \* processes killed and locks taken over from a stalled holder

AccountsAssumption ==
    /\ IsFiniteSet(Procs) /\ IsFiniteSet(Accounts) /\ First \in Accounts /\ Targets \subseteq Accounts
    /\ Accounts \cap {Stranger, Missing, Wiped, None} = {} /\ None \notin Procs
BoundsAssumption ==
    MaxTok \in Nat /\ MaxTok >= Cardinality(Accounts)
    /\ MaxAttempts \in Nat /\ MaxTrouble \in Nat

VARIABLES
    live,     \* auth.json
    head,     \* codex_slots.fingerprint of each account
    been,     \* heads each slot has had: the lineage of the current one
    health,   \* what the Keychain item of each slot is
    active,   \* active_login
    journal,  \* switch-openai-codex.json
    fence,    \* config codex.recoveryFence
    log,      \* switch_log rows with a publication, a commit or a resolution
    watches,  \* codex_watch
    stashed,  \* unmanaged documents kept by ensureUnclaimedStash
    sw, auth, owner, \* switch, auth and journal-owner locks
    op,       \* each process: control state and local variables
    session,  \* the document a running Codex has in memory
    issued,   \* documents issued so far
    moved,    \* history: attempts whose target slot was moved by somebody else
    used      \* how much of MaxTrouble is used

slots   == <<head, been, health>>
records == <<active, journal, fence, log, watches, stashed>>
locks   == <<sw, auth, owner>>
env     == <<session, issued>>
vars    == <<live, slots, records, locks, op, env, moved, used>>

NoDoc == [a |-> None, g |-> 0]
Docs  == [a : Accounts \cup {Stranger}, g : 1..MaxTok]
Files == Docs \cup {[a |-> Missing, g |-> 0], [a |-> Wiped, g |-> 0]}
IsDoc(f) == f.a \in Accounts \cup {Stranger}
NoAttr == [disp |-> "none", acct |-> None]
Idle == [kind |-> "none", pc |-> "idle", to |-> None, att |-> 0, phase |-> "none", seen |-> NoDoc,
         cls |-> "none", attr |-> NoAttr, base |-> 0, back |-> "done", round |-> 0]
Phases  == {"none", "post", "recovery", "fence", "watch"}
Classes == {"none", "not-landed", "target-changed", "ok", "external", "missing", "wiped"}
Reasons == {"none", "target-changed", "target-ancestor", "slot-split", "stash-unverifiable", "logged-out"}

\* The shared records and every process have their types.
TypeOK ==
    /\ live \in Files /\ session \in Docs \cup {NoDoc} /\ stashed \subseteq Docs
    /\ head \in [Accounts -> 1..MaxTok] /\ been \in [Accounts -> SUBSET (1..MaxTok)]
    /\ health \in [Accounts -> {"ok", "lost", "split"}]
    /\ active \in Accounts \cup {None} /\ issued \in 0..MaxTok /\ moved \subseteq 1..MaxAttempts
    /\ journal = None \/ (journal.unres \in Reasons /\ journal.inv \subseteq Accounts)
    /\ fence = None \/ (fence.reason \in Reasons \ {"none"} /\ fence.inv \subseteq Accounts)
    /\ {sw, auth, owner} \subseteq Procs \cup {None}
    /\ \A p \in Procs : op[p].phase \in Phases /\ op[p].cls \in Classes

Init ==
    /\ head = (CHOOSE f \in [Accounts -> 1..Cardinality(Accounts)] : \A x, y \in Accounts : f[x] = f[y] => x = y)
    /\ live = [a |-> First, g |-> head[First]]
    /\ been = [x \in Accounts |-> {head[x]}] /\ health = [x \in Accounts |-> "ok"]
    /\ active = First /\ journal = None /\ fence = None /\ log = <<>> /\ watches = {} /\ stashed = {}
    /\ sw = None /\ auth = None /\ owner = None
    /\ op = [p \in Procs |-> Idle] /\ session = live /\ issued = Cardinality(Accounts) /\ moved = {}
    /\ used = 0

-----------------------------------------------------------------------------
(* Helpers *)

Goto(p, pc) == op' = [op EXCEPT ![p].pc = pc]
Finish(p) ==
    /\ op' = [op EXCEPT ![p] = Idle]
    /\ sw' = IF sw = p THEN None ELSE sw
    /\ auth' = IF auth = p THEN None ELSE auth
    /\ owner' = IF owner = p THEN None ELSE owner
Fault == used < MaxTrouble /\ used' = used + 1
\* assertHeld of withCodexSwitchLocks, and of the journal owner where there is one.
assertHeld(p) == sw = p /\ auth = p /\ (op[p].phase \in {"post", "recovery"} => owner = p)
HeadDoc(x) == [a |-> x, g |-> head[x]]

\* codexRecoveryFenceState: who must not be touched while a journal or a fence stands.
FencedAccounts ==
    (IF journal = None THEN {} ELSE {journal.from, journal.to} \cup journal.inv)
    \cup (IF fence = None THEN {} ELSE {fence.from, fence.to} \cup fence.inv)
codexRecoveryFenceState == IF journal = None /\ fence = None THEN "none" ELSE "fenced"

\* findCommittedSwitchByAttempt.
Committed(att) == \E i \in DOMAIN log : log[i].att = att /\ log[i].via \in {"switch", "journal"}
\* codexPublishingRowsAfter: rows behind the commit of this attempt that settle its watch.
SettledByRows(att) ==
    \E i, k \in DOMAIN log : i < k /\ log[i].att = att /\ log[i].via \in {"switch", "journal"} /\ log[k].pub
\* recordSwitch inside commitCodexSwitch and the other committing statements.
recordSwitch(att, outcome, via, pub) ==
    log' = Append(log, [att |-> att, outcome |-> outcome, via |-> via, pub |-> pub])

\* Who this step of p is about: the journal, the fence or the watch.
Subject(p) ==
    CASE op[p].phase = "fence" -> [att |-> fence.att, from |-> fence.from, to |-> fence.to]
      [] op[p].phase = "watch" -> CHOOSE w \in {[att |-> w.att, from |-> w.from, to |-> w.to] : w \in watches}
                                         \cup {[att |-> op[p].att, from |-> None, to |-> op[p].to]} : w.att = op[p].att
      [] OTHER -> [att |-> journal.att, from |-> journal.from, to |-> journal.to]

-----------------------------------------------------------------------------
(* Classification, attribution and verdict: the pure parts *)

\* classifyPostPublish, publish \in {"threw", "done", "unknown"}: the last is recovery's.
classifyPostPublish(j, publish, seen) ==
    CASE publish = "threw" \/ (publish = "unknown" /\ seen = j.out) -> "not-landed"
      [] head[j.to] # j.tfp /\ head[j.to] \notin j.adopting -> "target-changed"
      [] ~IsDoc(seen) -> IF seen.a = Missing THEN "missing" ELSE "wiped"
      [] seen = [a |-> j.to, g |-> j.tfp] -> "ok"
      [] OTHER -> "external"

\* attributeSameSlot as seen from outside: what becomes of live document d of slot x.
Disposition(x, d) ==
    CASE health[x] = "lost" -> "throws"
      [] health[x] = "split" /\ d.g # head[x] -> "split"
      [] d.g = head[x] -> "noop"
      [] d.g \in been[x] -> "ancestor"
      [] OTHER -> "adopt"
\* attributeLiveDocument: the slot is the one of the live identity; "ancestor" is a republish
\* before a switch and republish-forbidden afterwards.
attributeLiveDocument(d) ==
    IF d.a \in Accounts THEN [disp |-> Disposition(d.a, d), acct |-> d.a]
    ELSE [disp |-> "unclaimed", acct |-> None]

\* unresolvedAccounts: from, to, the live identity's slot, or everybody when it is unknown.
unresolvedAccounts(s, attr, reason, seen) ==
    IF reason = "logged-out" \/ attr.disp = "unverifiable" \/ ~IsDoc(seen) THEN Accounts
    ELSE ({s.from, s.to, seen.a, attr.acct} \cap Accounts)

Resolvable(outcome, detail, acct) == [class |-> "resolvable", outcome |-> outcome, detail |-> detail, acct |-> acct]
Unresolved(reason) == [class |-> "unresolved", outcome |-> reason, detail |-> "none", acct |-> None]
\* Live equals the recorded and readable head of some managed slot.
LiveIsHead(d) == d.a \in Accounts /\ head[d.a] = d.g /\ health[d.a] = "ok"

\* Mutant: a login of somebody else found after the rename counts as the published one.
resolveUnlooked(cls, attr, s, tfp, seen) ==
    IF cls = "not-landed" THEN Resolvable("failed", "not-published", s.from)
    ELSE IF ~IsDoc(seen) THEN Unresolved("logged-out") ELSE Resolvable("ok", "none", s.to)
\* resolveRecoveryVerdict: the closed table from classification and attribution to a verdict.
resolveRecoveryVerdict(cls, attr, s, tfp, seen) ==
    LET own == attr.disp = "ancestor" /\ attr.acct = s.to
        failClosed == own \/ attr.disp \in {"split", "unverifiable"}
        closed == Unresolved(IF own THEN "target-ancestor"
                             ELSE IF attr.disp = "split" THEN "slot-split" ELSE "stash-unverifiable")
    IN CASE cls = "not-landed" -> Resolvable("failed", "not-published", s.from)
         [] cls = "missing" -> Unresolved("logged-out")
         [] cls = "wiped" -> Resolvable("failed", "wiped", None)
         [] cls = "target-changed" ->
              IF failClosed THEN closed
              ELSE IF LiveIsHead(seen) THEN Resolvable("failed", "target-changed", seen.a)
              ELSE Unresolved("target-changed")
         [] failClosed -> closed
         [] attr.disp = "ancestor" -> Resolvable("reverted", "none", attr.acct)
         [] attr.disp = "unclaimed" -> Resolvable("failed", "unknown-live-identity", None)
         [] cls = "ok" /\ head[s.to] = tfp -> Resolvable("ok", "none", s.to)
         [] OTHER -> IF attr.acct = s.to THEN Resolvable("ok", "none", s.to)
                     ELSE Resolvable("reverted", "none", attr.acct)

-----------------------------------------------------------------------------
(* The journal and the fence *)

\* markCodexSwitchJournalUnresolved: append-only, and target-changed sticks.
Marked(reason, inv) ==
    [journal EXCEPT !.unres = IF @ = "target-changed" THEN @ ELSE reason, !.inv = @ \cup inv]
\* markCodexSwitchJournalAdoptingTarget.
Adopting(g) == [journal EXCEPT !.adopting = @ \cup {g}]
\* releaseCodexSwitchJournalHeld / releaseCodexSwitchJournal: if it is still this attempt's.
Released(att) == IF journal # None /\ journal.att = att THEN [journal EXCEPT !.released = TRUE] ELSE journal
\* journalInProgress: an active owner that is the same process and still executing it.
journalInProgress(p) == ~journal.released /\ journal.by # None /\ journal.by # p
\* setRecoveryFence: unioned with the previous one, and target-changed sticks.
setRecoveryFence(s, reason, inv) ==
    [att |-> s.att, from |-> s.from, to |-> s.to,
     reason |-> IF fence # None /\ fence.reason = "target-changed" THEN "target-changed" ELSE reason,
     inv |-> inv \cup IF fence = None THEN {} ELSE fence.inv]

-----------------------------------------------------------------------------
(* Codex and its user (external) *)

FileWrite(d) == live' = d /\ UNCHANGED <<slots, records, locks, op, moved>>
CodexStart == IsDoc(live) /\ session # live /\ session' = live
              /\ UNCHANGED <<live, slots, records, locks, op, issued, moved, used>>
\* A running Codex renews what it has in memory and writes auth.json, whoever is in there now.
CodexRotate == /\ session # NoDoc /\ issued < MaxTok /\ issued' = issued + 1
               /\ session' = [session EXCEPT !.g = issued + 1] /\ FileWrite(session') /\ UNCHANGED used
CodexLogin == /\ Fault /\ issued < MaxTok /\ issued' = issued + 1 /\ UNCHANGED session
              /\ \E x \in Accounts \cup {Stranger} : FileWrite([a |-> x, g |-> issued + 1])
\* The user puts an outdated copy of auth.json back.
CodexRestore == /\ Fault /\ UNCHANGED env
                /\ \E x \in Accounts : \E g \in been[x] \ {head[x], live.g} : FileWrite([a |-> x, g |-> g])
CodexLogout == Fault /\ IsDoc(live) /\ UNCHANGED env
               /\ \E x \in {Missing, Wiped} : FileWrite([a |-> x, g |-> 0])
\* A Keychain item becomes unreadable, readable again, or another document than recorded.
KeychainDamaged ==
    /\ \E x \in Accounts : \/ /\ health[x] = "ok" /\ Fault
                              /\ \E h \in {"lost", "split"} : health' = [health EXCEPT ![x] = h]
                           \/ health[x] = "lost" /\ health' = [health EXCEPT ![x] = "ok"] /\ UNCHANGED used
    /\ UNCHANGED <<live, head, been, records, locks, op, env, moved>>

-----------------------------------------------------------------------------
(* Other QLB operations on the slots *)

MoveHead(x, g) == head' = [head EXCEPT ![x] = g] /\ been' = [been EXCEPT ![x] = @ \cup {g}]
\* History: the target of an open journal was moved by other hands.
NoteMove(x, g) ==
    moved' = IF journal # None /\ journal.to = x /\ g \notin journal.adopting /\ ~Committed(journal.att) THEN moved \cup {journal.att} ELSE moved

\* `qlb codex import-active`: the auth lock alone, no fence.
ImportActive ==
    /\ auth = None /\ live.a \in Accounts
    /\ LET d == Disposition(live.a, live) IN
       /\ d \in {"noop", "ancestor", "adopt"} /\ active' = live.a
       /\ IF d = "adopt" THEN MoveHead(live.a, live.g) /\ NoteMove(live.a, live.g) ELSE UNCHANGED <<head, been, moved>>
       /\ live' = IF d = "ancestor" THEN HeadDoc(live.a) ELSE live
       /\ health' = [health EXCEPT ![live.a] = "ok"]
    /\ UNCHANGED <<journal, fence, log, watches, stashed, locks, op, env, used>>
\* `qlb codex refresh` of an inactive slot: the switch lock, and no fence on the account.
RefreshSlot ==
    /\ sw = None /\ issued < MaxTok /\ issued' = issued + 1
    /\ \E x \in Accounts \ (FencedAccounts \cup {active, session.a}) :
         health[x] = "ok" /\ MoveHead(x, issued + 1) /\ NoteMove(x, issued + 1)
    /\ UNCHANGED <<live, health, records, locks, op, session, used>>

-----------------------------------------------------------------------------
(* Starting: a switch, the daemon's reconciliation, a watch tick *)

Begin(p, kind, to, att, pc, back) ==
    op' = [op EXCEPT ![p] = [Idle EXCEPT !.kind = kind, !.to = to, !.att = att, !.pc = pc, !.back = back]]
Fresh(att) == ~Committed(att) /\ (journal # None => journal.att # att) /\ \A p \in Procs : op[p].att # att
\* switchCodex: recovery first, if there is anything to recover.
StartSwitch(p) ==
    /\ op[p].pc = "idle"
    /\ \E att \in 1..MaxAttempts : Fresh(att) /\ (\A k \in 1..(att - 1) : ~Fresh(k)) /\
       \E to \in Targets :
         Begin(p, "switch", to, att, IF codexRecoveryFenceState = "none" THEN "freshen" ELSE "lock", "freshen")
    /\ UNCHANGED <<live, slots, records, locks, env, moved, used>>
\* reconcileCodexRecovery (the daemon, or a command before its own work) and codexWatchTick:
\* under withCodexSwitchLocks.  What made it start is looked at again once the locks are held.
TakeLocks(p) == sw = None /\ auth = None /\ sw' = p /\ auth' = p
StartReconcile(p) ==
    /\ op[p].pc = "idle" /\ codexRecoveryFenceState = "fenced" /\ TakeLocks(p)
    /\ Begin(p, "reconcile", None, 0, "probe", "done")
    /\ UNCHANGED <<live, slots, records, owner, env, moved, used>>
StartTick(p) ==
    /\ op[p].pc = "idle" /\ TakeLocks(p) /\ \E w \in watches : Begin(p, "watch", w.to, w.att, "due", "tick")
    /\ UNCHANGED <<live, slots, records, owner, env, moved, used>>
LockForRecovery(p) ==
    /\ op[p].pc = "lock" /\ TakeLocks(p) /\ Goto(p, "probe")
    /\ UNCHANGED <<live, slots, records, owner, env, moved, used>>
\* An overdue watch, or one that later rows settled, is consumed without a look at the file.
WatchDue(p) ==
    /\ op[p].pc = "due"
    /\ \/ Goto(p, "probe") /\ ~SettledByRows(op[p].att) /\ UNCHANGED <<watches, locks>>
       \/ /\ assertHeld(p) /\ Finish(p) /\ watches' = {w \in watches : w.att # op[p].att}
    /\ UNCHANGED <<live, slots, active, journal, fence, log, stashed, env, moved, used>>

\* A process that lost its locks, or whose call throws, gives up; its own journal is released.
GiveUp(p) ==
    /\ op[p].pc \notin {"idle", "lock", "freshen", "enter"} /\ UNCHANGED <<live, slots, env, moved>>
    /\ \/ ~assertHeld(p) /\ UNCHANGED used
       \/ Fault
       \/ op[p].pc = "attr" /\ attributeLiveDocument(op[p].seen).disp = "throws" /\ UNCHANGED used
    /\ journal' = IF op[p].kind = "switch" /\ op[p].phase = "post" THEN Released(op[p].att) ELSE journal
    /\ Finish(p) /\ UNCHANGED <<active, fence, log, watches, stashed>>

-----------------------------------------------------------------------------
(* Recovery: reconcileCodexRecoveryLocked *)

\* After the recovery: the switch goes on, the tick goes on, the daemon is done.
Cleared(p) ==
    IF op[p].back = "tick"
      THEN op' = [op EXCEPT ![p].pc = "tick", ![p].phase = "none"] /\ owner' = None /\ UNCHANGED <<sw, auth>>
    ELSE IF op[p].back = "freshen"
      THEN /\ op' = [op EXCEPT ![p] = [@ EXCEPT !.pc = "freshen", !.phase = "none", !.attr = NoAttr]]
           /\ sw' = None /\ auth' = None /\ owner' = None
    ELSE Finish(p)
\* probeCodexSwitchJournal: a live active owner wins; an orphan is taken with the owner lock.
Probe(p) ==
    /\ op[p].pc = "probe" /\ sw = p /\ auth = p
    /\ \/ /\ journal = None /\ UNCHANGED owner
          /\ op' = [op EXCEPT ![p].pc = "fence", ![p].phase = "none"] /\ UNCHANGED <<sw, auth>>
       \/ journal # None /\ (journalInProgress(p) \/ owner \notin {None, p}) /\ Finish(p)
       \/ /\ journal # None /\ ~journalInProgress(p) /\ owner = None /\ owner' = p
          /\ op' = [op EXCEPT ![p].pc = "resolve", ![p].phase = "recovery"] /\ UNCHANGED <<sw, auth>>
    /\ UNCHANGED <<live, slots, records, env, moved, used>>

NeedsAttribution(cls, j) == cls \in {"external", "target-changed"} \/ (cls = "ok" /\ head[j.to] # j.tfp)

\* resolveJournal: a committed attempt only needs its journal removed; otherwise the file is
\* read and classified, and a changed target is noted before anything is adopted.
ResolveRead(p) ==
    /\ op[p].pc = "resolve" /\ assertHeld(p)
    /\ \/ /\ Committed(journal.att) /\ journal' = None /\ Goto(p, "fence") /\ UNCHANGED <<sw, auth>>
          /\ owner' = None
       \/ /\ ~Committed(journal.att)
          /\ LET cls == IF journal.unres = "target-changed" THEN "target-changed"
                        ELSE classifyPostPublish(journal, "unknown", live)
                 needs == NeedsAttribution(cls, journal) /\ IsDoc(live) IN
             /\ journal' = IF cls = "target-changed"
                             THEN Marked("target-changed", {journal.from, journal.to, live.a} \cap Accounts) ELSE journal
             /\ op' = [op EXCEPT ![p] = [@ EXCEPT !.seen = live, !.cls = cls, !.attr = NoAttr,
                         !.pc = IF needs /\ ~(cls = "target-changed" /\ health[journal.to] = "lost") THEN "attr" ELSE "verdict"]]
             /\ needs /\ cls # "target-changed" => health[journal.to] # "lost"
          /\ UNCHANGED locks
    /\ UNCHANGED <<live, slots, active, fence, log, watches, stashed, env, moved, used>>

\* attributeForPhase after a publication: noop marks the slot active, an adoption onto the target
\* is announced in the journal first, an unmanaged login is stashed.
Attribute(p) ==
    /\ op[p].pc = "attr" /\ assertHeld(p)
    /\ LET r == attributeLiveDocument(op[p].seen)
           announce == r.disp = "adopt" /\ op[p].phase \in {"post", "recovery"} /\ r.acct = journal.to IN
       /\ r.disp # "throws"
       /\ \/ /\ op' = [op EXCEPT ![p] = [@ EXCEPT !.attr = r, !.pc = IF r.disp = "adopt" THEN "adopt" ELSE "verdict",
                                                  !.base = IF r.disp = "adopt" THEN head[r.acct] ELSE 0]]
             /\ stashed' = IF r.disp = "unclaimed" THEN stashed \cup {op[p].seen} ELSE stashed
             /\ UNCHANGED used
          \/ /\ r.disp = "unclaimed" /\ Fault /\ UNCHANGED stashed
             /\ op' = [op EXCEPT ![p] = [@ EXCEPT !.attr = [disp |-> "unverifiable", acct |-> None], !.pc = "verdict"]]
       /\ journal' = IF announce THEN Adopting(op[p].seen.g) ELSE journal
       /\ active' = IF r.disp = "noop" THEN r.acct ELSE active
       /\ health' = IF r.disp = "noop" THEN [health EXCEPT ![r.acct] = "ok"] ELSE health
    /\ UNCHANGED <<live, head, been, fence, log, watches, locks, env, moved>>
\* adoptCodexSlotWithKeychain: the compare-and-swap on the row, then row and active login.
AdoptLive(p) ==
    /\ op[p].pc = "adopt" /\ assertHeld(p)
    /\ LET x == op[p].attr.acct IN
       IF head[x] = op[p].base /\ health[x] = "ok"
         THEN MoveHead(x, op[p].seen.g) /\ active' = x /\ Goto(p, "verdict") /\ UNCHANGED <<locks, journal>>
         ELSE /\ Finish(p) /\ UNCHANGED <<head, been, active>>
              /\ journal' = IF op[p].phase = "post" THEN Released(op[p].att) ELSE journal
    /\ UNCHANGED <<live, health, fence, log, watches, stashed, env, moved, used>>

\* The verdict of the journal: fenced, or committed with active_login and a log row.
JournalVerdict(p) ==
    /\ op[p].pc = "verdict" /\ op[p].phase \in {"post", "recovery"} /\ assertHeld(p)
    /\ LET s == Subject(p)
           v == resolveRecoveryVerdict(op[p].cls, op[p].attr, s, journal.tfp, op[p].seen)
           again == op[p].phase = "post"
       IN \/ /\ v.class = "unresolved"
             /\ LET marked == Marked(v.outcome, unresolvedAccounts(s, op[p].attr, v.outcome, op[p].seen)) IN
                journal' = IF again THEN [marked EXCEPT !.released = TRUE] ELSE marked
             /\ Finish(p) /\ UNCHANGED <<active, log, watches>>
          \/ /\ v.class = "resolvable"
             /\ active' = IF again /\ v.detail = "target-changed" THEN s.from ELSE v.acct
             /\ recordSwitch(s.att, v.outcome, IF again THEN "switch" ELSE "journal", v.detail # "not-published")
             /\ watches' = IF v.outcome = "ok" THEN watches \cup {[att |-> s.att, from |-> s.from, to |-> s.to]} ELSE watches
             /\ Goto(p, "unlink") /\ UNCHANGED <<journal, locks>>
    /\ UNCHANGED <<live, slots, fence, stashed, env, moved, used>>
\* deleteCodexSwitchJournalIf; recovery then looks at the fence.
Unlink(p) ==
    /\ op[p].pc = "unlink" /\ assertHeld(p)
    /\ journal' = None
    /\ IF op[p].phase = "post" THEN Finish(p)
       ELSE /\ op' = [op EXCEPT ![p].pc = "fence", ![p].phase = "none"] /\ owner' = None /\ UNCHANGED <<sw, auth>>
    /\ UNCHANGED <<live, slots, active, fence, log, watches, stashed, env, moved, used>>

\* The stored fence: read, classified against the target's head of now, held while the target's
\* Keychain copy does not back that head.
FenceRead(p) ==
    /\ op[p].pc = "fence" /\ sw = p /\ auth = p
    /\ \/ fence = None /\ Cleared(p) /\ UNCHANGED fence
       \/ /\ fence # None
          /\ LET cls == IF fence.reason = "target-changed" THEN "target-changed"
                        ELSE IF ~IsDoc(live) THEN (IF live.a = Missing THEN "missing" ELSE "wiped")
                        ELSE IF live = HeadDoc(fence.to) THEN "ok" ELSE "external"
                 hold == (cls = "ok" /\ health[fence.to] # "ok") \/ (cls = "external" /\ health[fence.to] = "lost")
                 attribute == cls \in {"external", "target-changed"} /\ IsDoc(live) /\ health[fence.to] # "lost"
             IN IF hold
                  THEN Finish(p) /\ fence' = [fence EXCEPT !.inv = @ \cup ({live.a} \cap Accounts)]
                  ELSE /\ op' = [op EXCEPT ![p] = [@ EXCEPT !.phase = "fence", !.seen = live, !.cls = cls, !.attr = NoAttr,
                                                            !.pc = IF attribute THEN "attr" ELSE "verdict"]]
                       /\ UNCHANGED <<locks, fence>>
    /\ UNCHANGED <<live, slots, active, journal, log, watches, stashed, env, moved, used>>
\* Its verdict: widened, or resolved with its watch (commitFenceResolution).
FenceVerdict(p) ==
    /\ op[p].pc = "verdict" /\ op[p].phase = "fence" /\ fence # None /\ sw = p /\ auth = p
    /\ LET s == Subject(p)
           v == resolveRecoveryVerdict(op[p].cls, op[p].attr, s, head[s.to], op[p].seen)
       IN \/ /\ op[p].cls = "external" /\ health[s.to] # "ok" /\ Finish(p)
             /\ fence' = [fence EXCEPT !.inv = @ \cup ({op[p].seen.a} \cap Accounts)]
             /\ UNCHANGED <<active, log, watches>>
          \/ /\ ~(op[p].cls = "external" /\ health[s.to] # "ok") /\ v.class = "unresolved" /\ Finish(p)
             /\ fence' = setRecoveryFence(s, v.outcome, unresolvedAccounts(s, op[p].attr, v.outcome, op[p].seen))
             /\ UNCHANGED <<active, log, watches>>
          \/ /\ ~(op[p].cls = "external" /\ health[s.to] # "ok") /\ v.class = "resolvable" /\ Cleared(p)
             /\ active' = IF v.outcome = "reverted" \/ v.detail \in {"target-changed", "unknown-live-identity", "wiped"}
                            THEN v.acct ELSE active
             /\ recordSwitch(s.att, v.outcome, "fence", TRUE)
             /\ fence' = None /\ watches' = {w \in watches : w.att # s.att}
    /\ UNCHANGED <<live, slots, journal, stashed, env, moved, used>>

-----------------------------------------------------------------------------
(* The watch of a committed switch: codexWatchTick *)

TickRead(p) ==
    /\ op[p].pc = "tick" /\ sw = p /\ auth = p
    /\ LET mine == {w \in watches : w.att = op[p].att}
           gone == mine = {} \/ SettledByRows(op[p].att) \/ ~IsDoc(live)
           cls == IF live = HeadDoc(op[p].to) THEN "ok" ELSE "external"
           split == health[op[p].to] = "lost" \/ (cls = "ok" /\ health[op[p].to] # "ok")
       IN \/ gone /\ Finish(p) /\ watches' = watches \ mine /\ UNCHANGED fence
          \/ /\ ~gone /\ split /\ Finish(p) /\ UNCHANGED watches
             /\ \E w \in mine : fence' = setRecoveryFence(w, "slot-split", {w.from, w.to, live.a} \cap Accounts)
          \/ /\ ~gone /\ ~split /\ UNCHANGED <<watches, fence, locks>>
             /\ op' = [op EXCEPT ![p] = [@ EXCEPT !.phase = "watch", !.seen = live, !.cls = cls, !.attr = NoAttr,
                                                  !.pc = IF cls = "external" THEN "attr" ELSE "verdict"]]
    /\ UNCHANGED <<live, slots, active, journal, log, stashed, env, moved, used>>
\* Quiet (the last tick consumes the watch), reverted, stopped, or fenced.
WatchVerdict(p) ==
    /\ op[p].pc = "verdict" /\ op[p].phase = "watch" /\ sw = p /\ auth = p
    /\ LET s == Subject(p)
           v == resolveRecoveryVerdict(op[p].cls, op[p].attr, s, head[s.to], op[p].seen)
           split == op[p].cls = "external" /\ health[s.to] # "ok"
           rest == {w \in watches : w.att # s.att}
       IN \/ /\ split \/ v.class = "unresolved"
             /\ fence' = IF split THEN setRecoveryFence(s, "slot-split", {s.from, s.to, op[p].seen.a} \cap Accounts)
                         ELSE setRecoveryFence(s, v.outcome, unresolvedAccounts(s, op[p].attr, v.outcome, op[p].seen))
             /\ UNCHANGED <<active, log, watches>>
          \/ /\ ~split /\ v.outcome = "ok" /\ UNCHANGED <<active, log, fence>> /\ watches' \in {watches, rest}
          \/ /\ ~split /\ v.class = "resolvable" /\ v.outcome # "ok"
             /\ active' = v.acct /\ watches' = rest /\ UNCHANGED fence
             /\ recordSwitch(s.att, v.outcome, "watch", v.outcome = "reverted")
    /\ Finish(p)
    /\ UNCHANGED <<live, slots, journal, stashed, env, moved, used>>

-----------------------------------------------------------------------------
(* The switch itself *)

\* freshenCodexTarget: a target close to expiry is renewed under consume and switch locks.
Freshen(p) ==
    /\ op[p].pc = "freshen"
    /\ \/ Goto(p, "enter") /\ UNCHANGED <<head, been, issued, moved>>
       \/ /\ sw = None /\ issued < MaxTok /\ op[p].to \notin FencedAccounts \cup {active, session.a} /\ health[op[p].to] = "ok"
          /\ MoveHead(op[p].to, issued + 1) /\ NoteMove(op[p].to, issued + 1) /\ issued' = issued + 1 /\ Goto(p, "enter")
       \/ op' = [op EXCEPT ![p] = Idle] /\ UNCHANGED <<head, been, issued, moved>>
    /\ UNCHANGED <<live, health, records, locks, session, used>>
\* Phase L: both locks, the fence and the preconditions again.
EnterLocked(p) ==
    /\ op[p].pc = "enter" /\ sw = None /\ auth = None
    /\ \/ codexRecoveryFenceState = "none" /\ sw' = p /\ auth' = p /\ Goto(p, "observe")
       \/ op' = [op EXCEPT ![p] = Idle] /\ UNCHANGED <<sw, auth>>
    /\ UNCHANGED <<live, slots, records, owner, env, moved, used>>
\* Mutant: what Codex rotated is not taken into its slot before it is overwritten.
ObserveOnly(p) ==
    /\ op[p].pc = "observe" /\ assertHeld(p) /\ IsDoc(live)
    /\ op' = [op EXCEPT ![p] = [@ EXCEPT !.seen = live, !.pc = "cas"]]
    /\ UNCHANGED <<live, slots, records, locks, env, moved, used>>
\* observeLiveCodex: the outgoing login is settled in its slot before it may be overwritten.
ObserveBeforeSwitch(p) ==
    /\ op[p].pc = "observe" /\ assertHeld(p)
    /\ LET r == attributeLiveDocument(live) IN
       \/ /\ ~IsDoc(live) \/ r.disp \in {"split", "throws"}
          /\ Finish(p) /\ UNCHANGED <<live, slots, active, stashed>>
       \/ /\ IsDoc(live) /\ r.disp = "unclaimed" /\ Finish(p) /\ active' = None
          /\ stashed' = stashed \cup {live} /\ UNCHANGED <<live, slots>>
       \/ /\ IsDoc(live) /\ r.disp = "ancestor" /\ live' = HeadDoc(r.acct) /\ active' = r.acct
          /\ UNCHANGED <<slots, stashed, op, locks>>
       \/ /\ IsDoc(live) /\ r.disp \in {"noop", "adopt"} /\ active' = r.acct /\ UNCHANGED <<live, stashed, locks>>
          /\ health' = [health EXCEPT ![r.acct] = "ok"]
          /\ IF r.disp = "adopt" THEN MoveHead(r.acct, live.g) ELSE UNCHANGED <<head, been>>
          /\ op' = [op EXCEPT ![p] = [@ EXCEPT !.seen = live, !.pc = "cas"]]
    /\ UNCHANGED <<journal, fence, log, watches, env, moved, used>>

\* The file is already the target's: a noop row.
SwitchNoop(p) ==
    /\ op[p].pc = "cas" /\ assertHeld(p) /\ op[p].seen.a = op[p].to
    /\ active' = op[p].to /\ recordSwitch(op[p].att, "noop", "switch", FALSE) /\ Finish(p)
    /\ UNCHANGED <<live, slots, journal, fence, watches, stashed, env, moved, used>>
\* The target's slot must back its row; too close to expiry freshens once more; a file that
\* changed is observed again; otherwise the journal is written, under the owner lock.
WriteJournal(p) ==
    /\ op[p].pc = "cas" /\ op[p].seen.a # op[p].to
    /\ \/ health[op[p].to] # "ok" /\ Finish(p) /\ UNCHANGED journal
       \/ /\ health[op[p].to] = "ok" /\ op[p].round = 0 /\ UNCHANGED <<owner, journal>>
          /\ sw' = IF sw = p THEN None ELSE sw
          /\ auth' = IF auth = p THEN None ELSE auth
          /\ op' = [op EXCEPT ![p].pc = "freshen", ![p].round = 1]
       \/ /\ health[op[p].to] = "ok" /\ live # op[p].seen /\ Goto(p, "observe") /\ UNCHANGED <<locks, journal>>
       \/ /\ health[op[p].to] = "ok" /\ live = op[p].seen /\ assertHeld(p) /\ owner = None /\ owner' = p
          /\ journal' = [att |-> op[p].att, from |-> op[p].seen.a, to |-> op[p].to, tfp |-> head[op[p].to],
                         adopting |-> {}, out |-> op[p].seen, by |-> p, released |-> FALSE, unres |-> "none", inv |-> {}]
          /\ op' = [op EXCEPT ![p].pc = "rename", ![p].phase = "post"] /\ UNCHANGED <<sw, auth>>
    /\ UNCHANGED <<live, slots, active, fence, log, watches, stashed, env, moved, used>>
\* publishCodexAuth: the rename lands, or throws.
Rename(p) ==
    /\ op[p].pc = "rename" /\ assertHeld(p)
    /\ \/ live' = [a |-> op[p].to, g |-> journal.tfp] /\ Goto(p, "verify") /\ UNCHANGED used
       \/ Fault /\ UNCHANGED live /\ op' = [op EXCEPT ![p] = [@ EXCEPT !.cls = "not-landed", !.pc = "verdict"]]
    /\ UNCHANGED <<slots, records, locks, env, moved>>
\* The read after the rename: an unusable one leaves the journal, released, to recovery.
\* The rows are read again between the code's verifications (codex-switch.ts:1778, 1807,
\* 1820 and 434), but both locks are held since WriteJournal and no writer of the target's
\* row goes without them: one read stands for all.
Verify(p) ==
    /\ op[p].pc = "verify" /\ assertHeld(p)
    /\ \/ /\ live.a = Missing \/ Fault
          /\ live.a = Missing => UNCHANGED used
          /\ journal' = Released(op[p].att) /\ Finish(p)
       \/ /\ live.a # Missing /\ UNCHANGED <<used, journal, locks>>
          /\ LET cls == classifyPostPublish(journal, "done", live) IN
             op' = [op EXCEPT ![p] = [@ EXCEPT !.seen = live, !.cls = cls,
                       !.pc = IF cls \in {"external", "target-changed"} THEN "attr" ELSE "verdict"]]
    /\ UNCHANGED <<live, slots, active, fence, log, watches, stashed, env, moved>>

-----------------------------------------------------------------------------
(* Faults *)

\* The process dies: its locks go stale and its journal has no live owner.
Crash(p) ==
    /\ op[p].pc # "idle" /\ Fault
    /\ journal' = IF journal # None /\ journal.by = p THEN [journal EXCEPT !.by = None] ELSE journal
    /\ Finish(p) /\ UNCHANGED <<live, slots, active, fence, log, watches, stashed, env, moved>>
\* A command that ended, with its journal still marked active, exits.
Exit(p) ==
    /\ op[p].pc = "idle" /\ journal # None /\ journal.by = p
    /\ journal' = [journal EXCEPT !.by = None]
    /\ UNCHANGED <<live, slots, active, fence, log, watches, stashed, locks, op, env, moved, used>>
\* Stale-lock takeover: switch and auth locks, or the owner lock, leave a stalled holder.
LoseLocks(p) ==
    /\ Fault
    /\ \/ sw = p /\ auth = p /\ sw' = None /\ auth' = None /\ UNCHANGED owner
       \/ owner = p /\ owner' = None /\ UNCHANGED <<sw, auth>>
    /\ UNCHANGED <<live, slots, records, op, env, moved>>

Recovery(p) == \/ LockForRecovery(p) \/ WatchDue(p) \/ Probe(p) \/ ResolveRead(p) \/ Attribute(p) \/ AdoptLive(p)
               \/ JournalVerdict(p) \/ Unlink(p) \/ FenceRead(p) \/ FenceVerdict(p) \/ TickRead(p) \/ WatchVerdict(p)
Switching(p) == \/ Freshen(p) \/ EnterLocked(p) \/ ObserveBeforeSwitch(p) \/ SwitchNoop(p)
                \/ WriteJournal(p) \/ Rename(p) \/ Verify(p)
Next ==
    \/ CodexStart \/ CodexRotate \/ CodexLogin \/ CodexRestore \/ CodexLogout \/ KeychainDamaged \/ ImportActive \/ RefreshSlot
    \/ \E p \in Procs : \/ StartSwitch(p) \/ StartReconcile(p) \/ StartTick(p) \/ Recovery(p) \/ Switching(p)
                        \/ GiveUp(p) \/ Crash(p) \/ Exit(p) \/ LoseLocks(p)
Spec == Init /\ [][Next]_vars

-----------------------------------------------------------------------------
(* Properties *)

\* At rest, with neither journal nor fence, a login that QLB has settled in a slot is the active
\* one: no switch, crash or recovery leaves active_login at another account.
AtRest == journal = None /\ fence = None /\ \A p \in Procs : op[p].pc \in {"idle", "lock", "freshen", "enter"}
AttributedAtRest == AtRest /\ live.a \in Accounts /\ live.g = head[live.a] => active = live.a

\* "Once B has changed outside this attempt, that attempt can never become ok" (resolveJournal).
TargetChangedNeverOk == \A i \in DOMAIN log : log[i].att \in moved => log[i].outcome # "ok" \/ log[i].via = "fence"

\* An attempt is committed once, however often it is recovered.
CommittedOnce ==
    \A i, k \in DOMAIN log : {log[i].via, log[k].via} \subseteq {"switch", "journal"} /\ log[i].att = log[k].att => i = k

\* "The fenced set is unioned and never shrinks until cleared" (section 3.1 in the comments).
FenceOnlyGrows ==
    [][ /\ journal # None /\ journal' # None /\ journal'.att = journal.att =>
             journal.inv \subseteq journal'.inv /\ (journal.unres = "target-changed" => journal'.unres = "target-changed")
        /\ fence # None /\ fence' # None =>
             fence.inv \subseteq fence'.inv /\ (fence.reason = "target-changed" => fence'.reason = "target-changed") ]_vars

\* A switch overwrites only a login that is safe in its slot, unless Codex wrote it since the
\* last look.
NothingOverwrittenUnsaved ==
    [][ \A p \in Procs : op[p].pc = "rename" /\ op'[p].pc = "verify" /\ live = journal.out =>
          live.a \in Accounts /\ live.g \in been[live.a] ]_vars
=============================================================================
